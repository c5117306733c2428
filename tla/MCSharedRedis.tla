--------------------------- MODULE MCSharedRedis ---------------------------
(* The instance of SharedRedis for TLC.  "redis" lets the cache calls of     *)
(* CreateUser fail; only the shared helper makes them do so.                 *)
EXTENDS SharedRedis

RedisFaults == {"redis"}
=============================================================================
