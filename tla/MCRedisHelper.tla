--------------------------- MODULE MCRedisHelper ---------------------------
(* An instance of RedisHelper for TLC: three sessions and a few errors.      *)
EXTENDS RedisHelper
=============================================================================
