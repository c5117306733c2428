--------------------------- MODULE MCCreateUser ---------------------------
(* Instances of CreateUser for TLC; the configurations choose the pools.    *)
EXTENDS CreateUserInvariant

AllFaults == {"connect", "service", "redis", "commit", "crash"}
NoFaults == {}
=============================================================================
