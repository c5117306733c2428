--------------------------- MODULE MCRequestReply ---------------------------
(* Instances of RequestReply for TLC; the configurations bound what breaks.  *)
EXTENDS RequestReply
=============================================================================
