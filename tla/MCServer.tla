------------------------------ MODULE MCServer ------------------------------
(* Instances of Server for TLC: one or two workers, two requests.            *)
EXTENDS Server

CONSTANTS w1, w2, r1, r2

TwoWorkers == {w1, w2}
OneWorker == {w1}
TwoRequests == {r1, r2}
=============================================================================
