------------------------------ MODULE MCPubSub ------------------------------
(* An instance of PubSub for TLC: two messages with a consumer, one without. *)
EXTENDS PubSub

CONSTANTS m1, m2, m3

ThreeMessages == {m1, m2, m3}
OneOrphan == {m3}
=============================================================================
