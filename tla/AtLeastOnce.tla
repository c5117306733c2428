----------------------------- MODULE AtLeastOnce -----------------------------
(***************************************************************************)
(* What a queue with acknowledgements after the work promises to whoever    *)
(* sends a message, and no more: it is worked on after it was sent, and      *)
(* once; only a break (of a connection, a process, the broker) repeats what  *)
(* was due at it, adds a copy of a message, or loses one.                    *)
(*                                                                          *)
(* PubSub and the request half of RequestReply implement it.                 *)
(***************************************************************************)
EXTENDS Naturals

CONSTANT Messages

VARIABLES
    sent,       \* the messages sent
    due,        \* due[m]: how often m may still be worked on
    done,       \* done[m]: how often m has been worked on to the end
    lost,       \* messages that need not be worked on any more
    breaks      \* how often something broke

channel == <<sent, due, done, lost, breaks>>

Init ==
    /\ sent = {}
    /\ due = [m \in Messages |-> 0]
    /\ done = [m \in Messages |-> 0]
    /\ lost = {}
    /\ breaks = 0

\* sendToQueue()
SendOne(m) ==
    /\ m \notin sent
    /\ sent' = sent \cup {m}
    /\ due' = [due EXCEPT ![m] = 1]
    /\ UNCHANGED <<done, lost, breaks>>

\* A handler of the message has come to its end.
Finish(m) ==
    /\ due[m] > 0
    /\ due' = [due EXCEPT ![m] = @ - 1]
    /\ done' = [done EXCEPT ![m] = @ + 1]
    /\ UNCHANGED <<sent, lost, breaks>>

\* Something breaks.  Handlers may have come to their end of which the queue
\* has not heard, so that what they did stays due; what was sent may be there
\* once more than before, or be gone.
Break ==
    /\ breaks' = breaks + 1
    /\ done' \in [Messages -> Nat]
    /\ due' \in [Messages -> Nat]
    /\ \A m \in Messages :
          /\ done[m] <= done'[m] /\ done'[m] <= done[m] + due[m]
          /\ due'[m] <= IF m \in sent THEN due[m] + 1 ELSE 0
    /\ \E gone \in SUBSET sent : lost' = lost \cup gone
    /\ UNCHANGED sent

Next ==
    \/ \E m \in Messages : SendOne(m) \/ Finish(m)
    \/ Break

Spec == Init /\ [][Next]_channel

\* What is sent is worked on, unless it is lost.
Promise == \A m \in Messages : m \in sent ~> done[m] > 0 \/ m \in lost
=============================================================================
