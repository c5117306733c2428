------------------------------- MODULE PubSub -------------------------------
(***************************************************************************)
(* Publish and subscribe over RabbitMQ: a producer, the broker, and the      *)
(* subscriber process, which dies of a handler that throws.                  *)
(*                                                                          *)
(* The subscriber asks for messages without a prefetch limit, so the         *)
(* handlers of many messages run interleaved; the rejection of one consumer  *)
(* callback is caught by nobody and ends the process with all of them.       *)
(***************************************************************************)
EXTENDS Naturals

CONSTANTS
    Messages,       \* the messages published
    Orphans,        \* those for a queue without a registered consumer
    MaxLosses,      \* bound: lost connections and broker restarts
    MaxFailures     \* bound: failures after which no handler throws any more

ASSUME PubSubAssumption ==
    /\ Orphans \subseteq Messages
    /\ MaxLosses \in Nat
    /\ MaxFailures \in Nat

VARIABLES
    publish,        \* publish[m]: the promise of sendAsync
    queued,         \* queued[m]: copies of m ready in its queue
    handling,       \* handling[m]: copies delivered and not acknowledged
    stale,          \* stale[m]: handlers of m at work, their channel closed
    running,        \* the subscriber process is up and subscribed
    runs,           \* history: runs[m]: handlers of m that returned
    forgotten,      \* history: messages a broker restart took
    losses,
    failures        \* history: consumer callbacks that were rejected

psVars == <<publish, queued, handling, stale, running, runs, forgotten, losses, failures>>

Zero == [m \in Messages |-> 0]

PubSubInit ==
    /\ publish = [m \in Messages |-> "idle"]
    /\ queued = Zero /\ handling = Zero /\ stale = Zero
    /\ running = FALSE
    /\ runs = Zero
    /\ forgotten = {}
    /\ losses = 0 /\ failures = 0

Requeued == [m \in Messages |-> queued[m] + handling[m]]

Lose == losses < MaxLosses /\ losses' = losses + 1

\* The handlers that have returned when a channel closes, of each message,
\* whose ack() does not get to the broker any more.
Unacked == {f \in [Messages -> 0 .. MaxLosses + 1] :
                \A m \in Messages : f[m] <= handling[m]}

\* So often have handlers returned if these have; nothing handles an orphan.
Returned(f) ==
    [m \in Messages |-> IF m \in Orphans THEN runs[m] ELSE runs[m] + f[m]]

-----------------------------------------------------------------------------
\* The producer.

\* sendToQueue(): the message is at the broker, its confirm still to come.
Publish(m) ==
    /\ publish[m] = "idle"
    /\ publish' = [publish EXCEPT ![m] = "sent"]
    /\ queued' = [queued EXCEPT ![m] = @ + 1]
    /\ UNCHANGED <<handling, stale, running, runs, forgotten, losses, failures>>

\* The broker confirms and the awaited sendAsync returns.
Confirm(m) ==
    /\ publish[m] = "sent"
    /\ publish' = [publish EXCEPT ![m] = "confirmed"]
    /\ UNCHANGED <<queued, handling, stale, running, runs, forgotten,
                   losses, failures>>

\* The producer's connection breaks before the confirm: the message is sent
\* again, although its first copy may have arrived.
Republish(m) ==
    /\ publish[m] = "sent"
    /\ Lose
    /\ queued' = [queued EXCEPT ![m] = @ + 1]
    /\ UNCHANGED <<publish, handling, stale, running, runs, forgotten, failures>>

-----------------------------------------------------------------------------
\* The subscriber.

Subscribe ==
    /\ ~ running
    /\ running' = TRUE
    /\ UNCHANGED <<publish, queued, handling, stale, runs, forgotten,
                   losses, failures>>

Deliver(m) ==
    /\ running
    /\ queued[m] > 0
    /\ queued' = [queued EXCEPT ![m] = @ - 1]
    /\ handling' = [handling EXCEPT ![m] = @ + 1]
    /\ UNCHANGED <<publish, stale, running, runs, forgotten, losses, failures>>

\* trigger() of m has returned; without a registered consumer it does at once.
Triggered(m) ==
    IF m \in Orphans THEN UNCHANGED runs
                     ELSE runs' = [runs EXCEPT ![m] = @ + 1]

\* Variant: nack() instead of ack().
HandleNacked(m) ==
    /\ handling[m] > 0
    /\ handling' = [handling EXCEPT ![m] = @ - 1]
    /\ queued' = [queued EXCEPT ![m] = @ + 1]
    /\ Triggered(m)
    /\ UNCHANGED <<publish, stale, running, forgotten, losses, failures>>

\* Variant: trigger() acknowledges, and the callback does so again.
HandleAckedTwice(m) ==
    /\ handling[m] > 0
    /\ handling' = [handling EXCEPT ![m] = @ - 2]
    /\ Triggered(m)
    /\ UNCHANGED <<publish, queued, stale, running, forgotten, losses, failures>>

\* Variant: a message without a consumer is returned to its queue.
HandleOrphanNacked(m) ==
    /\ handling[m] > 0
    /\ handling' = [handling EXCEPT ![m] = @ - 1]
    /\ queued' = [queued EXCEPT ![m] = IF m \in Orphans THEN @ + 1 ELSE @]
    /\ Triggered(m)
    /\ UNCHANGED <<publish, stale, running, forgotten, losses, failures>>

\* trigger() returns, then ack().
Handle(m) ==
    /\ handling[m] > 0
    /\ handling' = [handling EXCEPT ![m] = @ - 1]
    /\ Triggered(m)
    /\ UNCHANGED <<publish, queued, stale, running, forgotten, losses, failures>>

\* The process ends, and the broker takes back what it had delivered to it.
Die ==
    /\ failures' = failures + 1
    /\ running' = FALSE
    /\ queued' = Requeued
    /\ handling' = Zero
    /\ stale' = Zero

\* Variant: the message is acknowledged before its handler has returned.
HandlerThrowsAcked(m) ==
    /\ handling[m] > 0
    /\ m \notin Orphans
    /\ failures < MaxFailures
    /\ failures' = failures + 1
    /\ handling' = [handling EXCEPT ![m] = 0]
    /\ UNCHANGED <<publish, queued, stale, running, runs, forgotten, losses>>

\* The handler throws; nothing catches the rejection of the callback.
HandlerThrows(m) ==
    /\ handling[m] + stale[m] > 0
    /\ m \notin Orphans
    /\ failures < MaxFailures
    /\ \E unacked \in Unacked :
          /\ unacked[m] < handling[m] + stale[m]
          /\ runs' = Returned(unacked)
    /\ Die
    /\ UNCHANGED <<publish, forgotten, losses>>

\* The subscriber's connection breaks: the broker takes its deliveries back
\* while their handlers go on, or have returned and only their ack() is lost;
\* the connection manager subscribes again.
ConnectionLost ==
    /\ running
    /\ Lose
    /\ \E unacked \in Unacked :
          /\ runs' = Returned(unacked)
          /\ stale' = [m \in Messages |-> stale[m] + (handling[m] - unacked[m])]
    /\ queued' = Requeued
    /\ handling' = Zero
    /\ UNCHANGED <<publish, running, forgotten, failures>>

\* Such a handler returns: ack() on its closed channel throws.
StaleReturns(m) ==
    /\ stale[m] > 0
    /\ \E unacked \in Unacked : runs' = Returned([unacked EXCEPT ![m] = @ + 1])
    /\ Die
    /\ UNCHANGED <<publish, forgotten, losses>>

\* The queues are durable, the messages are not sent as persistent; what was
\* not confirmed is sent again.
BrokerRestart ==
    /\ Lose
    /\ queued' = [m \in Messages |-> IF publish[m] = "sent" THEN 1 ELSE 0]
    /\ stale' = [m \in Messages |-> stale[m] + handling[m]]
    /\ handling' = Zero
    /\ forgotten' = forgotten \cup {m \in Messages : publish[m] = "confirmed"}
    /\ UNCHANGED <<publish, running, runs, failures>>

-----------------------------------------------------------------------------
Progress(m) ==
    \/ Confirm(m) \/ Deliver(m)
    \/ Handle(m) \/ HandlerThrows(m) \/ StaleReturns(m)

PubSubNext ==
    \/ Subscribe
    \/ \E m \in Messages :
          Publish(m) \/ Progress(m) \/ Republish(m)
    \/ ConnectionLost
    \/ BrokerRestart

\* The process manager starts a dead subscriber again, and the event loop
\* runs its callbacks.
PubSubFairness ==
    /\ WF_psVars(Subscribe)
    /\ \A m \in Messages :
          /\ WF_psVars(Confirm(m))
          /\ WF_psVars(Deliver(m))
          /\ WF_psVars(Handle(m) \/ HandlerThrows(m) \/ StaleReturns(m))

PubSubSpec == PubSubInit /\ [][PubSubNext]_psVars /\ PubSubFairness

-----------------------------------------------------------------------------
PubSubTypeOK ==
    /\ publish \in [Messages -> {"idle", "sent", "confirmed"}]
    /\ queued \in [Messages -> Nat]
    /\ handling \in [Messages -> Nat]
    /\ stale \in [Messages -> Nat]
    /\ running \in BOOLEAN
    /\ runs \in [Messages -> Nat]
    /\ forgotten \subseteq Messages
    /\ losses \in 0 .. MaxLosses
    /\ failures \in Nat

\* A message whose publication was confirmed and that has a consumer is
\* handled or still at hand, whatever handler throws and whatever process dies
\* with it; only a broker restart loses it (consumers 30-32 trigger first and
\* acknowledge afterwards).
PublishedIsKept ==
    \A m \in Messages \ Orphans :
        publish[m] # "idle" =>
            runs[m] > 0 \/ queued[m] + handling[m] > 0 \/ m \in forgotten

\* Every copy of a message is paid for by a loss, and until a connection, the
\* broker or the process of a throwing handler goes, none is handled twice.
CopiesArePaidFor ==
    \A m \in Messages :
        /\ queued[m] + handling[m] <= 1 + losses
        /\ losses + failures = 0 => runs[m] + queued[m] + handling[m] <= 1

\* No copy goes round for ever: what was repeated and what has no consumer
\* (consumers 61 warns, 32 acknowledges) leaves the queue for good as well.
EveryCopyIsSettled ==
    \A m \in Messages :
        publish[m] = "sent" ~> [](queued[m] + handling[m] + stale[m] = 0)

-----------------------------------------------------------------------------
\* The queue as its producers see it; orphans promise nothing.  Of all stale
\* handlers one comes to its end: its process dies with the others.
Consumed == Messages \ Orphans
Sent == {m \in Consumed : publish[m] # "idle"}
Due == [m \in Consumed |-> queued[m] + handling[m] + (IF stale[m] > 0 THEN 1 ELSE 0)]
Done == [m \in Consumed |-> runs[m]]
Lost == forgotten \ Orphans

Channel == INSTANCE AtLeastOnce WITH
    Messages <- Consumed, sent <- Sent, due <- Due, done <- Done, lost <- Lost,
    breaks <- losses + failures

\* Handlers that throw, handlers that outlive their channel and publications
\* that are repeated add nothing to what AtLeastOnce allows: no handler runs
\* before its message was sent, or again without a break that explains it.
ImplementsAtLeastOnce == Channel!Spec
=============================================================================
