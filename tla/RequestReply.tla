---------------------------- MODULE RequestReply ----------------------------
(***************************************************************************)
(* Request and reply over RabbitMQ: callers of sendAsync in one process, a  *)
(* consumer process that answers them, and the broker between them.          *)
(*                                                                          *)
(* Every call adds a consumer of its own to the one durable reply_queue and  *)
(* never cancels it.  The broker hands a reply to any consumer of the queue; *)
(* a consumer keeps a reply to another call without acknowledging it, so the *)
(* broker offers it again only when the callers' channel is lost.            *)
(*                                                                          *)
(* Messages are told apart by the call they belong to (the correlationId),   *)
(* so queued, handling, ready and stuck count them for each call.  The queue *)
(* reply_queue exists: the consumer process declared it once, durably.       *)
(***************************************************************************)
EXTENDS Naturals

CONSTANTS
    Calls,          \* the calls of sendAsync; also their correlationIds
    MaxLosses,      \* bound: lost connections, dead processes, broker restarts
    MaxFailures     \* bound: handlers that throw or are not registered

ASSUME BoundsAssumption == MaxLosses \in Nat /\ MaxFailures \in Nat

VARIABLES
    call,           \* call[c]: where the promise of sendAsync stands
    consumers,      \* calls whose consumer is registered on reply_queue
    unconfirmed,    \* calls whose request the broker has not confirmed
    queued,         \* queued[c]: requests of c ready in the request queue
    handling,       \* handling[c]: requests of c delivered, not acknowledged
    ready,          \* ready[c]: replies to c ready in reply_queue
    stuck,          \* stuck[c]: replies to c kept by consumers of other calls
    answers,        \* history: answers[c]: handler runs that answered c
    refusals,       \* history: refusals[c]: handler runs that failed c
    forgotten,      \* history: calls whose messages a broker restart took
    losses, failures

rrVars == <<call, consumers, unconfirmed, queued, handling, ready, stuck,
            answers, refusals, forgotten, losses, failures>>

None == [c \in Calls |-> 0]

RequestReplyInit ==
    /\ call = [c \in Calls |-> "idle"]
    /\ consumers = {}
    /\ unconfirmed = {}
    /\ queued = None /\ handling = None
    /\ ready = None /\ stuck = None
    /\ answers = None /\ refusals = None
    /\ forgotten = {}
    /\ losses = 0 /\ failures = 0

Plus(f, g) == [c \in Calls |-> f[c] + g[c]]

One(S) == [c \in Calls |-> IF c \in S THEN 1 ELSE 0]

-----------------------------------------------------------------------------
\* The callers.

\* consume() on reply_queue, then sendToQueue(); neither is awaited.
Send(c) ==
    /\ call[c] = "idle"
    /\ call' = [call EXCEPT ![c] = "waiting"]
    /\ consumers' = consumers \cup {c}
    /\ unconfirmed' = unconfirmed \cup {c}
    /\ queued' = [queued EXCEPT ![c] = @ + 1]
    /\ UNCHANGED <<handling, ready, stuck, answers, refusals, forgotten, losses, failures>>

Confirm(c) ==
    /\ c \in unconfirmed
    /\ unconfirmed' = unconfirmed \ {c}
    /\ UNCHANGED <<call, consumers, queued, handling, ready, stuck,
                   answers, refusals, forgotten, losses, failures>>

\* Variant: a reply is taken from the queue twice, by the broker and the ack.
ResolveTwice(c) ==
    /\ ready[c] > 0
    /\ c \in consumers
    /\ ready' = [ready EXCEPT ![c] = @ - 2]
    /\ call' = [call EXCEPT ![c] = "resolved"]
    /\ UNCHANGED <<consumers, unconfirmed, queued, handling, stuck,
                   answers, refusals, forgotten, losses, failures>>

\* The reply reaches the consumer of its own call: resolve, then ack.  A
\* second reply changes nothing, the promise is settled.
Resolve(c) ==
    /\ ready[c] > 0
    /\ c \in consumers
    /\ ready' = [ready EXCEPT ![c] = @ - 1]
    /\ call' = [call EXCEPT ![c] = "resolved"]
    /\ UNCHANGED <<consumers, unconfirmed, queued, handling, stuck,
                   answers, refusals, forgotten, losses, failures>>

\* Variant: the correlationId is not compared.
MisdeliverResolves(c) ==
    /\ ready[c] > 0
    /\ \E k \in consumers \ {c} : call' = [call EXCEPT ![k] = "resolved"]
    /\ ready' = [ready EXCEPT ![c] = @ - 1]
    /\ UNCHANGED <<consumers, unconfirmed, queued, handling, stuck,
                   answers, refusals, forgotten, losses, failures>>

\* Variant: the ack stands outside the comparison.
MisdeliverAcks(c) ==
    /\ ready[c] > 0
    /\ consumers \ {c} # {}
    /\ ready' = [ready EXCEPT ![c] = @ - 1]
    /\ UNCHANGED <<call, consumers, unconfirmed, queued, handling, stuck,
                   answers, refusals, forgotten, losses, failures>>

\* The reply reaches the consumer of another call, in progress or long over,
\* which neither acknowledges nor returns it.
Misdeliver(c) ==
    /\ ready[c] > 0
    /\ consumers \ {c} # {}
    /\ ready' = [ready EXCEPT ![c] = @ - 1]
    /\ stuck' = [stuck EXCEPT ![c] = @ + 1]
    /\ UNCHANGED <<call, consumers, unconfirmed, queued, handling,
                   answers, refusals, forgotten, losses, failures>>

-----------------------------------------------------------------------------
\* The consumer process.

Deliver(c) ==
    /\ queued[c] > 0
    /\ queued' = [queued EXCEPT ![c] = @ - 1]
    /\ handling' = [handling EXCEPT ![c] = @ + 1]
    /\ UNCHANGED <<call, consumers, unconfirmed, ready, stuck,
                   answers, refusals, forgotten, losses, failures>>

\* Variant: the reply is left out when nobody is seen to wait for it.
AnswerUnsent(c) ==
    /\ handling[c] > 0
    /\ handling' = [handling EXCEPT ![c] = @ - 1]
    /\ answers' = [answers EXCEPT ![c] = @ + 1]
    /\ UNCHANGED <<call, consumers, unconfirmed, queued, ready, stuck,
                   refusals, forgotten, losses, failures>>

\* The handler returns; its reply and the acknowledgement leave together.
Answer(c) ==
    /\ handling[c] > 0
    /\ handling' = [handling EXCEPT ![c] = @ - 1]
    /\ ready' = [ready EXCEPT ![c] = @ + 1]
    /\ answers' = [answers EXCEPT ![c] = @ + 1]
    /\ UNCHANGED <<call, consumers, unconfirmed, queued, stuck,
                   refusals, forgotten, losses, failures>>

\* Variant: a request whose handler failed is requeued.
HandlerFailsRequeues(c) ==
    /\ failures < MaxFailures
    /\ handling[c] > 0
    /\ queued' = [queued EXCEPT ![c] = @ + 1]
    /\ handling' = [handling EXCEPT ![c] = @ - 1]
    /\ refusals' = [refusals EXCEPT ![c] = @ + 1]
    /\ failures' = failures + 1
    /\ UNCHANGED <<call, consumers, unconfirmed, ready, stuck,
                   answers, forgotten, losses>>

\* The handler throws, or there is none and its answer undefined cannot be
\* put into a message: logged, and acknowledged without a reply.
HandlerFails(c) ==
    /\ failures < MaxFailures
    /\ handling[c] > 0
    /\ handling' = [handling EXCEPT ![c] = @ - 1]
    /\ refusals' = [refusals EXCEPT ![c] = @ + 1]
    /\ failures' = failures + 1
    /\ UNCHANGED <<call, consumers, unconfirmed, queued, ready, stuck,
                   answers, forgotten, losses>>

-----------------------------------------------------------------------------
\* Losses.

Lose == losses < MaxLosses /\ losses' = losses + 1

\* Variant: the consumer takes its requests with noAck.
ConsumerLostAutoAck ==
    /\ Lose
    /\ handling' = None
    /\ UNCHANGED <<call, consumers, unconfirmed, queued, ready, stuck,
                   answers, refusals, forgotten, failures>>

\* The consumer's channel or process is gone: the broker requeues what it had
\* delivered, also where a handler has returned, its reply has left and only
\* the acknowledgement is lost.  A handler that was still running ends with its
\* process, which the ack on a closed channel brings down.
ConsumerLost ==
    /\ Lose
    /\ \E unacked \in [Calls -> 0 .. MaxLosses + 1] :
          /\ \A c \in Calls : unacked[c] <= handling[c]
          /\ ready' = Plus(ready, unacked)
          /\ answers' = Plus(answers, unacked)
    /\ queued' = Plus(queued, handling)
    /\ handling' = None
    /\ UNCHANGED <<call, consumers, unconfirmed, stuck, refusals, forgotten, failures>>

\* The callers' connection is lost and restored: their consumers come back,
\* the replies they kept are offered again, and what was not confirmed is sent
\* again, whether it had arrived or not.
CallersReconnect ==
    /\ Lose
    /\ ready' = Plus(ready, stuck)
    /\ stuck' = None
    /\ \E arrived \in SUBSET unconfirmed : queued' = Plus(queued, One(arrived))
    /\ UNCHANGED <<call, consumers, unconfirmed, handling,
                   answers, refusals, forgotten, failures>>

\* The callers' process dies with its promises and its consumers.
CallersCrash ==
    /\ Lose
    /\ consumers # {}
    /\ call' = [c \in Calls |-> IF call[c] = "waiting" THEN "lost" ELSE call[c]]
    /\ consumers' = {}
    /\ unconfirmed' = {}
    /\ ready' = Plus(ready, stuck)
    /\ stuck' = None
    /\ UNCHANGED <<queued, handling, answers, refusals, forgotten, failures>>

\* The broker restarts: both queues are durable, their messages are not.
\* What was not confirmed is sent again.
BrokerRestart ==
    /\ Lose
    /\ queued' = One(unconfirmed)
    /\ handling' = None
    /\ ready' = None
    /\ stuck' = None
    /\ forgotten' = forgotten \cup {c \in Calls \ unconfirmed : call[c] = "waiting"}
    /\ UNCHANGED <<call, consumers, unconfirmed, answers, refusals, failures>>

-----------------------------------------------------------------------------
Progress(c) ==
    \/ Confirm(c)
    \/ Deliver(c) \/ Answer(c) \/ HandlerFails(c)
    \/ Resolve(c) \/ Misdeliver(c)

Loss == ConsumerLost \/ CallersReconnect \/ CallersCrash \/ BrokerRestart

RequestReplyNext ==
    \/ \E c \in Calls : Send(c) \/ Progress(c)
    \/ Loss

\* Broker, channels and handlers run; nobody is obliged to call, and no
\* connection is obliged to break.
RequestReplyFairness ==
    \A c \in Calls :
        /\ WF_rrVars(Confirm(c))
        /\ WF_rrVars(Deliver(c))
        /\ WF_rrVars(Answer(c) \/ HandlerFails(c))
        /\ WF_rrVars(Resolve(c) \/ Misdeliver(c))

RequestReplySpec ==
    RequestReplyInit /\ [][RequestReplyNext]_rrVars /\ RequestReplyFairness

-----------------------------------------------------------------------------
RequestReplyTypeOK ==
    /\ call \in [Calls -> {"idle", "waiting", "resolved", "lost"}]
    /\ consumers \subseteq Calls
    /\ unconfirmed \subseteq Calls
    /\ queued \in [Calls -> Nat]
    /\ handling \in [Calls -> Nat]
    /\ ready \in [Calls -> Nat]
    /\ stuck \in [Calls -> Nat]
    /\ answers \in [Calls -> Nat]
    /\ refusals \in [Calls -> Nat]
    /\ forgotten \subseteq Calls
    /\ losses \in 0 .. MaxLosses
    /\ failures \in 0 .. MaxFailures

\* A promise is resolved only once its own request has been answered, whoever
\* shares the reply queue (request 36: the correlationId is compared).
ResolvedMeansAnswered == \A c \in Calls : call[c] = "resolved" => answers[c] > 0

\* The reply a caller waits for is never destroyed: unless the handler failed
\* or the broker forgot it, its request or its reply is still somewhere, if
\* only in the hands of another call's consumer (request 36-40 acknowledges
\* nothing it does not match, consumers 60 only what was answered).
WaitingIsAccountedFor ==
    \A c \in Calls :
        call[c] = "waiting" =>
            \/ queued[c] + handling[c] + ready[c] + stuck[c] > 0
            \/ refusals[c] > 0 \/ c \in forgotten

\* Every copy of a request is paid for by a loss, and until the first loss no
\* handler is repeated (consumers 60 acknowledges even what failed).
CopiesArePaidFor ==
    \A c \in Calls :
        /\ queued[c] + handling[c] <= 1 + losses
        /\ losses = 0 => answers[c] + refusals[c] + queued[c] + handling[c] <= 1

\* What a caller that shares the reply queue with nobody waits for is in no
\* other consumer's hands: a broker or a handler has yet to act on it
\* (request 36: only the consumer of another call keeps a reply).
LoneReplyIsAtHand ==
    \A c \in Calls :
        call[c] = "waiting" /\ consumers = {c} =>
            \/ queued[c] + handling[c] + ready[c] > 0
            \/ refusals[c] > 0 \/ c \in forgotten

\* A call whose consumer is alone on the reply queue gets its answer, however
\* often connections break, unless its handler fails or the broker restarts.
LoneCallIsAnswered ==
    \A c \in Calls :
        call[c] = "waiting" /\ consumers = {c} ~>
            \/ call[c] # "waiting" \/ consumers # {c}
            \/ refusals[c] > 0 \/ c \in forgotten

\* Every request is followed by its reply (README.md:4, "Request and Reply
\* mode") when nothing is lost and no handler fails.
EveryCallIsAnswered ==
    \A c \in Calls : call[c] = "waiting" ~> call[c] = "resolved"

-----------------------------------------------------------------------------
\* The request queue as its callers see it.  A caller that has died waits for
\* nothing.
Sent == {c \in Calls : call[c] # "idle"}
Due == Plus(queued, handling)
Done == Plus(answers, refusals)
Lost == forgotten \cup {c \in Calls : call[c] = "lost"}

Channel == INSTANCE AtLeastOnce WITH
    Messages <- Calls, sent <- Sent, due <- Due, done <- Done, lost <- Lost, breaks <- losses

\* Whatever becomes of the reply, the request half is an at-least-once queue:
\* consumers 60 acknowledges once for every run of the handler, also of one
\* that failed.
ImplementsAtLeastOnce == Channel!Spec

\* Every request meets its handler, although its reply may meet nobody.
EveryRequestIsHandled == Channel!Promise
=============================================================================
