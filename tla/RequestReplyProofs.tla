-------------------------- MODULE RequestReplyProofs --------------------------
(***************************************************************************)
(* Proofs about RequestReply for any set of calls and any bounds.  What the *)
(* promises, the messages of both queues and the losses have to do with one  *)
(* another is an invariant of each call by itself.                           *)
(***************************************************************************)
EXTENDS RequestReply, TLAPS

\* One call: its promise, its messages and what the losses have paid for.
CallInv(c) ==
    /\ c \in consumers => call[c] \in {"waiting", "resolved"}
    /\ c \in unconfirmed => call[c] \in {"waiting", "resolved"}
    /\ call[c] = "idle" =>
          queued[c] = 0 /\ handling[c] = 0 /\ answers[c] = 0 /\ refusals[c] = 0
    /\ ready[c] + stuck[c] > 0 => answers[c] > 0
    /\ call[c] = "resolved" => answers[c] > 0
    /\ call[c] = "waiting" =>
          \/ queued[c] + handling[c] + ready[c] + stuck[c] > 0
          \/ refusals[c] > 0 \/ c \in forgotten
    /\ queued[c] + handling[c] <= 1 + losses
    /\ losses = 0 => answers[c] + refusals[c] + queued[c] + handling[c] <= 1

RRInv == RequestReplyTypeOK /\ \A c \in Calls : CallInv(c)

-----------------------------------------------------------------------------
\* The invariant holds before the first call.
LEMMA RepliesInitially == RequestReplyInit => RRInv
  BY BoundsAssumption
     DEF RequestReplyInit, RRInv, RequestReplyTypeOK, CallInv, None

\* The steps of the callers and of their consumers on the reply queue.
LEMMA CallerStepKeeps ==
    ASSUME RRInv, NEW c \in Calls,
           Send(c) \/ Confirm(c) \/ Resolve(c) \/ Misdeliver(c)
    PROVE  RRInv'
<1>1. RequestReplyTypeOK'
  <2>1. RequestReplyTypeOK
    BY DEF RRInv
  <2>2. CASE Send(c)
    BY <2>1, <2>2 DEF RequestReplyTypeOK, Send
  <2>3. CASE Confirm(c)
    BY <2>1, <2>3 DEF RequestReplyTypeOK, Confirm
  <2>4. CASE Resolve(c)
    BY <2>1, <2>4 DEF RequestReplyTypeOK, Resolve
  <2>5. CASE Misdeliver(c)
    BY <2>1, <2>5 DEF RequestReplyTypeOK, Misdeliver
  <2> QED  BY <2>2, <2>3, <2>4, <2>5
<1>2. ASSUME NEW d \in Calls
      PROVE  CallInv(d)'
  <2>1. CallInv(d) /\ CallInv(c) /\ RequestReplyTypeOK
    BY DEF RRInv
  <2>2. CASE Send(c)
    BY <2>1, <2>2 DEF RequestReplyTypeOK, CallInv, Send
  <2>3. CASE Confirm(c)
    BY <2>1, <2>3 DEF RequestReplyTypeOK, CallInv, Confirm
  <2>4. CASE Resolve(c)
    BY <2>1, <2>4 DEF RequestReplyTypeOK, CallInv, Resolve
  <2>5. CASE Misdeliver(c)
    BY <2>1, <2>5 DEF RequestReplyTypeOK, CallInv, Misdeliver
  <2> QED  BY <2>2, <2>3, <2>4, <2>5
<1> QED  BY <1>1, <1>2 DEF RRInv

\* The steps of the consumer process.
LEMMA ConsumerStepKeeps ==
    ASSUME RRInv, NEW c \in Calls,
           Deliver(c) \/ Answer(c) \/ HandlerFails(c)
    PROVE  RRInv'
<1>1. RequestReplyTypeOK'
  BY BoundsAssumption
     DEF RRInv, RequestReplyTypeOK, Deliver, Answer, HandlerFails
<1>2. ASSUME NEW d \in Calls
      PROVE  CallInv(d)'
  <2>1. CallInv(d) /\ CallInv(c) /\ RequestReplyTypeOK
    BY DEF RRInv
  <2>2. CASE Deliver(c)
    BY <2>1, <2>2 DEF RequestReplyTypeOK, CallInv, Deliver
  <2>3. CASE Answer(c)
    BY <2>1, <2>3 DEF RequestReplyTypeOK, CallInv, Answer
  <2>4. CASE HandlerFails(c)
    BY <2>1, <2>4 DEF RequestReplyTypeOK, CallInv, HandlerFails
  <2> QED  BY <2>2, <2>3, <2>4
<1> QED  BY <1>1, <1>2 DEF RRInv

\* What is requeued, offered or sent again after a loss is paid for by it.
LEMMA LossKeeps ==
    ASSUME RRInv, Loss
    PROVE  RRInv'
<1>1. RequestReplyTypeOK
  BY DEF RRInv
<1>2. CASE ConsumerLost
  <2> PICK unacked \in [Calls -> 0 .. MaxLosses + 1] :
               /\ ready' = Plus(ready, unacked)
               /\ answers' = Plus(answers, unacked)
    BY <1>2 DEF ConsumerLost
  <2>1. unacked \in [Calls -> Nat]
    BY BoundsAssumption
  <2>2. RequestReplyTypeOK'
    BY <1>1, <1>2, <2>1, BoundsAssumption
       DEF RequestReplyTypeOK, ConsumerLost, Lose, Plus, None
  <2>3. ASSUME NEW d \in Calls
        PROVE  CallInv(d)'
    <3>1. CallInv(d) /\ unacked[d] \in Nat
      BY <2>1 DEF RRInv
    <3>2. unacked[d] <= handling[d]
      BY <1>1, <1>2, <2>1 DEF RequestReplyTypeOK, ConsumerLost, Plus
    <3>3. /\ ready'[d] = ready[d] + unacked[d] /\ answers'[d] = answers[d] + unacked[d]
          /\ queued'[d] = queued[d] + handling[d] /\ handling'[d] = 0
      BY <1>2 DEF ConsumerLost, Plus, None
    <3>4. /\ losses' = losses + 1
          /\ UNCHANGED <<call, consumers, unconfirmed, stuck, refusals, forgotten>>
      BY <1>2 DEF ConsumerLost, Lose
    <3>5. /\ queued[d] \in Nat /\ handling[d] \in Nat /\ losses \in Nat
          /\ ready[d] \in Nat /\ stuck[d] \in Nat
          /\ answers[d] \in Nat /\ refusals[d] \in Nat
      BY <1>1, BoundsAssumption DEF RequestReplyTypeOK
    <3> QED  BY <3>1, <3>2, <3>3, <3>4, <3>5 DEF CallInv
  <2> QED  BY <2>2, <2>3 DEF RRInv
<1>4. CASE CallersReconnect
  <2> PICK arrived \in SUBSET unconfirmed : queued' = Plus(queued, One(arrived))
    BY <1>4 DEF CallersReconnect
  <2>1. RequestReplyTypeOK'
    <3>1. One(arrived) \in [Calls -> Nat]
      BY DEF One
    <3>2. queued' \in [Calls -> Nat]
      BY <1>1, <3>1 DEF RequestReplyTypeOK, Plus
    <3>3. ready' \in [Calls -> Nat] /\ stuck' \in [Calls -> Nat]
      BY <1>1, <1>4 DEF RequestReplyTypeOK, CallersReconnect, Plus, None
    <3>4. losses' \in 0 .. MaxLosses
      BY <1>1, <1>4, BoundsAssumption DEF RequestReplyTypeOK, CallersReconnect, Lose
    <3> QED  BY <1>1, <1>4, <3>2, <3>3, <3>4 DEF RequestReplyTypeOK, CallersReconnect
  <2>2. ASSUME NEW d \in Calls
        PROVE  CallInv(d)'
    <3>1. CallInv(d)
      BY DEF RRInv
    <3>2. \/ queued'[d] = queued[d]
          \/ queued'[d] = queued[d] + 1 /\ d \in unconfirmed
      BY <1>1 DEF RequestReplyTypeOK, Plus, One
    <3>3. ready'[d] = ready[d] + stuck[d] /\ stuck'[d] = 0
      BY <1>4 DEF CallersReconnect, Plus, None
    <3>4. /\ losses' = losses + 1
          /\ UNCHANGED <<call, consumers, unconfirmed, handling,
                         answers, refusals, forgotten>>
      BY <1>4 DEF CallersReconnect, Lose
    <3>5. /\ queued[d] \in Nat /\ handling[d] \in Nat /\ losses \in Nat
          /\ ready[d] \in Nat /\ stuck[d] \in Nat
          /\ answers[d] \in Nat /\ refusals[d] \in Nat
      BY <1>1, BoundsAssumption DEF RequestReplyTypeOK
    <3> QED  BY <3>1, <3>2, <3>3, <3>4, <3>5 DEF CallInv
  <2> QED  BY <2>1, <2>2 DEF RRInv
<1>5. CASE CallersCrash
  BY <1>1, <1>5, BoundsAssumption
     DEF RRInv, RequestReplyTypeOK, CallInv, CallersCrash, Lose, Plus, None
<1>6. CASE BrokerRestart
  <2>1. RequestReplyTypeOK'
    BY <1>1, <1>6, BoundsAssumption
       DEF RequestReplyTypeOK, BrokerRestart, Lose, None, One
  <2>2. ASSUME NEW d \in Calls
        PROVE  CallInv(d)'
    <3>1. CallInv(d)
      BY DEF RRInv
    <3>2. queued'[d] = (IF d \in unconfirmed THEN 1 ELSE 0)
      BY <1>6 DEF BrokerRestart, One
    <3>3. handling'[d] = 0 /\ ready'[d] = 0 /\ stuck'[d] = 0
      BY <1>6 DEF BrokerRestart, None
    <3>4. /\ losses' = losses + 1
          /\ UNCHANGED <<call, consumers, unconfirmed, answers, refusals>>
          /\ forgotten \subseteq forgotten'
          /\ call[d] = "waiting" /\ d \notin unconfirmed => d \in forgotten'
      BY <1>6 DEF BrokerRestart, Lose
    <3>5. /\ queued[d] \in Nat /\ handling[d] \in Nat /\ losses \in Nat
          /\ answers[d] \in Nat /\ refusals[d] \in Nat
      BY <1>1, BoundsAssumption DEF RequestReplyTypeOK
    <3>6. /\ queued'[d] + handling'[d] <= 1 + losses' /\ losses' # 0
          /\ ~ (ready'[d] + stuck'[d] > 0)
          /\ d \in unconfirmed => queued'[d] + handling'[d] + ready'[d] + stuck'[d] > 0
      BY <3>1, <3>2, <3>3, <3>4, <3>5 DEF CallInv
    <3>7. call'[d] = "idle" => queued'[d] = 0
      BY <3>1, <3>2, <3>4 DEF CallInv
    <3> QED  BY <3>1, <3>3, <3>4, <3>6, <3>7 DEF CallInv
  <2> QED  BY <2>1, <2>2 DEF RRInv
<1> QED  BY <1>2, <1>4, <1>5, <1>6 DEF Loss

-----------------------------------------------------------------------------
\* The invariant of every call, in every reachable state.
THEOREM RepliesInvariant == RequestReplySpec => []RRInv
<1>1. ASSUME RRInv, [RequestReplyNext]_rrVars
      PROVE  RRInv'
  <2>1. CASE \E c \in Calls : Send(c) \/ Progress(c)
    BY <1>1, <2>1, CallerStepKeeps, ConsumerStepKeeps DEF Progress
  <2>2. CASE Loss
    BY <1>1, <2>2, LossKeeps
  <2>3. CASE UNCHANGED rrVars
    BY <1>1, <2>3 DEF RRInv, RequestReplyTypeOK, CallInv, rrVars
  <2> QED  BY <1>1, <2>1, <2>2, <2>3 DEF RequestReplyNext
<1> QED  BY RepliesInitially, <1>1, PTL DEF RequestReplySpec

\* Every variable keeps its type: no count of messages becomes negative.
THEOREM RepliesTypeCorrect == RequestReplySpec => []RequestReplyTypeOK
<1>1. RRInv => RequestReplyTypeOK
  BY DEF RRInv
<1> QED  BY <1>1, RepliesInvariant, PTL

\* A promise is resolved only by an answer to its own request, however many
\* calls share the reply queue and however often messages are repeated.
THEOREM RepliesMatch == RequestReplySpec => []ResolvedMeansAnswered
<1>1. RRInv => ResolvedMeansAnswered
  BY DEF RRInv, CallInv, ResolvedMeansAnswered
<1> QED  BY <1>1, RepliesInvariant, PTL

\* What a caller waits for still exists somewhere, unless its handler failed
\* or the broker forgot it.
THEOREM RepliesAreKept == RequestReplySpec => []WaitingIsAccountedFor
<1>1. RRInv => WaitingIsAccountedFor
  BY DEF RRInv, CallInv, WaitingIsAccountedFor
<1> QED  BY <1>1, RepliesInvariant, PTL

\* A handler runs once until the first loss, and no loss adds more than one
\* copy of a request.
THEOREM RepetitionNeedsALoss == RequestReplySpec => []CopiesArePaidFor
<1>1. RRInv => CopiesArePaidFor
  BY DEF RRInv, CallInv, CopiesArePaidFor
<1> QED  BY <1>1, RepliesInvariant, PTL

-----------------------------------------------------------------------------
\* Only the consumer of another call keeps a reply, and only a crash, which
\* returns all replies kept, removes a consumer.
KeptByAnother == \A c \in Calls : stuck[c] > 0 => consumers \ {c} # {}

LEMMA KeepingNeedsAnother ==
    ASSUME RRInv, KeptByAnother, [RequestReplyNext]_rrVars
    PROVE  KeptByAnother'
<1>1. RequestReplyTypeOK
  BY DEF RRInv
<1>2. ASSUME stuck' = None
      PROVE  KeptByAnother'
  BY <1>2 DEF KeptByAnother, None
<1>3. ASSUME stuck' = stuck, consumers \subseteq consumers'
      PROVE  KeptByAnother'
  BY <1>3 DEF KeptByAnother
<1>4. ASSUME NEW c \in Calls, Misdeliver(c)
      PROVE  KeptByAnother'
  BY <1>1, <1>4 DEF KeptByAnother, Misdeliver, RequestReplyTypeOK
<1>5. ASSUME NEW c \in Calls, Send(c) \/ Confirm(c) \/ Resolve(c)
      PROVE  KeptByAnother'
  BY <1>3, <1>5 DEF Send, Confirm, Resolve
<1>6. ASSUME NEW c \in Calls, Deliver(c) \/ Answer(c) \/ HandlerFails(c)
      PROVE  KeptByAnother'
  BY <1>3, <1>6 DEF Deliver, Answer, HandlerFails
<1>7. CASE Loss
  BY <1>2, <1>3, <1>7
     DEF Loss, ConsumerLost, CallersReconnect, CallersCrash, BrokerRestart
<1>8. CASE UNCHANGED rrVars
  BY <1>3, <1>8 DEF rrVars
<1> QED  BY <1>4, <1>5, <1>6, <1>7, <1>8 DEF RequestReplyNext, Progress

\* The safety half of LoneCallIsAnswered: a lone call is never stuck, however
\* often connections break, because what it waits for is always at hand.
THEOREM LoneCallsAreNeverStuck == RequestReplySpec => []LoneReplyIsAtHand
<1>1. RequestReplyInit => KeptByAnother
  BY DEF RequestReplyInit, KeptByAnother, None
<1>2. ASSUME RRInv, KeptByAnother
      PROVE  LoneReplyIsAtHand
  <2>1. ASSUME NEW c \in Calls, call[c] = "waiting", consumers = {c}
        PROVE  stuck[c] = 0
    BY <1>2, <2>1 DEF KeptByAnother, RRInv, RequestReplyTypeOK
  <2>2. WaitingIsAccountedFor /\ RequestReplyTypeOK
    BY <1>2 DEF RRInv, CallInv, WaitingIsAccountedFor
  <2> QED  BY <2>1, <2>2 DEF LoneReplyIsAtHand, WaitingIsAccountedFor, RequestReplyTypeOK
<1> QED
  BY <1>1, <1>2, KeepingNeedsAnother, RepliesInvariant, PTL DEF RequestReplySpec

\* One more in either summand is one more in the sum.
LEMMA PlusOneMore ==
    ASSUME NEW f \in [Calls -> Nat], NEW g \in [Calls -> Nat],
           NEW f1, NEW g1, NEW c \in Calls,
           \/ f1 = [f EXCEPT ![c] = @ + 1] /\ g1 = g
           \/ f1 = f /\ g1 = [g EXCEPT ![c] = @ + 1]
    PROVE  Plus(f1, g1) = [Plus(f, g) EXCEPT ![c] = @ + 1]
<1> DEFINE h1 == [Plus(f, g) EXCEPT ![c] = @ + 1]
<1>1. \A k \in Calls : f1[k] + g1[k] = h1[k]
  <2> SUFFICES ASSUME NEW k \in Calls
               PROVE  f1[k] + g1[k] = h1[k]
    OBVIOUS
  <2>1. CASE k = c
    BY <2>1 DEF Plus
  <2>2. CASE k # c
    BY <2>2 DEF Plus
  <2> QED  BY <2>1, <2>2
<1>2. h1 = [k \in Calls |-> h1[k]]
  BY DEF Plus
<1> QED  BY <1>1, <1>2 DEF Plus

\* A loss that repeats nothing the queue knows to be done, with what it takes.
LEMMA LossBreaks ==
    ASSUME RRInv, losses' = losses + 1, UNCHANGED <<answers, refusals>>, Sent' = Sent,
           queued' \in [Calls -> Nat], handling' \in [Calls -> Nat],
           \A c \in Calls :
              queued'[c] + handling'[c]
                <= IF call[c] = "idle" THEN 0 ELSE queued[c] + handling[c] + 1,
           NEW gone \in SUBSET Sent, Lost' = Lost \cup gone
    PROVE  Channel!Break
<1>1. Done \in [Calls -> Nat] /\ Due \in [Calls -> Nat] /\ Due' \in [Calls -> Nat]
  BY DEF RRInv, RequestReplyTypeOK, Done, Due, Plus
<1>2. Done' = Done
  BY DEF Done, Plus
<1>3. ASSUME NEW c \in Calls
      PROVE  /\ Done[c] <= Done'[c] /\ Done'[c] <= Done[c] + Due[c]
             /\ Due'[c] <= IF c \in Sent THEN Due[c] + 1 ELSE 0
  <2>1. Due'[c] = queued'[c] + handling'[c] /\ Due[c] = queued[c] + handling[c]
    BY DEF Due, Plus
  <2>2. c \in Sent <=> call[c] # "idle"
    BY DEF Sent
  <2>3. Done[c] \in Nat /\ Due[c] \in Nat
    BY <1>1
  <2> QED  BY <1>2, <2>1, <2>2, <2>3
<1> QED  BY <1>1, <1>2, <1>3 DEF Channel!Break

\* The request half of request/reply refines the abstract at-least-once queue.
THEOREM RequestsImplementAtLeastOnce == RequestReplySpec => ImplementsAtLeastOnce
<1>1. RequestReplyInit => Channel!Init
  BY DEF RequestReplyInit, Channel!Init, Sent, Due, Done, Lost, Plus, None
<1>2. ASSUME RRInv, [RequestReplyNext]_rrVars
      PROVE  [Channel!Next]_Channel!channel
  <2>0. RequestReplyTypeOK /\ losses \in Nat
    BY <1>2, BoundsAssumption DEF RRInv, RequestReplyTypeOK
  <2>1. CASE UNCHANGED rrVars
    BY <2>1 DEF rrVars, Channel!channel, Sent, Due, Done, Lost, Plus
  <2>2. ASSUME NEW c \in Calls, Send(c)
        PROVE  Channel!SendOne(c)
    <3>0. /\ call[c] = "idle" /\ call' = [call EXCEPT ![c] = "waiting"]
          /\ forgotten' = forgotten
          /\ call \in [Calls -> {"idle", "waiting", "resolved", "lost"}]
      BY <2>0, <2>2 DEF RequestReplyTypeOK, Send
    <3>1. Sent' = Sent \cup {c} /\ c \notin Sent
      BY <3>0 DEF Sent
    <3>2. Lost' = Lost
      BY <3>0 DEF Lost
    <3>3. Done' = Done /\ losses' = losses
      BY <2>2 DEF Send, Done, Plus
    <3>4. Due' = [Due EXCEPT ![c] = @ + 1]
      <4>1. queued \in [Calls -> Nat] /\ handling \in [Calls -> Nat]
        BY <2>0 DEF RequestReplyTypeOK
      <4>2. \/ queued' = [queued EXCEPT ![c] = @ + 1] /\ handling' = handling
            \/ queued' = queued /\ handling' = [handling EXCEPT ![c] = @ + 1]
        BY <2>2 DEF Send
      <4>3. Plus(queued', handling') = [Plus(queued, handling) EXCEPT ![c] = @ + 1]
        BY <4>1, <4>2, PlusOneMore
      <4> QED  BY <4>3 DEF Due
    <3>5. Due[c] = 0 /\ Due \in [Calls -> Nat]
      BY <1>2, <2>0, <3>0 DEF RRInv, CallInv, RequestReplyTypeOK, Due, Plus
    <3>6. Due' = [Due EXCEPT ![c] = 1]
      BY <3>4, <3>5
    <3> QED  BY <3>1, <3>2, <3>3, <3>6 DEF Channel!SendOne
  <2>3. ASSUME NEW c \in Calls, Confirm(c) \/ Misdeliver(c)
        PROVE  UNCHANGED Channel!channel
    BY <2>3 DEF Confirm, Misdeliver, Channel!channel, Sent, Due, Done, Lost, Plus
  <2>4. ASSUME NEW c \in Calls, Deliver(c)
        PROVE  UNCHANGED Channel!channel
    <3>1. Due' = Due
      <4>1. ASSUME NEW d \in Calls
            PROVE  queued'[d] + handling'[d] = queued[d] + handling[d]
        BY <2>0, <2>4 DEF RequestReplyTypeOK, Deliver
      <4> QED  BY <4>1 DEF Due, Plus
    <3> QED  BY <2>4, <3>1 DEF Deliver, Channel!channel, Sent, Done, Lost, Plus
  <2>5. ASSUME NEW c \in Calls, Resolve(c)
        PROVE  UNCHANGED Channel!channel
    <3>1. c \in consumers /\ CallInv(c)
      BY <1>2, <2>5 DEF RRInv, Resolve
    <3>2. call[c] \in {"waiting", "resolved"}
      BY <3>1 DEF CallInv
    <3>3. Sent' = Sent /\ Lost' = Lost
      BY <2>0, <2>5, <3>2 DEF RequestReplyTypeOK, Resolve, Sent, Lost
    <3>4. Due' = Due /\ Done' = Done /\ losses' = losses
      BY <2>5 DEF Resolve, Due, Done, Plus
    <3> QED  BY <3>3, <3>4 DEF Channel!channel
  <2>6. ASSUME NEW c \in Calls, Answer(c) \/ HandlerFails(c)
        PROVE  Channel!Finish(c)
    <3>1. Done' = [Done EXCEPT ![c] = @ + 1]
      <4>1. answers \in [Calls -> Nat] /\ refusals \in [Calls -> Nat]
        BY <2>0 DEF RequestReplyTypeOK
      <4>2. \/ answers' = [answers EXCEPT ![c] = @ + 1] /\ refusals' = refusals
            \/ answers' = answers /\ refusals' = [refusals EXCEPT ![c] = @ + 1]
        BY <2>6 DEF Answer, HandlerFails
      <4> QED  BY <4>1, <4>2, PlusOneMore DEF Done
    <3>2. Due[c] > 0
      BY <2>0, <2>6 DEF RequestReplyTypeOK, Answer, HandlerFails, Due, Plus
    <3>3. Due' = [Due EXCEPT ![c] = @ - 1]
      <4> DEFINE fewer == [Due EXCEPT ![c] = @ - 1]
      <4>1. ASSUME NEW d \in Calls
            PROVE  queued'[d] + handling'[d] = fewer[d]
        BY <2>0, <2>6 DEF RequestReplyTypeOK, Answer, HandlerFails, Due, Plus
      <4>2. fewer = [d \in Calls |-> fewer[d]]
        BY DEF Due, Plus
      <4> QED  BY <4>1, <4>2 DEF Due, Plus
    <3>4. UNCHANGED <<Sent, Lost, losses>>
      BY <2>6 DEF Answer, HandlerFails, Sent, Lost
    <3> QED  BY <3>1, <3>2, <3>3, <3>4 DEF Channel!Finish
  <2>7. CASE ConsumerLost
    <3> PICK unacked \in [Calls -> 0 .. MaxLosses + 1] :
                 answers' = Plus(answers, unacked) /\ ready' = Plus(ready, unacked)
      BY <2>7 DEF ConsumerLost
    <3>1. ASSUME NEW c \in Calls
          PROVE  unacked[c] \in Nat /\ unacked[c] <= handling[c]
      <4>1. unacked[c] \in Nat /\ ready'[c] = ready[c] + unacked[c]
        BY BoundsAssumption DEF Plus
      <4>2. PICK f \in [Calls -> 0 .. MaxLosses + 1] :
                   f[c] <= handling[c] /\ ready' = Plus(ready, f)
        BY <2>7 DEF ConsumerLost
      <4>3. f[c] \in Nat /\ ready'[c] = ready[c] + f[c] /\ ready[c] \in Nat
        BY <2>0, <4>2, BoundsAssumption DEF RequestReplyTypeOK, Plus
      <4> QED  BY <4>1, <4>2, <4>3
    <3>2. UNCHANGED <<Sent, Lost>> /\ losses' = losses + 1
      BY <2>7 DEF ConsumerLost, Lose, Sent, Lost
    <3>3. /\ Due \in [Calls -> Nat] /\ Due' = Due
      <4>1. ASSUME NEW c \in Calls
            PROVE  queued'[c] + handling'[c] = queued[c] + handling[c]
        BY <2>0, <2>7 DEF RequestReplyTypeOK, ConsumerLost, Plus, None
      <4> QED  BY <2>0, <4>1 DEF RequestReplyTypeOK, Due, Plus
    <3>4. /\ Done' \in [Calls -> Nat]
          /\ \A c \in Calls : Done[c] <= Done'[c] /\ Done'[c] <= Done[c] + Due[c]
      <4>1. ASSUME NEW c \in Calls
            PROVE  /\ answers'[c] = answers[c] + unacked[c] /\ refusals'[c] = refusals[c]
                   /\ answers[c] \in Nat /\ refusals[c] \in Nat
                   /\ queued[c] \in Nat /\ handling[c] \in Nat
        BY <2>0, <2>7 DEF RequestReplyTypeOK, ConsumerLost, Plus
      <4> QED  BY <3>1, <4>1 DEF Done, Due, Plus
    <3>5. \A c \in Calls : Due'[c] <= IF c \in Sent THEN Due[c] + 1 ELSE 0
      <4>1. ASSUME NEW c \in Calls, c \notin Sent
            PROVE  Due[c] = 0
        BY <1>2, <2>0, <4>1 DEF RRInv, CallInv, Sent, Due, Plus
      <4> QED  BY <3>3, <4>1
    <3>6. {} \in SUBSET Sent /\ Lost' = Lost \cup {}
      BY <3>2
    <3> QED  BY <3>2, <3>3, <3>4, <3>5, <3>6 DEF Channel!Next, Channel!Break
  <2>8. CASE CallersReconnect \/ CallersCrash \/ BrokerRestart
    <3> DEFINE gone == {c \in Calls : call[c] = "waiting" /\ c \in Lost'}
    <3>1. losses' = losses + 1 /\ UNCHANGED <<answers, refusals>>
      BY <2>8 DEF CallersReconnect, CallersCrash, BrokerRestart, Lose
    <3>2. Sent' = Sent
      BY <2>0, <2>8
         DEF RequestReplyTypeOK, CallersReconnect, CallersCrash, BrokerRestart, Sent
    <3>3. RequestReplyTypeOK'
      BY <1>2, <2>8, LossKeeps DEF Loss, RRInv
    <3>4. ASSUME NEW c \in Calls
          PROVE  queued'[c] + handling'[c]
                   <= IF call[c] = "idle" THEN 0 ELSE queued[c] + handling[c] + 1
      <4>1. /\ call[c] = "idle" => queued[c] = 0 /\ handling[c] = 0 /\ c \notin unconfirmed
            /\ queued[c] \in Nat /\ handling[c] \in Nat
        BY <1>2, <2>0 DEF RRInv, CallInv, RequestReplyTypeOK
      <4>2. CASE CallersReconnect
        BY <4>1, <4>2 DEF CallersReconnect, Plus, One
      <4>3. CASE CallersCrash
        BY <4>1, <4>3 DEF CallersCrash
      <4>4. CASE BrokerRestart
        BY <4>1, <4>4 DEF BrokerRestart, One, None
      <4> QED  BY <2>8, <4>2, <4>3, <4>4
    <3>5. Lost' = Lost \cup gone
      <4>1. CASE CallersReconnect
        BY <4>1 DEF CallersReconnect, Lost
      <4>2. CASE CallersCrash
        BY <2>0, <4>2 DEF RequestReplyTypeOK, CallersCrash, Lost
      <4>3. CASE BrokerRestart
        BY <4>3 DEF BrokerRestart, Lost
      <4> QED  BY <2>8, <4>1, <4>2, <4>3
    <3>6. gone \in SUBSET Sent
      BY DEF Sent
    <3>7. queued' \in [Calls -> Nat] /\ handling' \in [Calls -> Nat]
      BY <3>3 DEF RequestReplyTypeOK
    <3> HIDE DEF gone
    <3> QED  BY <1>2, <3>1, <3>2, <3>4, <3>5, <3>6, <3>7, LossBreaks DEF Channel!Next
  <2> QED  BY <1>2, <2>1, <2>2, <2>3, <2>4, <2>5, <2>6, <2>7, <2>8
           DEF RequestReplyNext, Progress, Loss, Channel!Next
<1> QED  BY <1>1, <1>2, RepliesInvariant, PTL
         DEF RequestReplySpec, ImplementsAtLeastOnce, Channel!Spec
=============================================================================
