----------------------------- MODULE PubSubProofs -----------------------------
(***************************************************************************)
(* Proofs about PubSub for any messages and any bounds: the copies of each  *)
(* message, the runs of its handler and the losses that repeated them.       *)
(***************************************************************************)
EXTENDS PubSub, TLAPS

\* One message: what is known of its copies from what has happened to it.
\* Before anything breaks no handler is stale.
MessageInv(m) ==
    /\ publish[m] = "idle" =>
          queued[m] = 0 /\ handling[m] = 0 /\ stale[m] = 0 /\ runs[m] = 0
    /\ m \notin Orphans /\ publish[m] # "idle" =>
          runs[m] > 0 \/ queued[m] + handling[m] > 0 \/ m \in forgotten
    /\ queued[m] + handling[m] <= 1 + losses
    /\ losses + failures = 0 =>
          stale[m] = 0 /\ runs[m] + queued[m] + handling[m] <= 1

PSInv == PubSubTypeOK /\ \A m \in Messages : MessageInv(m)

-----------------------------------------------------------------------------
\* The invariant holds before the first message.
LEMMA NothingPublished == PubSubInit => PSInv
<1> SUFFICES ASSUME PubSubInit PROVE PSInv
  OBVIOUS
<1>1. Zero \in [Messages -> Nat]
  BY DEF Zero
<1>2. PubSubTypeOK
  <2>1. publish \in [Messages -> {"idle", "sent", "confirmed"}]
    BY DEF PubSubInit
  <2>2. losses \in 0 .. MaxLosses /\ failures \in Nat
    BY PubSubAssumption DEF PubSubInit
  <2>3. running \in BOOLEAN /\ forgotten \subseteq Messages
    BY DEF PubSubInit
  <2>4. /\ queued \in [Messages -> Nat] /\ handling \in [Messages -> Nat]
        /\ stale \in [Messages -> Nat] /\ runs \in [Messages -> Nat]
    BY <1>1, Zenon DEF PubSubInit
  <2> QED  BY <2>1, <2>2, <2>3, <2>4 DEF PubSubTypeOK
<1>3. ASSUME NEW m \in Messages
      PROVE  MessageInv(m)
  BY DEF PubSubInit, MessageInv, Zero
<1> QED  BY <1>2, <1>3 DEF PSInv

\* The steps of the producer.
LEMMA ProducerKeeps ==
    ASSUME PSInv, NEW m \in Messages,
           Publish(m) \/ Confirm(m) \/ Republish(m)
    PROVE  PSInv'
<1>1. PubSubTypeOK /\ MessageInv(m)
  BY DEF PSInv
<1>2. CASE Publish(m)
  <2>1. PubSubTypeOK'
    BY <1>1, <1>2 DEF PubSubTypeOK, Publish
  <2>2. ASSUME NEW n \in Messages
        PROVE  MessageInv(n)'
    <3>1. MessageInv(n)
      BY DEF PSInv
    <3>2. CASE n = m
      BY <1>1, <1>2, <3>1, <3>2, PubSubAssumption DEF PubSubTypeOK, MessageInv, Publish
    <3>3. CASE n # m
      BY <1>1, <1>2, <3>1, <3>3 DEF PubSubTypeOK, MessageInv, Publish
    <3> QED  BY <3>2, <3>3
  <2> QED  BY <2>1, <2>2 DEF PSInv
<1>3. CASE Confirm(m)
  BY <1>1, <1>3 DEF PSInv, PubSubTypeOK, MessageInv, Confirm
<1>4. CASE Republish(m)
  BY <1>1, <1>4, PubSubAssumption DEF PSInv, PubSubTypeOK, MessageInv, Republish, Lose
<1> QED  BY <1>2, <1>3, <1>4

\* A subscriber that is up.
LEMMA SubscriberKeeps ==
    ASSUME PSInv,
           \/ Subscribe
           \/ \E m \in Messages : Deliver(m) \/ Handle(m)
    PROVE  PSInv'
<1>1. CASE Subscribe
  BY <1>1 DEF PSInv, PubSubTypeOK, MessageInv, Subscribe
<1>2. ASSUME NEW m \in Messages, Deliver(m)
      PROVE  PSInv'
  BY <1>2 DEF PSInv, PubSubTypeOK, MessageInv, Deliver
<1>3. ASSUME NEW m \in Messages, Handle(m)
      PROVE  PSInv'
  BY <1>3 DEF PSInv, PubSubTypeOK, MessageInv, Handle, Triggered
<1> QED  BY <1>1, <1>2, <1>3

\* The copies that a closed connection or a dead process gives back, and the
\* handlers that have returned by then.
LEMMA RequeuedType ==
    ASSUME PubSubTypeOK
    PROVE  /\ Requeued \in [Messages -> Nat]
           /\ Zero \in [Messages -> Nat]
BY DEF PubSubTypeOK, Requeued, Zero

LEMMA ReturnedType ==
    ASSUME PubSubTypeOK, NEW f \in [Messages -> Nat]
    PROVE  /\ Returned(f) \in [Messages -> Nat]
           /\ \A m \in Messages :
                 /\ Returned(f)[m] >= runs[m] /\ Returned(f)[m] <= runs[m] + f[m]
BY DEF PubSubTypeOK, Returned

LEMMA UnackedType ==
    ASSUME NEW f \in Unacked
    PROVE  f \in [Messages -> Nat] /\ \A m \in Messages : f[m] <= handling[m]
BY PubSubAssumption DEF Unacked

\* A subscriber that goes gives back what it was handling, whatever handlers
\* have returned of which the broker has not heard.
LEMMA GivingBackKeeps ==
    ASSUME PSInv, NEW f \in [Messages -> Nat], NEW m \in Messages,
           runs' = Returned(f), f[m] <= handling[m] + stale[m],
           queued' = Requeued, handling' = Zero,
           losses' \in Nat, losses' >= losses,
           failures' \in Nat, losses' + failures' > 0,
           UNCHANGED <<publish, forgotten>>,
           publish[m] = "idle" => stale'[m] = 0
    PROVE  MessageInv(m)'
<1>1. MessageInv(m) /\ PubSubTypeOK
  BY DEF PSInv
<1>2. /\ queued[m] \in Nat /\ handling[m] \in Nat /\ stale[m] \in Nat
      /\ runs[m] \in Nat /\ losses \in Nat /\ f[m] \in Nat
  BY <1>1, PubSubAssumption DEF PubSubTypeOK
<1>3. queued'[m] = queued[m] + handling[m] /\ handling'[m] = 0
  BY DEF Requeued, Zero
<1>4. runs'[m] \in Nat /\ runs'[m] >= runs[m] /\ runs'[m] <= runs[m] + f[m]
  BY <1>1, ReturnedType
<1> QED  BY <1>1, <1>2, <1>3, <1>4 DEF MessageInv

\* A subscriber that dies, of a handler or of its late ack.
LEMMA DeathKeeps ==
    ASSUME PSInv, NEW m \in Messages, HandlerThrows(m) \/ StaleReturns(m)
    PROVE  PSInv'
<1>1. PubSubTypeOK /\ losses \in Nat /\ failures \in Nat
  BY PubSubAssumption DEF PSInv, PubSubTypeOK
<1>2. PICK f \in [Messages -> Nat] :
              /\ runs' = Returned(f)
              /\ \A n \in Messages : f[n] <= handling[n] + stale[n]
  <2>1. CASE HandlerThrows(m)
    <3>1. PICK unacked \in Unacked : runs' = Returned(unacked)
      BY <2>1 DEF HandlerThrows
    <3>2. unacked \in [Messages -> Nat] /\ \A n \in Messages : unacked[n] <= handling[n]
      BY <3>1, UnackedType
    <3>3. ASSUME NEW n \in Messages
          PROVE  unacked[n] <= handling[n] + stale[n]
      <4>1. unacked[n] \in Nat /\ handling[n] \in Nat /\ stale[n] \in Nat
        BY <1>1, <3>2 DEF PubSubTypeOK
      <4> QED  BY <3>2, <4>1
    <3> QED  BY <3>1, <3>2, <3>3
  <2>2. CASE StaleReturns(m)
    <3>1. PICK unacked \in Unacked : runs' = Returned([unacked EXCEPT ![m] = @ + 1])
      BY <2>2 DEF StaleReturns
    <3>2. unacked \in [Messages -> Nat] /\ \A n \in Messages : unacked[n] <= handling[n]
      BY <3>1, UnackedType
    <3> DEFINE f == [unacked EXCEPT ![m] = @ + 1]
    <3>3. f \in [Messages -> Nat] /\ runs' = Returned(f)
      BY <3>1, <3>2
    <3>4. \A n \in Messages : f[n] <= handling[n] + stale[n]
      BY <1>1, <2>2, <3>2 DEF PubSubTypeOK, StaleReturns
    <3> HIDE DEF f
    <3> QED  BY <3>3, <3>4
  <2> QED  BY <2>1, <2>2
<1>3. /\ queued' = Requeued /\ handling' = Zero /\ stale' = Zero
      /\ failures' = failures + 1 /\ running' = FALSE
      /\ UNCHANGED <<publish, forgotten, losses>>
  BY DEF HandlerThrows, StaleReturns, Die
<1>4. PubSubTypeOK'
  <2>1. /\ queued' \in [Messages -> Nat] /\ handling' \in [Messages -> Nat]
        /\ stale' \in [Messages -> Nat] /\ runs' \in [Messages -> Nat]
    <3>1. runs' \in [Messages -> Nat]
      BY <1>1, <1>2, ReturnedType
    <3>2. Requeued \in [Messages -> Nat] /\ Zero \in [Messages -> Nat]
      BY <1>1, RequeuedType
    <3> QED  BY <1>3, <3>1, <3>2, Zenon
  <2>2. failures' \in Nat /\ running' \in BOOLEAN
    <3>1. failures' \in Nat
      BY <1>1, <1>3
    <3>2. running' \in BOOLEAN
      BY <1>3, Zenon
    <3> QED  BY <3>1, <3>2
  <2>3. /\ publish' \in [Messages -> {"idle", "sent", "confirmed"}]
        /\ forgotten' \subseteq Messages /\ losses' \in 0 .. MaxLosses
    BY <1>1, <1>3 DEF PubSubTypeOK
  <2> QED  BY <2>1, <2>2, <2>3 DEF PubSubTypeOK
<1>5. ASSUME NEW n \in Messages
      PROVE  MessageInv(n)'
  <2>1. stale'[n] = 0
    BY <1>3 DEF Zero
  <2> QED  BY <1>1, <1>2, <1>3, <2>1, GivingBackKeeps
<1> QED  BY <1>4, <1>5 DEF PSInv

\* A connection that breaks doubles the copies that are being handled: one is
\* queued again, and the handler of the other goes on or has returned.
LEMMA LossKeeps ==
    ASSUME PSInv, ConnectionLost
    PROVE  PSInv'
<1>1. PubSubTypeOK /\ losses \in Nat /\ failures \in Nat
  BY PubSubAssumption DEF PSInv, PubSubTypeOK
<1>2. PICK f \in Unacked :
              /\ runs' = Returned(f)
              /\ stale' = [m \in Messages |-> stale[m] + (handling[m] - f[m])]
  BY DEF ConnectionLost
<1>3. f \in [Messages -> Nat] /\ \A m \in Messages : f[m] <= handling[m]
  BY UnackedType
<1>4. /\ queued' = Requeued /\ handling' = Zero
      /\ losses' = losses + 1 /\ losses' \in 0 .. MaxLosses
      /\ UNCHANGED <<publish, running, forgotten, failures>>
  BY <1>1, PubSubAssumption DEF ConnectionLost, Lose
<1>5. stale' \in [Messages -> Nat]
  BY <1>1, <1>2, <1>3 DEF PubSubTypeOK
<1>6. PubSubTypeOK'
  BY <1>1, <1>2, <1>3, <1>4, <1>5, RequeuedType, ReturnedType DEF PubSubTypeOK
<1>7. ASSUME NEW m \in Messages
      PROVE  MessageInv(m)'
  <2>1. f[m] <= handling[m] + stale[m]
    BY <1>1, <1>3 DEF PubSubTypeOK
  <2>2. publish[m] = "idle" => stale'[m] = 0
    BY <1>1, <1>2, <1>3 DEF PSInv, PubSubTypeOK, MessageInv
  <2> QED  BY <1>1, <1>2, <1>3, <1>4, <2>1, <2>2, GivingBackKeeps
<1> QED  BY <1>6, <1>7 DEF PSInv

\* A broker restart marks what it takes and receives what was not confirmed.
LEMMA RestartKeeps ==
    ASSUME PSInv, BrokerRestart
    PROVE  PSInv'
<1>1. PubSubTypeOK
  BY DEF PSInv
<1>2. PubSubTypeOK'
  <2>1. queued' \in [Messages -> Nat]
    BY DEF BrokerRestart
  <2>2. losses' \in 0 .. MaxLosses /\ forgotten' \subseteq Messages
    BY <1>1, PubSubAssumption DEF PubSubTypeOK, BrokerRestart, Lose
  <2> QED  BY <1>1, <2>1, <2>2, RequeuedType DEF PubSubTypeOK, BrokerRestart
<1>3. ASSUME NEW m \in Messages
      PROVE  MessageInv(m)'
  BY <1>1, PubSubAssumption
     DEF PSInv, PubSubTypeOK, MessageInv, BrokerRestart, Lose, Zero
<1> QED  BY <1>2, <1>3 DEF PSInv

-----------------------------------------------------------------------------
\* The invariant of every message, in every reachable state.
THEOREM MessagesInvariant == PubSubSpec => []PSInv
<1>1. ASSUME PSInv, [PubSubNext]_psVars
      PROVE  PSInv'
  <2>1. CASE UNCHANGED psVars
    BY <1>1, <2>1 DEF PSInv, PubSubTypeOK, MessageInv, psVars
  <2> QED
    BY <1>1, <2>1, ProducerKeeps, SubscriberKeeps, DeathKeeps, LossKeeps,
       RestartKeeps
       DEF PubSubNext, Progress
<1> QED  BY NothingPublished, <1>1, PTL DEF PubSubSpec

\* Every variable keeps its type: no count of copies becomes negative.
THEOREM MessagesTypeCorrect == PubSubSpec => []PubSubTypeOK
<1>1. PSInv => PubSubTypeOK
  BY DEF PSInv
<1> QED  BY <1>1, MessagesInvariant, PTL

\* At least once: what was published to a consumer is handled or at hand
\* until it has been handled, unless the broker forgets it.
THEOREM DeliveredAtLeastOnce == PubSubSpec => []PublishedIsKept
<1>1. PSInv => PublishedIsKept
  BY DEF PSInv, MessageInv, PublishedIsKept
<1> QED  BY <1>1, MessagesInvariant, PTL

\* Once until something breaks, and no loss adds more than one copy.
THEOREM RepetitionNeedsABreak == PubSubSpec => []CopiesArePaidFor
<1>1. PSInv => CopiesArePaidFor
  BY DEF PSInv, MessageInv, CopiesArePaidFor
<1> QED  BY <1>1, MessagesInvariant, PTL

-----------------------------------------------------------------------------
\* What is due of a message, and of one that was not sent.
LEMMA DueType ==
    ASSUME PSInv
    PROVE  /\ Due \in [Consumed -> Nat] /\ Done \in [Consumed -> Nat]
           /\ \A m \in Consumed : m \notin Sent => Due[m] = 0
<1>1. Due \in [Consumed -> Nat] /\ Done \in [Consumed -> Nat]
  BY DEF PSInv, PubSubTypeOK, Due, Done, Consumed
<1>2. ASSUME NEW m \in Consumed, m \notin Sent
      PROVE  Due[m] = 0
  BY <1>2 DEF PSInv, MessageInv, Due, Consumed, Sent
<1> QED  BY <1>1, <1>2

\* A break of the abstract queue, seen at each message.
LEMMA BreakMaps ==
    ASSUME PSInv, PSInv', losses' + failures' = losses + failures + 1,
           UNCHANGED publish,
           \A m \in Consumed :
              /\ runs[m] <= runs'[m] /\ runs'[m] <= runs[m] + Due[m]
              /\ Due'[m] <= Due[m] + 1
              /\ publish[m] = "idle" => Due'[m] = 0,
           NEW gone \in SUBSET Sent, Lost' = Lost \cup gone
    PROVE  Channel!Break
<1>1. Sent' = Sent
  BY DEF Sent
<1>2. Due' \in [Consumed -> Nat] /\ Done' \in [Consumed -> Nat]
  BY DEF PSInv, PubSubTypeOK, Due, Done, Consumed
<1>3. ASSUME NEW m \in Consumed
      PROVE  /\ Done[m] <= Done'[m] /\ Done'[m] <= Done[m] + Due[m]
             /\ Due'[m] <= IF m \in Sent THEN Due[m] + 1 ELSE 0
  <2>1. Done[m] = runs[m] /\ Done'[m] = runs'[m]
    BY DEF Done
  <2>2. m \in Sent <=> publish[m] # "idle"
    BY DEF Sent
  <2>3. Due[m] \in Nat
    BY DueType
  <2> QED  BY <2>1, <2>2, <2>3
<1> QED  BY <1>1, <1>2, <1>3 DEF Channel!Break

\* Publish/subscribe refines the abstract at-least-once queue.
THEOREM PubSubImplementsAtLeastOnce == PubSubSpec => ImplementsAtLeastOnce
<1>1. PubSubInit => Channel!Init
  BY DEF PubSubInit, Channel!Init, Sent, Due, Done, Lost, Zero, Consumed
<1>2. ASSUME PSInv, PSInv', [PubSubNext]_psVars
      PROVE  [Channel!Next]_Channel!channel
  <2>0. /\ PubSubTypeOK /\ losses \in Nat /\ failures \in Nat
        /\ \A m \in Consumed : /\ m \in Messages /\ m \notin Orphans
                               /\ queued[m] \in Nat /\ handling[m] \in Nat
                               /\ stale[m] \in Nat /\ runs[m] \in Nat
                               /\ publish[m] = "idle" =>
                                     queued[m] = 0 /\ handling[m] = 0 /\ stale[m] = 0
                               /\ Due[m] = queued[m] + handling[m] + (IF stale[m] > 0 THEN 1 ELSE 0)
                               /\ Due'[m] = queued'[m] + handling'[m] + (IF stale'[m] > 0 THEN 1 ELSE 0)
    BY <1>2, PubSubAssumption DEF PSInv, PubSubTypeOK, MessageInv, Consumed, Due
  <2>1. CASE Subscribe \/ UNCHANGED psVars
    BY <2>1 DEF Subscribe, psVars, Channel!channel, Sent, Due, Done, Lost
  <2>2. ASSUME NEW m \in Messages, Confirm(m) \/ Deliver(m)
        PROVE  UNCHANGED Channel!channel
    <3>1. UNCHANGED <<runs, forgotten, losses, failures, stale>>
      BY <2>2 DEF Confirm, Deliver
    <3>2. Sent' = Sent
      BY <2>0, <2>2 DEF PubSubTypeOK, Confirm, Deliver, Sent, Consumed
    <3>3. Due' = Due
      <4>1. ASSUME NEW n \in Consumed
            PROVE  queued'[n] + handling'[n] = queued[n] + handling[n]
        BY <2>0, <2>2 DEF PubSubTypeOK, Confirm, Deliver
      <4> QED  BY <3>1, <4>1 DEF Due
    <3> QED  BY <3>1, <3>2, <3>3 DEF Channel!channel, Done, Lost
  <2>3. ASSUME NEW m \in Messages, Publish(m)
        PROVE  [Channel!Next]_Channel!channel
    <3>1. UNCHANGED <<Done, Lost, losses, failures>>
      BY <2>3 DEF Publish, Done, Lost
    <3>2. Sent' = IF m \in Consumed THEN Sent \cup {m} ELSE Sent
      BY <2>0, <2>3 DEF PubSubTypeOK, Publish, Sent, Consumed
    <3>3. m \notin Sent
      BY <2>3 DEF Publish, Sent
    <3>4. ASSUME NEW n \in Consumed
          PROVE  Due'[n] = IF n = m THEN 1 ELSE Due[n]
      BY <2>0, <2>3 DEF PubSubTypeOK, Publish
    <3>5. Due' = IF m \in Consumed THEN [Due EXCEPT ![m] = 1] ELSE Due
      BY <3>4 DEF Due
    <3> QED
      BY <3>1, <3>2, <3>3, <3>5 DEF Channel!Next, Channel!SendOne, Channel!channel
  <2>4. ASSUME NEW m \in Messages, Handle(m)
        PROVE  [Channel!Next]_Channel!channel
    <3>1. UNCHANGED <<Sent, Lost, losses, failures>>
      BY <2>4 DEF Handle, Sent, Lost
    <3>2. ASSUME NEW n \in Consumed
          PROVE  /\ Due'[n] = IF n = m THEN Due[n] - 1 ELSE Due[n]
                 /\ runs'[n] = IF n = m THEN runs[n] + 1 ELSE runs[n]
      BY <2>0, <2>4 DEF PubSubTypeOK, Handle, Triggered
    <3>3. Due' = IF m \in Consumed THEN [Due EXCEPT ![m] = @ - 1] ELSE Due
      BY <3>2 DEF Due
    <3>4. Done' = IF m \in Consumed THEN [Done EXCEPT ![m] = @ + 1] ELSE Done
      BY <3>2 DEF Done
    <3>5. m \in Consumed => Due[m] > 0
      BY <2>0, <2>4 DEF Handle
    <3> QED
      BY <3>1, <3>3, <3>4, <3>5 DEF Channel!Next, Channel!Finish, Channel!channel
  <2>5. ASSUME NEW m \in Messages, HandlerThrows(m) \/ StaleReturns(m)
        PROVE  Channel!Break
    <3>1. /\ queued' = Requeued /\ handling' = Zero /\ stale' = Zero
          /\ failures' = failures + 1 /\ UNCHANGED <<publish, forgotten, losses>>
      BY <2>5 DEF HandlerThrows, StaleReturns, Die
    <3>2. ASSUME NEW n \in Consumed
          PROVE  runs[n] <= runs'[n] /\ runs'[n] <= runs[n] + Due[n]
      <4>1. CASE HandlerThrows(m)
        <5>1. PICK f \in Unacked : runs' = Returned(f)
          BY <4>1 DEF HandlerThrows
        <5>2. f \in [Messages -> Nat] /\ f[n] <= handling[n]
          BY <2>0, <5>1, UnackedType
        <5>3. runs'[n] = runs[n] + f[n] /\ f[n] \in Nat
          BY <2>0, <5>1, <5>2 DEF Returned
        <5> QED  BY <2>0, <5>2, <5>3
      <4>2. CASE StaleReturns(m)
        <5>1. PICK f \in Unacked : runs' = Returned([f EXCEPT ![m] = @ + 1])
          BY <4>2 DEF StaleReturns
        <5>2. f \in [Messages -> Nat] /\ f[n] <= handling[n] /\ f[n] \in Nat
          BY <2>0, <5>1, UnackedType
        <5>3. runs'[n] = runs[n] + (IF n = m THEN f[n] + 1 ELSE f[n])
          BY <2>0, <5>1, <5>2 DEF Returned
        <5>4. stale[m] > 0
          BY <4>2 DEF StaleReturns
        <5> QED  BY <2>0, <5>2, <5>3, <5>4
      <4> QED  BY <2>5, <4>1, <4>2
    <3>3. ASSUME NEW n \in Consumed
          PROVE  /\ Due'[n] <= Due[n] + 1
                 /\ publish[n] = "idle" => Due'[n] = 0
      BY <2>0, <3>1 DEF Requeued, Zero
    <3>4. {} \in SUBSET Sent /\ Lost' = Lost \cup {}
      BY <3>1 DEF Lost
    <3>5. losses' + failures' = losses + failures + 1
      BY <2>0, <3>1
    <3> QED  BY <1>2, <3>1, <3>2, <3>3, <3>4, <3>5, BreakMaps
  <2>6. ASSUME NEW m \in Messages, Republish(m)
        PROVE  Channel!Break
    <3>1. /\ queued' = [queued EXCEPT ![m] = @ + 1] /\ publish[m] = "sent"
          /\ losses' = losses + 1
          /\ UNCHANGED <<publish, handling, stale, runs, forgotten, failures>>
      BY <2>6 DEF Republish, Lose
    <3>2. ASSUME NEW n \in Consumed
          PROVE  /\ runs[n] <= runs'[n] /\ runs'[n] <= runs[n] + Due[n]
                 /\ Due'[n] <= Due[n] + 1
                 /\ publish[n] = "idle" => Due'[n] = 0
      <4>1. queued'[n] = IF n = m THEN queued[n] + 1 ELSE queued[n]
        BY <2>0, <3>1 DEF PubSubTypeOK
      <4> QED  BY <2>0, <3>1, <4>1
    <3>3. {} \in SUBSET Sent /\ Lost' = Lost \cup {}
      BY <3>1 DEF Lost
    <3>4. losses' + failures' = losses + failures + 1
      BY <2>0, <3>1
    <3> QED  BY <1>2, <3>1, <3>2, <3>3, <3>4, BreakMaps
  <2>7. CASE ConnectionLost
    <3>1. PICK f \in Unacked :
                  /\ runs' = Returned(f)
                  /\ stale' = [m \in Messages |-> stale[m] + (handling[m] - f[m])]
      BY <2>7 DEF ConnectionLost
    <3>2. /\ queued' = Requeued /\ handling' = Zero /\ losses' = losses + 1
          /\ UNCHANGED <<publish, forgotten, failures>>
      BY <2>7 DEF ConnectionLost, Lose
    <3>3. ASSUME NEW n \in Consumed
          PROVE  /\ runs[n] <= runs'[n] /\ runs'[n] <= runs[n] + Due[n]
                 /\ Due'[n] <= Due[n] + 1
                 /\ publish[n] = "idle" => Due'[n] = 0
      <4>1. f[n] \in Nat /\ f[n] <= handling[n]
        BY <2>0, UnackedType
      <4>2. /\ runs'[n] = runs[n] + f[n]
            /\ stale'[n] = stale[n] + (handling[n] - f[n])
            /\ queued'[n] = queued[n] + handling[n] /\ handling'[n] = 0
        BY <2>0, <3>1, <3>2 DEF Returned, Requeued, Zero
      <4>3. /\ queued[n] \in Nat /\ handling[n] \in Nat
            /\ stale[n] \in Nat /\ runs[n] \in Nat
        BY <2>0
      <4>4. /\ Due[n] = queued[n] + handling[n] + (IF stale[n] > 0 THEN 1 ELSE 0)
            /\ Due'[n] = queued'[n] + handling'[n] + (IF stale'[n] > 0 THEN 1 ELSE 0)
        BY <2>0
      <4>5. publish[n] = "idle" => Due'[n] = 0
        <5>1. publish[n] = "idle" => queued[n] = 0 /\ handling[n] = 0 /\ stale[n] = 0
          BY <2>0
        <5> QED  BY <4>1, <4>2, <4>4, <5>1
      <4> QED  BY <4>1, <4>2, <4>3, <4>4, <4>5
    <3>4. {} \in SUBSET Sent /\ Lost' = Lost \cup {}
      BY <3>2 DEF Lost
    <3>5. losses' + failures' = losses + failures + 1
      BY <2>0, <3>2
    <3> QED  BY <1>2, <3>2, <3>3, <3>4, <3>5, BreakMaps DEF Channel!Next
  <2>8. CASE BrokerRestart
    <3> DEFINE gone == {m \in Messages : publish[m] = "confirmed"} \ Orphans
    <3>1. /\ queued' = [m \in Messages |-> IF publish[m] = "sent" THEN 1 ELSE 0]
          /\ stale' = [m \in Messages |-> stale[m] + handling[m]] /\ handling' = Zero
          /\ losses' = losses + 1 /\ UNCHANGED <<publish, runs, failures>>
      BY <2>8 DEF BrokerRestart, Lose
    <3>2. ASSUME NEW n \in Consumed
          PROVE  /\ runs[n] <= runs'[n] /\ runs'[n] <= runs[n] + Due[n]
                 /\ Due'[n] <= Due[n] + 1
                 /\ publish[n] = "idle" => Due'[n] = 0
      <4>1. /\ queued'[n] = IF publish[n] = "sent" THEN 1 ELSE 0
            /\ stale'[n] = stale[n] + handling[n] /\ handling'[n] = 0
        BY <2>0, <3>1 DEF Zero
      <4> QED  BY <2>0, <3>1, <4>1
    <3>3. Lost' = Lost \cup gone
      BY <2>8 DEF BrokerRestart, Lost
    <3>4. gone \in SUBSET Sent
      BY DEF Sent, Consumed
    <3>5. losses' + failures' = losses + failures + 1
      BY <2>0, <3>1
    <3> HIDE DEF gone
    <3> QED  BY <1>2, <3>1, <3>2, <3>3, <3>4, <3>5, BreakMaps DEF Channel!Next
  <2> QED  BY <1>2, <2>1, <2>2, <2>3, <2>4, <2>5, <2>6, <2>7, <2>8
           DEF PubSubNext, Progress, Channel!Next
<1> QED  BY <1>1, <1>2, MessagesInvariant, PTL
         DEF PubSubSpec, ImplementsAtLeastOnce, Channel!Spec
=============================================================================
