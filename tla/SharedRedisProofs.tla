-------------------------- MODULE SharedRedisProofs --------------------------
(***************************************************************************)
(* The requests over the shared helper implement CreateUser, and the helper   *)
(* under the requests implements RedisHelper, so what is proved of either is  *)
(* proved of them.  From both together follows what a request may rely on:    *)
(* only the company of other requests makes it fail.                         *)
(***************************************************************************)
EXTENDS SharedRedis, CreateUserProofs

\* What is proved of a RedisHelper, for the sessions of the requests.
HP == INSTANCE RedisHelperProofs
        WITH Sessions <- CacheSessions, MaxCommands <- 4, MaxErrors <- 0

\* Every step of the composition is a step of CreateUser or leaves its
\* variables alone: the helper chooses among the outcomes CreateUser allows.
THEOREM SharedImplementsCreateUser == SharedSpec => ImplementsCreateUser
  <1>1. SharedInit => Init
    BY DEF SharedInit
  <1>2. [SharedNext]_allVars => [Next]_vars
    <2> SUFFICES ASSUME [SharedNext]_allVars PROVE [Next]_vars
      OBVIOUS
    <2>1. CASE UNCHANGED allVars
      BY <2>1 DEF allVars
    <2>2. ASSUME NEW r \in Requests, RequestStep(r)
          PROVE  Step(r) \/ UNCHANGED vars
      BY <2>2 DEF RequestStep, Opens, Commands, Closes, Step, UseRedis
    <2>3. ASSUME NEW r \in Requests, Arrive(r) \/ RequestStep(r)
          PROVE  [Next]_vars
      BY <2>2, <2>3 DEF Next
    <2> QED
      BY <2>1, <2>3 DEF SharedNext, Next
  <1> QED
    BY <1>1, <1>2, PTL DEF SharedSpec, ImplementsCreateUser, Spec

\* Hence no interference through the helper tears a committed user, makes a
\* 201 untrue, or lets the cache vouch for content the database does not have.
THEOREM InterferenceIsHarmlessToData ==
    SharedSpec => [](CommittedStateLegal /\ CreatedMeansDurable /\ CacheTruth)
  BY SharedImplementsCreateUser, CommitsAreLegal, AnswersAreTrue, VersionsVouchForContent,
     PTL DEF ImplementsCreateUser

-----------------------------------------------------------------------------
\* The helper under the requests.

LEMMA SessionsAreSessions ==
    /\ HP!SessionsAssumption
    /\ \A r \in Requests, p \in Phases : <<r, p>> \in CacheSessions
  BY SharedAssumption DEF HP!SessionsAssumption, CacheSessions

\* The steps a request takes at the helper.
HelperStep(s) ==
    \/ HP!StartInit(s) \/ HP!Ready(s) \/ HP!CommandStep(s)
    \/ HP!Disconnect(s) \/ HP!SkipDisconnect(s)

LEMMA RequestsUseTheHelper ==
    ASSUME NEW r \in Requests, Opens(r) \/ Commands(r) \/ Closes(r)
    PROVE  HelperStep(Session(r))
  <1> DEFINE s == Session(r)
  <1>1. Redis!StartInit(s) => HP!StartInit(s)
    BY DEF Redis!StartInit, HP!StartInit, Redis!Move, HP!Move, Redis!InProgress, HP!InProgress
  <1>2. Redis!Ready(s) => HP!Ready(s)
    BY DEF Redis!Ready, HP!Ready, Redis!Move, HP!Move
  <1>3. Redis!Send(s) \/ Redis!Reply(s) \/ Redis!Refuse(s) \/ Redis!Reject(s) => HP!CommandStep(s)
    BY DEF Redis!Send, HP!Send, Redis!Reply, HP!Reply, Redis!Refuse, HP!Refuse,
       Redis!Reject, HP!Reject, Redis!Move, HP!Move, HP!CommandStep
  <1>4. Redis!Disconnect(s) => HP!Disconnect(s)
    BY DEF Redis!Disconnect, HP!Disconnect, Redis!End, HP!End, Redis!Flush, HP!Flush
  <1>5. Redis!SkipDisconnect(s) => HP!SkipDisconnect(s)
    BY DEF Redis!SkipDisconnect, HP!SkipDisconnect, Redis!End, HP!End
  <1> QED BY <1>1, <1>2, <1>3, <1>4, <1>5 DEF Opens, Commands, Closes, HelperStep

LEMMA HelperStepKeeps ==
    ASSUME NEW s \in CacheSessions, HP!HelperInv, HelperStep(s)
    PROVE  HP!HelperInv'
  BY SessionsAreSessions, HP!StartInitKeeps, HP!ReadyKeeps, HP!CommandStepKeeps,
     HP!DisconnectKeeps, HP!NoCloseKeeps DEF HelperStep

\* What a step of the composition is: one of a request or of nobody at the
\* helper, and one of the same request in CreateUser.
LEMMA SharedSteps ==
    ASSUME [SharedNext]_allVars
    PROVE  \/ /\ [Next]_vars /\ UNCHANGED <<redisVars, company>>
              /\ \/ UNCHANGED vars
                 \/ \E r \in Requests : Arrive(r) \/ Transact(r)
           \/ \E r \in Requests :
                 /\ HelperStep(Session(r)) /\ RecordCompany
                 /\ Opens(r) \/ Commands(r) \/ Closes(r)
                 /\ UseRedis(r) \/ UNCHANGED vars
  <1>1. CASE UNCHANGED allVars
    BY <1>1 DEF allVars
  <1>2. ASSUME NEW r \in Requests, Arrive(r), UNCHANGED <<redisVars, company>>
        PROVE  [Next]_vars
    BY <1>2 DEF Next
  <1>3. ASSUME NEW r \in Requests, Transact(r), UNCHANGED <<redisVars, company>>
        PROVE  [Next]_vars
    BY <1>3 DEF Next, Step
  <1>4. ASSUME NEW r \in Requests, Opens(r) \/ Commands(r) \/ Closes(r)
        PROVE  UseRedis(r) \/ UNCHANGED vars
    BY <1>4 DEF Opens, Commands, Closes, UseRedis
  <1>5. CASE Finished /\ UNCHANGED <<redisVars, company>>
    BY <1>5 DEF Finished
  <1> QED
    BY <1>1, <1>2, <1>3, <1>4, <1>5, RequestsUseTheHelper DEF SharedNext, RequestStep

LEMMA SharedKeepsHelper ==
    ASSUME IInv, HP!HelperInv, [SharedNext]_allVars
    PROVE  HP!HelperInv'
  <1>1. CASE UNCHANGED redisVars
    <2>1. UNCHANGED HP!redisVars
      BY <1>1 DEF redisVars, HP!redisVars
    <2> QED BY <2>1, SessionsAreSessions, HP!HelperStutters
  <1>2. ASSUME NEW r \in Requests, HelperStep(Session(r)) PROVE HP!HelperInv'
    <2>1. Session(r) \in CacheSessions
      BY SessionsAreSessions DEF Session, IInv, TypeOK
    <2> QED BY <1>2, <2>1, HelperStepKeeps
  <1> QED BY <1>1, <1>2, SharedSteps

LEMMA HelperStarts == SharedInit => HP!HelperInv
  <1>1. Redis!RedisInit => HP!RedisInit
    BY DEF Redis!RedisInit, HP!RedisInit
  <1> QED BY <1>1, SessionsAreSessions, HP!HelperInitially DEF SharedInit

LEMMA SharedInvariants == SharedSpec => [](IInv /\ HP!HelperInv)
  <1>1. SharedSpec => []IInv
    BY SharedImplementsCreateUser, Inductive, PTL DEF ImplementsCreateUser
  <1> QED BY <1>1, HelperStarts, SharedKeepsHelper, PTL DEF SharedSpec

\* The requests take no step at the helper that the helper's own specification
\* does not have: it was checked, and proved, under every use they make of it.
THEOREM SharedImplementsHelper ==
    SharedSpec => Redis!RedisInit /\ [][Redis!RedisNext]_redisVars
  <1>1. SharedInit => Redis!RedisInit
    BY DEF SharedInit
  <1>2. ASSUME IInv, [SharedNext]_allVars PROVE [Redis!RedisNext]_redisVars
    <2>1. ASSUME NEW r \in Requests, Opens(r) \/ Commands(r) \/ Closes(r)
          PROVE  Redis!RedisNext
      <3>1. Session(r) \in CacheSessions
        BY <1>2, SessionsAreSessions DEF Session, IInv, TypeOK
      <3>2. Redis!StartInit(Session(r)) \/ Redis!SessionStep(Session(r))
        BY <2>1 DEF Opens, Commands, Closes, Redis!SessionStep
      <3> QED BY <3>1, <3>2 DEF Redis!RedisNext
    <2> QED BY <1>2, <2>1 DEF SharedNext, RequestStep, allVars
  <1> QED BY <1>1, <1>2, SharedInvariants, PTL DEF SharedSpec

\* No disconnect() of a request throws: while the flag is up the client in the
\* field is open, whichever request put it there (Closes leaves no such case out).
THEOREM DisconnectNeverThrows ==
    SharedSpec => [](isConnected => client \in CacheSessions /\ socket[client] = "open")
  <1>1. HP!HelperInv => (isConnected => client \in CacheSessions /\ socket[client] = "open")
    <2>1. HP!HelperInv => errors = 0
      BY DEF HP!HelperInv, HP!RedisTypeOK
    <2> QED BY <2>1 DEF HP!HelperInv, HP!HealthyInv
  <1> QED BY <1>1, SharedInvariants, PTL

\* Requests whose sessions follow one another leave no connection to Redis
\* behind: a client stays open only after a session that met another.
THEOREM SequentialRequestsLeakNothing == SharedSpec => Redis!OnlyOverlapLeaks
  <1>1. ASSUME IInv, [SharedNext]_allVars PROVE [HP!RedisNext]_(HP!redisVars)
    <2>1. ASSUME NEW r \in Requests, HelperStep(Session(r)) PROVE HP!RedisNext
      <3>1. Session(r) \in CacheSessions
        BY <1>1, SessionsAreSessions DEF Session, IInv, TypeOK
      <3>2. HP!StartInit(Session(r)) \/ HP!SessionStep(Session(r))
        BY <2>1 DEF HelperStep, HP!SessionStep, HP!CommandStep
      <3> QED BY <3>1, <3>2 DEF HP!RedisNext
    <2>2. CASE UNCHANGED redisVars
      BY <2>2 DEF redisVars, HP!redisVars
    <2> QED BY <1>1, <2>1, <2>2, SharedSteps
  <1>2. ASSUME IInv, HP!HelperInv, [SharedNext]_allVars,
               NEW s \in Redis!InProgress \ overlapped, errors = 0, at'[s] = "over"
        PROVE  socket'[s] = "closed"
    <2>1. s \in HP!InProgress \ overlapped
      BY <1>2 DEF Redis!InProgress, HP!InProgress
    <2> QED BY <1>1, <1>2, <2>1, SessionsAreSessions, HP!SoloSessionClosesItsClient
  <1>3. IInv /\ HP!HelperInv /\ [SharedNext]_allVars =>
            [\A s \in Redis!InProgress \ overlapped :
               errors = 0 /\ at'[s] = "over" => socket'[s] = "closed"]_(Redis!redisVars)
    BY <1>2
  <1> QED BY <1>3, SharedInvariants, PTL DEF SharedSpec, Redis!OnlyOverlapLeaks

-----------------------------------------------------------------------------
\* Company.

\* The handlers and halves of a request that are still to come.
Later ==
    [p \in Phases |-> CASE p = "create"  -> {"lookup", "refresh"}
                        [] p = "lookup"  -> {"refresh"}
                        [] p = "refresh" -> {}]

\* Only sessions in progress have met another; those of later phases are not
\* yet; and who met another in the present phase is recorded.
CompanyInv ==
    /\ overlapped \subseteq HP!InProgress
    /\ \A r \in Requests : \A p \in Later[phase[r]] : at[<<r, p>>] = "idle"
    /\ \A r \in Requests : Session(r) \in overlapped => r \in company

\* With every service healthy nothing has gone wrong for a request without
\* company.
SoloInv ==
    /\ CompanyInv
    /\ Faults = {"redis"} => \A r \in Requests \ company : Smooth(r)

\* What a step at the helper does to the sessions.
LEMMA HelperStepMoves ==
    ASSUME NEW s \in CacheSessions, HP!HelperInv, HelperStep(s),
           overlapped \subseteq HP!InProgress
    PROVE  /\ overlapped' \subseteq HP!InProgress'
           /\ \A t \in CacheSessions \ {s} : at[t] = "idle" => at'[t] = "idle"
  <1>1. /\ at \in [CacheSessions -> HP!Places]
        /\ overlapped \subseteq CacheSessions
    BY DEF HP!HelperInv, HP!RedisTypeOK
  <1>2. CASE HP!StartInit(s)
    BY <1>1, <1>2 DEF HP!StartInit, HP!Move, HP!InProgress
  <1>3. CASE HP!Ready(s)
    BY <1>1, <1>3 DEF HP!Ready, HP!Move, HP!InProgress
  <1>4. CASE HP!CommandStep(s)
    <2>1. /\ overlapped' = overlapped /\ at[s] \notin {"idle", "over"}
          /\ \E place \in HP!Places \ {"idle", "over"} : at' = [at EXCEPT ![s] = place]
      BY <1>4 DEF HP!CommandStep, HP!Refuse, HP!Send, HP!Reply, HP!Reject, HP!Move, HP!Places
    <2> QED BY <1>1, <2>1 DEF HP!InProgress
  <1>5. CASE HP!Disconnect(s)
    <2>1. /\ overlapped' = overlapped \ {s}
          /\ at' = [HP!Flush(client) EXCEPT ![s] = "over"]
      BY <1>5 DEF HP!Disconnect, HP!End
    <2>2. \A t \in CacheSessions \ {s} :
            at'[t] = at[t] \/ (at[t] = "waiting" /\ at'[t] = "rejected")
      BY <2>1 DEF HP!Flush
    <2> QED BY <1>1, <2>1, <2>2 DEF HP!InProgress
  <1>6. CASE HP!SkipDisconnect(s)
    BY <1>1, <1>6 DEF HP!SkipDisconnect, HP!End, HP!InProgress
  <1> QED BY <1>2, <1>3, <1>4, <1>5, <1>6 DEF HelperStep

\* Only two transactional steps move a request into another phase, a later one.
LEMMA PhasesGoForward ==
    ASSUME NEW r \in Requests, IInv, Arrive(r) \/ Step(r)
    PROVE  /\ phase'[r] = phase[r] \/ phase'[r] \in Later[phase[r]]
           /\ Later[phase'[r]] \subseteq Later[phase[r]]
           /\ UseRedis(r) => phase' = phase
           /\ \A q \in Requests \ {r} : phase'[q] = phase[q]
  <1>1. phase \in [Requests -> Phases]
    BY DEF IInv, TypeOK
  <1>2. CASE SendEmail(r)
    <2>1. phase[r] = "create" /\ phase' = [phase EXCEPT ![r] = "lookup"] /\ pc[r] = "sendEmail"
      BY <1>2, PlacesInPhase DEF SendEmail
    <2> QED BY <1>1, <1>2, <2>1 DEF Later, Phases, UseRedis, Open, Get, RedisFails, Put,
               PutRefused, PutThrows, Close, CloseThrows, CacheKeys
  <1>3. CASE BumpVersion(r)
    <2>1. phase[r] = "lookup" /\ phase' = [phase EXCEPT ![r] = "refresh"] /\ pc[r] = "bumpVersion"
      BY <1>3, PlacesInPhase DEF BumpVersion
    <2> QED BY <1>1, <1>3, <2>1 DEF Later, Phases, UseRedis, Open, Get, RedisFails, Put,
               PutRefused, PutThrows, Close, CloseThrows, CacheKeys
  <1>4. CASE ~ SendEmail(r) /\ ~ BumpVersion(r)
    <2>1. phase' = phase
      BY <1>4 DEF Arrive, Step, Transact, UseRedis, Connect, ConnectFails,
         Release, Prepare, Begin, Insert, Respond, Validate, MarkSent,
         Commit, Acknowledge, CommitFails, Rollback, Notify, ServiceFails,
         Open, Get, Compare, Load, Put, PutRefused, PutThrows, RedisFails, Close,
         CloseThrows
    <2> QED BY <2>1
  <1> QED BY <1>2, <1>3, <1>4

\* A request without company is neither refused nor rejected.
LEMMA SoloIsServed ==
    ASSUME NEW r \in Requests, IInv, HP!HelperInv, CompanyInv, r \notin company
    PROVE  ~ Redis!Refuse(Session(r)) /\ ~ Redis!Reject(Session(r))
  <1> DEFINE s == Session(r)
  <1>1. s \in CacheSessions /\ s \notin overlapped
    BY SessionsAreSessions DEF Session, IInv, TypeOK, CompanyInv
  <1>2. HP!HealthyInv
    BY DEF HP!HelperInv, HP!RedisTypeOK
  <1>3. at[s] \in {"ready", "rejected"} => HP!Alone(s)
    BY <1>1, <1>2 DEF HP!HealthyInv, HP!InProgress
  <1> QED BY <1>3 DEF HP!Alone, Redis!Refuse, Redis!Reject

\* Its steps at the helper go well.
LEMMA SoloStaysSmooth ==
    ASSUME NEW r \in Requests, IInv, HP!HelperInv, CompanyInv, r \notin company, Smooth(r),
           Opens(r) \/ Commands(r) \/ Closes(r)
    PROVE  Smooth(r)'
  <1>1. CASE UNCHANGED vars
    BY <1>1, UntouchedStaysSmooth DEF vars, Untouched
  <1>2. CASE Open(r) \/ Get(r) \/ Put(r) \/ Close(r)
    BY <1>2, SucceedsStaysSmooth DEF Succeeds
  <1> QED BY <1>1, <1>2, SoloIsServed DEF Opens, Commands, Closes

LEMMA TransactionKeepsSolo ==
    ASSUME IInv, SoloInv, UNCHANGED <<redisVars, company>>,
           NEW r \in Requests, Arrive(r) \/ Transact(r)
    PROVE  SoloInv'
  <1>1. UNCHANGED <<at, overlapped, company>>
    BY DEF redisVars
  <1>2. Arrive(r) \/ Step(r)
    BY DEF Step
  <1>3. phase \in [Requests -> Phases]
    BY DEF IInv, TypeOK
  <1>4. ASSUME NEW q \in Requests
        PROVE  /\ \A p \in Later[phase'[q]] : p \in Later[phase[q]]
               /\ phase'[q] = phase[q] \/ phase'[q] \in Later[phase[q]]
    <2>1. CASE q = r
      BY <1>2, <2>1, PhasesGoForward
    <2>2. CASE q # r
      <3>1. phase'[q] = phase[q]
        BY <1>2, <2>2, PhasesGoForward
      <3> QED BY <3>1
    <2> QED BY <2>1, <2>2
  <1>5. ASSUME NEW q \in Requests, Session(q)' \in overlapped' PROVE q \in company'
    <2>1. CASE phase'[q] = phase[q]
      BY <1>1, <1>5, <2>1 DEF Session, SoloInv, CompanyInv
    <2>2. CASE phase'[q] \in Later[phase[q]]
      <3>1. at[Session(q)'] = "idle"
        BY <2>2 DEF Session, SoloInv, CompanyInv
      <3>2. Session(q)' \notin HP!InProgress
        BY <3>1 DEF HP!InProgress
      <3> QED BY <1>1, <1>5, <3>2 DEF SoloInv, CompanyInv
    <2> QED BY <1>4, <2>1, <2>2
  <1>6. CompanyInv'
    <2>1. HP!InProgress' = HP!InProgress
      BY <1>1 DEF HP!InProgress
    <2>2. ASSUME NEW q \in Requests, NEW p \in Later[phase'[q]]
          PROVE  at'[<<q, p>>] = "idle"
      <3>1. p \in Later[phase[q]]
        BY <1>4
      <3>2. at[<<q, p>>] = "idle"
        BY <3>1 DEF SoloInv, CompanyInv
      <3> QED BY <1>1, <3>2
    <2>3. Later' = Later
      BY DEF Later
    <2> QED BY <1>1, <1>5, <2>1, <2>2, <2>3 DEF SoloInv, CompanyInv
  <1>7. ASSUME Faults = {"redis"}, NEW q \in Requests \ company PROVE Smooth(q)'
    <2>1. Smooth(q)
      BY <1>7 DEF SoloInv
    <2>2. CASE q = r
      <3>1. Succeeds(r)
        BY <1>7 DEF Transact, Succeeds, ConnectFails, CommitFails, ServiceFails
      <3> QED BY <2>1, <2>2, <3>1, SucceedsStaysSmooth
    <2>3. CASE q # r
      <3>1. Untouched(q)
        BY <1>2, <2>3, StepTouchesOnlyItsRequest DEF IInv
      <3> QED BY <2>1, <3>1, UntouchedStaysSmooth
    <2> QED BY <2>2, <2>3
  <1> QED BY <1>1, <1>6, <1>7 DEF SoloInv

LEMMA HelperStepKeepsSolo ==
    ASSUME IInv, HP!HelperInv, SoloInv,
           NEW r \in Requests, HelperStep(Session(r)), RecordCompany,
           Opens(r) \/ Commands(r) \/ Closes(r), UseRedis(r) \/ UNCHANGED vars
    PROVE  SoloInv'
  <1> DEFINE s == Session(r)
  <1>1. s \in CacheSessions /\ phase \in [Requests -> Phases]
    BY SessionsAreSessions DEF Session, IInv, TypeOK
  <1>2. UNCHANGED phase
    <2>1. UseRedis(r) => phase' = phase
      BY PhasesGoForward DEF Step
    <2> QED BY <2>1 DEF vars
  <1>3. /\ overlapped' \subseteq HP!InProgress'
        /\ \A t \in CacheSessions \ {s} : at[t] = "idle" => at'[t] = "idle"
    BY <1>1, HelperStepMoves DEF SoloInv, CompanyInv
  <1>4. ASSUME NEW q \in Requests, NEW p \in Later[phase[q]] PROVE at'[<<q, p>>] = "idle"
    <2>1. p \in Phases /\ p # phase[q]
      BY <1>1 DEF Later, Phases
    <2>2. <<q, p>> \in CacheSessions \ {s}
      BY <2>1, SessionsAreSessions DEF Session
    <2>3. at[<<q, p>>] = "idle"
      BY DEF SoloInv, CompanyInv
    <2> QED BY <1>3, <2>2, <2>3
  <1>5. \A q \in Requests : Session(q)' \in overlapped' => q \in company'
    BY <1>2 DEF Session, RecordCompany
  <1>6. CompanyInv'
    <2>1. Later' = Later
      BY DEF Later
    <2> QED BY <1>2, <1>3, <1>4, <1>5, <2>1 DEF CompanyInv
  <1>7. ASSUME Faults = {"redis"}, NEW q \in Requests \ company' PROVE Smooth(q)'
    <2>1. q \notin company /\ Smooth(q)
      BY <1>7 DEF SoloInv, RecordCompany
    <2>2. CASE q = r
      BY <2>1, <2>2, SoloStaysSmooth DEF SoloInv
    <2>3. CASE q # r
      <3>1. Untouched(q)
        <4>1. CASE UseRedis(r)
          BY <2>3, <4>1, StepTouchesOnlyItsRequest DEF IInv, Step
        <4>2. CASE UNCHANGED vars
          BY <4>2 DEF vars, Untouched
        <4> QED BY <4>1, <4>2
      <3> QED BY <2>1, <3>1, UntouchedStaysSmooth
    <2> QED BY <2>2, <2>3
  <1> QED BY <1>6, <1>7 DEF SoloInv

LEMMA SoloStep ==
    ASSUME IInv, HP!HelperInv, SoloInv, [SharedNext]_allVars
    PROVE  SoloInv'
  <1>1. CASE UNCHANGED <<vars, redisVars, company>>
    <2>1. \A q \in Requests : Untouched(q)
      BY <1>1 DEF vars, Untouched
    <2>2. \A q \in Requests : Smooth(q)' <=> Smooth(q)
      BY <2>1, UntouchedStaysSmooth
    <2>3. CompanyInv'
      BY <1>1 DEF vars, redisVars, SoloInv, CompanyInv, HP!InProgress, Session, Later
    <2> QED BY <1>1, <2>2, <2>3 DEF SoloInv
  <1>2. ASSUME NEW r \in Requests, Arrive(r) \/ Transact(r), UNCHANGED <<redisVars, company>>
        PROVE  SoloInv'
    BY <1>2, TransactionKeepsSolo
  <1>3. ASSUME NEW r \in Requests, HelperStep(Session(r)), RecordCompany,
               Opens(r) \/ Commands(r) \/ Closes(r), UseRedis(r) \/ UNCHANGED vars
        PROVE  SoloInv'
    BY <1>3, HelperStepKeepsSolo
  <1> QED BY <1>1, <1>2, <1>3, SharedSteps

LEMMA SoloInitially == SharedInit => SoloInv
  <1> SUFFICES ASSUME SharedInit PROVE SoloInv
    OBVIOUS
  <1>1. /\ overlapped = {} /\ at = [t \in CacheSessions |-> "idle"]
        /\ phase = [r \in Requests |-> "create"]
    BY DEF SharedInit, Redis!RedisInit, Init
  <1>2. \A r \in Requests : \A p \in Later[phase[r]] : p \in Phases
    BY <1>1 DEF Later, Phases
  <1>3. CompanyInv
    BY <1>1, <1>2, SessionsAreSessions DEF CompanyInv
  <1> QED BY <1>3, SmoothInitially DEF SoloInv, SharedInit

\* For every set of requests and every way they share connections: with every
\* service healthy a request fails, or leaves anything but the committed user in
\* the cache, only if one of its sessions met another at the helper.
THEOREM SoloRequestsAreSafe == SharedSpec => []SoloRequestsSucceed
  <1>1. IInv /\ SoloInv => SoloRequestsSucceed
    BY SmoothMeansCreated DEF SoloInv, SoloRequestsSucceed
  <1> QED BY <1>1, SoloInitially, SoloStep, SharedInvariants, PTL DEF SharedSpec
=============================================================================
