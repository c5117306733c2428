-------------------------- MODULE CreateUserProofs --------------------------
(***************************************************************************)
(* Proofs about CreateUser for any set of requests, any pools and any kinds *)
(* of failure.  A step touches one request, so the invariant is kept by      *)
(* showing, action by action, that the request keeps its own part of it; the *)
(* safety properties and the refinement of UserLifecycle follow from it.     *)
(***************************************************************************)
EXTENDS CreateUserInvariant, FiniteSetTheorems, TLAPS

\* Step r changes nothing that belongs to request q.
Untouched(q) ==
    /\ pc'[q] = pc[q] /\ phase'[q] = phase[q] /\ status'[q] = status[q]
    /\ work'[q] = work[q] /\ db'[q] = db[q]
    /\ cache'[q] = cache[q] /\ user'[q] = user[q]
    /\ (q \in active' <=> q \in active)
    /\ \A side \in {"create", "verify"} : <<q, side>> \in held' <=> <<q, side>> \in held

\* A step of one request leaves everything that belongs to another as it was.
LEMMA StepTouchesOnlyItsRequest ==
    ASSUME NEW r \in Requests, NEW q \in Requests \ {r}, TypeOK,
           Arrive(r) \/ Step(r)
    PROVE  Untouched(q)
  BY DEF TypeOK, Untouched, Arrive, Step, Transact, UseRedis, Connect, ConnectFails,
         Release, Prepare, Begin, Insert, Respond, Validate, MarkSent, BumpVersion,
         Commit, Acknowledge, CommitFails, Rollback, Notify, SendEmail, ServiceFails,
         Open, Get, Compare, Load, Put, PutRefused, PutThrows, RedisFails, Close,
         CloseThrows, Goto, Fail, Side

\* A request nothing has touched keeps its part of the invariant.
LEMMA UntouchedKeepsInvariant ==
    ASSUME NEW q \in Requests, RequestInv(q), Untouched(q)
    PROVE  RequestInv(q)'
  BY DEF Untouched, RequestInv, Connections, Transactions, Statuses, RowsInPhase,
         CreateRows, LookupRows, RefreshRows, CacheContent, Known, InFlight, View

\* Two rows with the same three fields are the same row.
LEMMA SameRow ==
    ASSUME NEW row \in Rows, NEW other \in Rows,
           row.tables = other.tables, row.version = other.version, row.sent = other.sent
    PROVE  row = other
  BY DEF Rows

\* The five inserts build the created user, one table after the other.
LEMMA InsertKeeps ==
    ASSUME NEW r \in Requests, IInv, Insert(r)
    PROVE  TypeOK' /\ RequestInv(r)'
  <1>1. /\ phase[r] = "create"
        /\ db[r] = Absent
        /\ work[r] = BeforeInsert[pc[r]]
        /\ pc[r] \in Tables
    BY DEF IInv, RequestInv, Insert, TypeOK, Phases, RowsInPhase, CreateRows, LookupRows, RefreshRows, CacheSteps,
           Tables, CacheKeys
  <1> DEFINE new == [tables |-> work[r].tables \cup {pc[r]}, version |-> 1, sent |-> FALSE]
  <1>2. work' = [work EXCEPT ![r] = new]
    <2>1. work[r] = [tables |-> work[r].tables,
                     version |-> IF pc[r] = "users" THEN 0 ELSE 1, sent |-> FALSE]
      BY <1>1 DEF BeforeInsert
    <2>2. /\ work[r].sent = FALSE
          /\ (IF pc[r] = "users" THEN 1 ELSE work[r].version) = 1
      BY <2>1
    <2> QED BY <2>2 DEF Insert
  <1>3. new \in Rows
    BY <1>1 DEF Rows, BeforeInsert, Tables
  <1>4. TypeOK'
    <2>1. pc' \in [Requests -> Steps]
      BY <1>1 DEF IInv, TypeOK, Insert, Goto, AfterInsert, Steps, Services, Tables
    <2>2. work' \in [Requests -> Rows]
      BY <1>2, <1>3 DEF IInv, TypeOK
    <2> QED BY <2>1, <2>2 DEF IInv, TypeOK, Insert
  <1>5. IF pc[r] = "credentials" THEN pc'[r] = "respond" /\ new = Created
                                 ELSE pc'[r] \in Tables /\ new = BeforeInsert[pc'[r]]
    <2>1. pc'[r] = AfterInsert[pc[r]]
      BY DEF IInv, TypeOK, Insert, Goto
    <2>2. work[r].tables = BeforeInsert[pc[r]].tables
      BY <1>1
    <2>3. CASE pc[r] = "users"
      BY <2>1, <2>2, <2>3 DEF BeforeInsert, AfterInsert, Tables
    <2>4. CASE pc[r] = "keys"
      BY <2>1, <2>2, <2>4 DEF BeforeInsert, AfterInsert, Tables
    <2>5. CASE pc[r] = "settings"
      BY <2>1, <2>2, <2>5 DEF BeforeInsert, AfterInsert, Tables
    <2>6. CASE pc[r] = "communication"
      BY <2>1, <2>2, <2>6 DEF BeforeInsert, AfterInsert, Tables
    <2>7. CASE pc[r] = "credentials"
      BY <2>1, <2>2, <2>7 DEF BeforeInsert, AfterInsert, Tables, Created
    <2> QED
      BY <1>1, <2>3, <2>4, <2>5, <2>6, <2>7 DEF Tables
  <1>6. RowsInPhase(r)'
    BY <1>1, <1>2, <1>5 DEF IInv, TypeOK, RequestInv, Insert, RowsInPhase, CreateRows, CacheSteps, CacheKeys, Tables
  <1>7. Connections(r)' /\ Transactions(r)' /\ Statuses(r)'
    BY <1>1, <1>5 DEF IInv, TypeOK, RequestInv, Insert, Connections, Transactions, Statuses, InFlight,
       TransactionSteps, FailedSteps, Tables, CacheSteps
  <1>8. CacheContent(r)'
    BY <1>1, <1>5 DEF IInv, TypeOK, RequestInv, Insert, CacheContent, Known, Tables, CacheKeys
  <1> QED BY <1>4, <1>6, <1>7, <1>8 DEF RequestInv

\* The actions that only move a request along, or fail it.
ControlStep(r) ==
    \/ Arrive(r) \/ ConnectFails(r) \/ Prepare(r) \/ Respond(r) \/ Validate(r)
    \/ Notify(r) \/ ServiceFails(r) \/ CommitFails(r) \/ Open(r) \/ RedisFails(r)
    \/ Compare(r) \/ PutRefused(r) \/ Close(r) \/ CloseThrows(r)

\* The steps that move a request without touching its connections or its rows.
LEMMA ControlStepKeeps ==
    ASSUME NEW r \in Requests, IInv, ControlStep(r)
    PROVE  TypeOK' /\ RequestInv(r)'
  <1>1. CASE Arrive(r)
    <2>1. TypeOK' /\ Statuses(r)' /\ Transactions(r)'
      BY <1>1 DEF IInv, TypeOK, RequestInv, Arrive, Goto, Steps, Phases,
         Services, Tables, CacheSteps, CacheKeys, Statuses, Transactions,
         TransactionSteps, FailedSteps
    <2>2. Connections(r)'
      BY <1>1 DEF IInv, TypeOK, RequestInv, Arrive, Goto, Connections,
         InFlight, Phases, Services, Tables, CacheSteps, CacheKeys,
         RowsInPhase, LookupRows, RefreshRows
    <2>3. RowsInPhase(r)'
      BY <1>1 DEF IInv, TypeOK, RequestInv, Arrive, Goto, RowsInPhase,
         CreateRows, LookupRows, RefreshRows, Phases, Services, Tables,
         CacheSteps, CacheKeys, Statuses, FailedSteps
    <2>4. CacheContent(r)'
      BY <1>1 DEF IInv, TypeOK, RequestInv, Arrive, Goto, CacheContent, Known,
         Phases, Services, Tables, CacheSteps, CacheKeys
    <2> QED BY <2>1, <2>2, <2>3, <2>4 DEF RequestInv
  <1>2. CASE ConnectFails(r)
    <2>1. TypeOK' /\ Statuses(r)' /\ Transactions(r)'
      BY <1>2 DEF IInv, TypeOK, RequestInv, ConnectFails, Goto, Fail, Steps,
         Phases, Services, Tables, CacheSteps, CacheKeys, Statuses,
         Transactions, TransactionSteps, FailedSteps
    <2>2. Connections(r)'
      BY <1>2 DEF IInv, TypeOK, RequestInv, ConnectFails, Goto, Fail,
         Connections, InFlight, Phases, Services, Tables, CacheSteps,
         CacheKeys
    <2>3. RowsInPhase(r)'
      BY <1>2 DEF IInv, TypeOK, RequestInv, ConnectFails, Goto, Fail,
         RowsInPhase, CreateRows, LookupRows, RefreshRows, Phases, Services,
         Tables, CacheSteps, CacheKeys, Statuses, FailedSteps
    <2>4. CacheContent(r)'
      BY <1>2 DEF IInv, TypeOK, RequestInv, ConnectFails, Goto, Fail,
         CacheContent, Known, Phases, Services, Tables, CacheSteps, CacheKeys
    <2> QED BY <2>1, <2>2, <2>3, <2>4 DEF RequestInv
  <1>3. CASE Prepare(r)
    <2>1. TypeOK' /\ Statuses(r)' /\ Transactions(r)'
      BY <1>3 DEF IInv, TypeOK, RequestInv, Prepare, Goto, Steps, Phases,
         Services, Tables, CacheSteps, CacheKeys, Statuses, Transactions,
         TransactionSteps, FailedSteps
    <2>2. Connections(r)'
      BY <1>3 DEF IInv, TypeOK, RequestInv, Prepare, Goto, Connections,
         InFlight, Phases, Services, Tables, CacheSteps, CacheKeys
    <2>3. RowsInPhase(r)'
      BY <1>3 DEF IInv, TypeOK, RequestInv, Prepare, Goto, RowsInPhase,
         CreateRows, LookupRows, RefreshRows, Phases, Services, Tables,
         CacheSteps, CacheKeys, Statuses, FailedSteps
    <2>4. CacheContent(r)'
      BY <1>3 DEF IInv, TypeOK, RequestInv, Prepare, Goto, CacheContent,
         Known, Phases, Services, Tables, CacheSteps, CacheKeys
    <2> QED BY <2>1, <2>2, <2>3, <2>4 DEF RequestInv
  <1>4. CASE Respond(r)
    <2>1. TypeOK' /\ Statuses(r)' /\ Transactions(r)'
      BY <1>4 DEF IInv, TypeOK, RequestInv, Respond, Goto, Steps, Phases,
         Services, Tables, CacheSteps, CacheKeys, Statuses, Transactions,
         TransactionSteps, FailedSteps
    <2>2. Connections(r)'
      BY <1>4 DEF IInv, TypeOK, RequestInv, Respond, Goto, Connections,
         InFlight, Phases, Services, Tables, CacheSteps, CacheKeys
    <2>3. RowsInPhase(r)'
      BY <1>4 DEF IInv, TypeOK, RequestInv, Respond, Goto, RowsInPhase,
         CreateRows, LookupRows, RefreshRows, Phases, Services, Tables,
         CacheSteps, CacheKeys, Statuses, FailedSteps
    <2>4. CacheContent(r)'
      BY <1>4 DEF IInv, TypeOK, RequestInv, Respond, Goto, CacheContent,
         Known, Phases, Services, Tables, CacheSteps, CacheKeys
    <2> QED BY <2>1, <2>2, <2>3, <2>4 DEF RequestInv
  <1>5. CASE Validate(r)
    <2>1. TypeOK' /\ Statuses(r)' /\ Transactions(r)'
      BY <1>5 DEF IInv, TypeOK, RequestInv, Validate, Goto, Steps, Phases,
         Services, Tables, CacheSteps, CacheKeys, Statuses, Transactions,
         TransactionSteps, FailedSteps
    <2>2. Connections(r)'
      BY <1>5 DEF IInv, TypeOK, RequestInv, Validate, Goto, Connections,
         InFlight, Phases, Services, Tables, CacheSteps, CacheKeys
    <2>3. RowsInPhase(r)'
      BY <1>5 DEF IInv, TypeOK, RequestInv, Validate, Goto, RowsInPhase,
         CreateRows, LookupRows, RefreshRows, Phases, Services, Tables,
         CacheSteps, CacheKeys, Statuses, FailedSteps
    <2>4. CacheContent(r)'
      BY <1>5 DEF IInv, TypeOK, RequestInv, Validate, Goto, CacheContent,
         Known, Phases, Services, Tables, CacheSteps, CacheKeys
    <2> QED BY <2>1, <2>2, <2>3, <2>4 DEF RequestInv
  <1>6. CASE Notify(r)
    <2>1. TypeOK' /\ Statuses(r)' /\ Transactions(r)'
      BY <1>6 DEF IInv, TypeOK, RequestInv, Notify, Goto, Steps, Phases,
         Services, Tables, CacheSteps, CacheKeys, Statuses, Transactions,
         TransactionSteps, FailedSteps
    <2>2. Connections(r)'
      BY <1>6 DEF IInv, TypeOK, RequestInv, Notify, Goto, Connections,
         InFlight, Phases, Services, Tables, CacheSteps, CacheKeys
    <2>3. RowsInPhase(r)'
      BY <1>6 DEF IInv, TypeOK, RequestInv, Notify, Goto, RowsInPhase,
         CreateRows, LookupRows, RefreshRows, Phases, Services, Tables,
         CacheSteps, CacheKeys, Statuses, FailedSteps
    <2>4. CacheContent(r)'
      BY <1>6 DEF IInv, TypeOK, RequestInv, Notify, Goto, CacheContent, Known,
         Phases, Services, Tables, CacheSteps, CacheKeys
    <2> QED BY <2>1, <2>2, <2>3, <2>4 DEF RequestInv
  <1>7. CASE ServiceFails(r)
    <2>1. TypeOK' /\ Statuses(r)' /\ Transactions(r)'
      BY <1>7 DEF IInv, TypeOK, RequestInv, ServiceFails, Goto, Fail, Unwind,
         Steps, Phases, Services, Tables, CacheSteps, CacheKeys, Statuses,
         Transactions, TransactionSteps, FailedSteps
    <2>2. Connections(r)'
      BY <1>7 DEF IInv, TypeOK, RequestInv, ServiceFails, Goto, Fail, Unwind,
         Connections, InFlight, Phases, Services, Tables, CacheSteps,
         CacheKeys
    <2>3. RowsInPhase(r)'
      BY <1>7 DEF IInv, TypeOK, RequestInv, ServiceFails, Goto, Fail, Unwind,
         RowsInPhase, CreateRows, LookupRows, RefreshRows, Phases, Services,
         Tables, CacheSteps, CacheKeys, Statuses, FailedSteps
    <2>4. CacheContent(r)'
      BY <1>7 DEF IInv, TypeOK, RequestInv, ServiceFails, Goto, Fail, Unwind,
         CacheContent, Known, Phases, Services, Tables, CacheSteps, CacheKeys
    <2> QED BY <2>1, <2>2, <2>3, <2>4 DEF RequestInv
  <1>8. CASE CommitFails(r)
    <2>1. TypeOK' /\ Statuses(r)' /\ Transactions(r)'
      BY <1>8 DEF IInv, TypeOK, RequestInv, CommitFails, Goto, Fail, Steps,
         Phases, Services, Tables, CacheSteps, CacheKeys, Statuses,
         Transactions, TransactionSteps, FailedSteps
    <2>2. Connections(r)'
      BY <1>8 DEF IInv, TypeOK, RequestInv, CommitFails, Goto, Fail,
         Connections, InFlight, Phases, Services, Tables, CacheSteps,
         CacheKeys
    <2>3. RowsInPhase(r)'
      BY <1>8 DEF IInv, TypeOK, RequestInv, CommitFails, Goto, Fail,
         RowsInPhase, CreateRows, LookupRows, RefreshRows, Phases, Services,
         Tables, CacheSteps, CacheKeys, Statuses, FailedSteps
    <2>4. CacheContent(r)'
      BY <1>8 DEF IInv, TypeOK, RequestInv, CommitFails, Goto, Fail,
         CacheContent, Known, Phases, Services, Tables, CacheSteps, CacheKeys
    <2> QED BY <2>1, <2>2, <2>3, <2>4 DEF RequestInv
  <1>9. CASE Open(r)
    <2>1. TypeOK' /\ Statuses(r)' /\ Transactions(r)'
      BY <1>9 DEF IInv, TypeOK, RequestInv, Open, Goto, Steps, Phases,
         Services, Tables, CacheSteps, CacheKeys, Statuses, Transactions,
         TransactionSteps, FailedSteps
    <2>2. Connections(r)'
      BY <1>9 DEF IInv, TypeOK, RequestInv, Open, Goto, Connections, InFlight,
         Phases, Services, Tables, CacheSteps, CacheKeys
    <2>3. RowsInPhase(r)'
      BY <1>9 DEF IInv, TypeOK, RequestInv, Open, Goto, RowsInPhase,
         CreateRows, LookupRows, RefreshRows, Phases, Services, Tables,
         CacheSteps, CacheKeys, Statuses, FailedSteps
    <2>4. CacheContent(r)'
      BY <1>9 DEF IInv, TypeOK, RequestInv, Open, Goto, CacheContent, Known,
         Phases, Services, Tables, CacheSteps, CacheKeys
    <2> QED BY <2>1, <2>2, <2>3, <2>4 DEF RequestInv
  <1>10. CASE RedisFails(r)
    <2>1. TypeOK' /\ Statuses(r)' /\ Transactions(r)'
      BY <1>10 DEF IInv, TypeOK, RequestInv, RedisFails, Goto, Fail, Steps,
         Phases, Services, Tables, CacheSteps, CacheKeys, Statuses,
         Transactions, TransactionSteps, FailedSteps
    <2>2. Connections(r)'
      BY <1>10 DEF IInv, TypeOK, RequestInv, RedisFails, Goto, Fail,
         Connections, InFlight, Phases, Services, Tables, CacheSteps,
         CacheKeys
    <2>3. RowsInPhase(r)'
      BY <1>10 DEF IInv, TypeOK, RequestInv, RedisFails, Goto, Fail,
         RowsInPhase, CreateRows, LookupRows, RefreshRows, Phases, Services,
         Tables, CacheSteps, CacheKeys, Statuses, FailedSteps
    <2>4. CacheContent(r)'
      BY <1>10 DEF IInv, TypeOK, RequestInv, RedisFails, Goto, Fail,
         CacheContent, Known, Phases, Services, Tables, CacheSteps, CacheKeys
    <2> QED BY <2>1, <2>2, <2>3, <2>4 DEF RequestInv
  <1>11. CASE Compare(r)
    <2>1. TypeOK' /\ Statuses(r)' /\ Transactions(r)'
      BY <1>11 DEF IInv, TypeOK, RequestInv, Compare, Goto, Steps, Phases,
         Services, Tables, CacheSteps, CacheKeys, Statuses, Transactions,
         TransactionSteps, FailedSteps
    <2>2. Connections(r)'
      BY <1>11 DEF IInv, TypeOK, RequestInv, Compare, Goto, Connections,
         InFlight, Phases, Services, Tables, CacheSteps, CacheKeys
    <2>3. RowsInPhase(r)'
      BY <1>11 DEF IInv, TypeOK, RequestInv, Compare, Goto, RowsInPhase,
         CreateRows, LookupRows, RefreshRows, Phases, Services, Tables,
         CacheSteps, CacheKeys, Statuses, FailedSteps
    <2>4. CacheContent(r)'
      BY <1>11 DEF IInv, TypeOK, RequestInv, Compare, Goto, CacheContent,
         Known, Phases, Services, Tables, CacheSteps, CacheKeys
    <2> QED BY <2>1, <2>2, <2>3, <2>4 DEF RequestInv
  <1>12. CASE PutRefused(r)
    <2>1. TypeOK' /\ Statuses(r)' /\ Transactions(r)'
      BY <1>12 DEF IInv, TypeOK, RequestInv, PutRefused, Goto, Steps, Phases,
         Services, Tables, CacheSteps, CacheKeys, Statuses, Transactions,
         TransactionSteps, FailedSteps
    <2>2. Connections(r)'
      BY <1>12 DEF IInv, TypeOK, RequestInv, PutRefused, Goto, Connections,
         InFlight, Phases, Services, Tables, CacheSteps, CacheKeys
    <2>3. RowsInPhase(r)'
      BY <1>12 DEF IInv, TypeOK, RequestInv, PutRefused, Goto, RowsInPhase,
         CreateRows, LookupRows, RefreshRows, Phases, Services, Tables,
         CacheSteps, CacheKeys, Statuses, FailedSteps
    <2>4. CacheContent(r)'
      BY <1>12 DEF IInv, TypeOK, RequestInv, PutRefused, Goto, CacheContent,
         Known, Phases, Services, Tables, CacheSteps, CacheKeys
    <2> QED BY <2>1, <2>2, <2>3, <2>4 DEF RequestInv
  <1>13. CASE Close(r)
    <2>1. TypeOK' /\ Statuses(r)' /\ Transactions(r)'
      BY <1>13 DEF IInv, TypeOK, RequestInv, Close, Goto, AfterCache, Steps,
         Phases, Services, Tables, CacheSteps, CacheKeys, Statuses,
         Transactions, TransactionSteps, FailedSteps
    <2>2. Connections(r)'
      BY <1>13 DEF IInv, TypeOK, RequestInv, Close, Goto, AfterCache,
         Connections, InFlight, Phases, Services, Tables, CacheSteps,
         CacheKeys
    <2>3. RowsInPhase(r)'
      BY <1>13 DEF IInv, TypeOK, RequestInv, Close, Goto, AfterCache,
         RowsInPhase, CreateRows, LookupRows, RefreshRows, Phases, Services,
         Tables, CacheSteps, CacheKeys, Statuses, FailedSteps
    <2>4. CacheContent(r)'
      BY <1>13 DEF IInv, TypeOK, RequestInv, Close, Goto, AfterCache,
         CacheContent, Known, Phases, Services, Tables, CacheSteps, CacheKeys
    <2> QED BY <2>1, <2>2, <2>3, <2>4 DEF RequestInv
  <1>14. CASE CloseThrows(r)
    <2>1. TypeOK' /\ Statuses(r)' /\ Transactions(r)'
      BY <1>14 DEF IInv, TypeOK, RequestInv, CloseThrows, Goto, Fail, Steps,
         Phases, Services, Tables, CacheSteps, CacheKeys, Statuses,
         Transactions, TransactionSteps, FailedSteps
    <2>2. Connections(r)'
      BY <1>14 DEF IInv, TypeOK, RequestInv, CloseThrows, Goto, Fail,
         Connections, InFlight, Phases, Services, Tables, CacheSteps,
         CacheKeys
    <2>3. RowsInPhase(r)'
      BY <1>14 DEF IInv, TypeOK, RequestInv, CloseThrows, Goto, Fail,
         RowsInPhase, CreateRows, LookupRows, RefreshRows, Phases, Services,
         Tables, CacheSteps, CacheKeys, Statuses, FailedSteps
    <2>4. CacheContent(r)'
      BY <1>14 DEF IInv, TypeOK, RequestInv, CloseThrows, Goto, Fail,
         CacheContent, Known, Phases, Services, Tables, CacheSteps, CacheKeys
    <2> QED BY <2>1, <2>2, <2>3, <2>4 DEF RequestInv
  <1> QED
    BY <1>1, <1>2, <1>3, <1>4, <1>5, <1>6, <1>7, <1>8, <1>9, <1>10, <1>11,
       <1>12, <1>13, <1>14 DEF ControlStep

\* The actions that take a connection or give one back.
ConnectionStep(r) ==
    \/ Connect(r) \/ Release(r)

\* Checking connections out and in, along success and failure.
LEMMA ConnectionStepKeeps ==
    ASSUME NEW r \in Requests, IInv, ConnectionStep(r)
    PROVE  TypeOK' /\ RequestInv(r)'
  <1>1. CASE Connect(r)
    <2>1. TypeOK' /\ Statuses(r)' /\ Transactions(r)'
      BY <1>1 DEF IInv, TypeOK, RequestInv, Connect, Goto, Side, AfterConnect,
         Steps, Phases, Services, Tables, CacheSteps, CacheKeys, Statuses,
         Transactions, TransactionSteps, FailedSteps
    <2>2. Connections(r)'
      BY <1>1 DEF IInv, TypeOK, RequestInv, Connect, Goto, Side, AfterConnect,
         Connections, InFlight, Phases, Services, Tables, CacheSteps,
         CacheKeys
    <2>3. RowsInPhase(r)'
      BY <1>1 DEF IInv, TypeOK, RequestInv, Connect, Goto, Side, AfterConnect,
         RowsInPhase, CreateRows, LookupRows, RefreshRows, Phases, Services,
         Tables, CacheSteps, CacheKeys, Statuses, FailedSteps
    <2>4. CacheContent(r)'
      BY <1>1 DEF IInv, TypeOK, RequestInv, Connect, Goto, Side, AfterConnect,
         CacheContent, Known, Phases, Services, Tables, CacheSteps, CacheKeys
    <2> QED BY <2>1, <2>2, <2>3, <2>4 DEF RequestInv
  <1>2. CASE Release(r)
    <2>1. TypeOK' /\ Statuses(r)' /\ Transactions(r)'
      BY <1>2 DEF IInv, TypeOK, RequestInv, Release, Goto, Steps, Phases,
         Services, Tables, CacheSteps, CacheKeys, Statuses, Transactions,
         TransactionSteps, FailedSteps
    <2>2. Connections(r)'
      BY <1>2 DEF IInv, TypeOK, RequestInv, Release, Goto, Connections,
         InFlight, Phases, Services, Tables, CacheSteps, CacheKeys
    <2>3. RowsInPhase(r)'
      BY <1>2 DEF IInv, TypeOK, RequestInv, Release, Goto, RowsInPhase,
         CreateRows, LookupRows, RefreshRows, Phases, Services, Tables,
         CacheSteps, CacheKeys, Statuses, FailedSteps
    <2>4. CacheContent(r)'
      BY <1>2 DEF IInv, TypeOK, RequestInv, Release, Goto, CacheContent,
         Known, Phases, Services, Tables, CacheSteps, CacheKeys
    <2> QED BY <2>1, <2>2, <2>3, <2>4 DEF RequestInv
  <1> QED
    BY <1>1, <1>2 DEF ConnectionStep

\* The actions that open or close a transaction or change its rows.
TransactionStep(r) ==
    \/ Begin(r) \/ MarkSent(r) \/ BumpVersion(r) \/ SendEmail(r) \/ Commit(r)
    \/ Acknowledge(r) \/ Rollback(r)

\* BEGIN, the two updates, COMMIT and ROLLBACK.
LEMMA TransactionStepKeeps ==
    ASSUME NEW r \in Requests, IInv, TransactionStep(r)
    PROVE  TypeOK' /\ RequestInv(r)'
  <1>1. CASE Begin(r)
    <2>0. BeforeInsert["users"] = Absent
      BY DEF BeforeInsert, Absent, Tables
    <2>1. TypeOK' /\ Statuses(r)' /\ Transactions(r)'
      BY <1>1 DEF IInv, TypeOK, RequestInv, Begin, Goto, AfterBegin, Steps,
         Phases, Services, Tables, CacheSteps, CacheKeys, Statuses,
         Transactions, TransactionSteps, FailedSteps
    <2>2. Connections(r)'
      BY <1>1 DEF IInv, TypeOK, RequestInv, Begin, Goto, AfterBegin,
         Connections, InFlight, Phases, Services, Tables, CacheSteps,
         CacheKeys
    <2>3. RowsInPhase(r)'
      BY <1>1, <2>0 DEF IInv, TypeOK, RequestInv, Begin, Goto, AfterBegin,
         RowsInPhase, CreateRows, LookupRows, RefreshRows, Phases, Services,
         Tables, CacheSteps, CacheKeys, Statuses, FailedSteps
    <2>4. CacheContent(r)'
      BY <1>1 DEF IInv, TypeOK, RequestInv, Begin, Goto, AfterBegin,
         CacheContent, Known, Phases, Services, Tables, CacheSteps, CacheKeys
    <2> QED BY <2>1, <2>2, <2>3, <2>4 DEF RequestInv
  <1>2. CASE MarkSent(r)
    <2>0. /\ phase[r] = "lookup"
          /\ work' = [work EXCEPT ![r] = Marked]
          /\ work' \in [Requests -> Rows]
      <3>1. phase[r] = "lookup" /\ work[r] = Created
        BY <1>2 DEF IInv, TypeOK, RequestInv, MarkSent, Phases, RowsInPhase,
           CreateRows, LookupRows, RefreshRows, CacheSteps, CacheKeys
      <3> DEFINE row == [work[r] EXCEPT !.sent = TRUE]
      <3>2. Marked \in Rows
        BY DEF Marked, Rows
      <3>3. /\ row \in Rows
            /\ row.tables = Marked.tables
            /\ row.version = Marked.version
            /\ row.sent = Marked.sent
        <4>1. work[r] \in Rows
          BY DEF IInv, TypeOK
        <4>2. work[r].tables = Tables /\ work[r].version = 1 /\ work[r].sent = FALSE
          BY <3>1 DEF Created
        <4>3. row.tables = work[r].tables /\ row.version = work[r].version /\ row.sent = TRUE
          BY <4>1 DEF Rows
        <4>4. row \in Rows
          BY <4>1, <4>2 DEF Rows
        <4> QED
          BY <4>2, <4>3, <4>4 DEF Marked
      <3>4. row = Marked
        BY <3>2, <3>3, SameRow
      <3> QED
        BY <1>2, <3>1, <3>2, <3>4 DEF MarkSent, IInv, TypeOK
    <2>1. TypeOK' /\ Statuses(r)' /\ Transactions(r)'
      BY <1>2, <2>0 DEF IInv, TypeOK, RequestInv, MarkSent, Goto, Steps, Phases,
         Services, Tables, CacheSteps, CacheKeys, Statuses, Transactions,
         TransactionSteps, FailedSteps, Rows, Created
    <2>2. Connections(r)'
      BY <1>2 DEF IInv, TypeOK, RequestInv, MarkSent, Goto, Connections,
         InFlight, Phases, Services, Tables, CacheSteps, CacheKeys
    <2>3. RowsInPhase(r)'
      BY <1>2, <2>0 DEF IInv, TypeOK, RequestInv, MarkSent, Goto, RowsInPhase,
         CreateRows, LookupRows, RefreshRows, Phases, Services, Tables,
         CacheSteps, CacheKeys, Statuses, FailedSteps, Created, Marked
    <2>4. CacheContent(r)'
      BY <1>2 DEF IInv, TypeOK, RequestInv, MarkSent, Goto, CacheContent,
         Known, Phases, Services, Tables, CacheSteps, CacheKeys
    <2> QED BY <2>1, <2>2, <2>3, <2>4 DEF RequestInv
  <1>3. CASE BumpVersion(r)
    <2>0. /\ phase[r] = "lookup"
          /\ work' = [work EXCEPT ![r] = Notified]
          /\ work' \in [Requests -> Rows]
      <3>1. phase[r] = "lookup" /\ work[r] = Marked
        BY <1>3 DEF IInv, TypeOK, RequestInv, BumpVersion, Phases, RowsInPhase,
           CreateRows, LookupRows, RefreshRows, CacheSteps, CacheKeys
      <3> DEFINE row == [work[r] EXCEPT !.version = work[r].version + 1]
      <3>2. Notified \in Rows
        BY DEF Notified, Rows
      <3>3. /\ row \in Rows
            /\ row.tables = Notified.tables
            /\ row.version = Notified.version
            /\ row.sent = Notified.sent
        <4>1. work[r] \in Rows
          BY DEF IInv, TypeOK
        <4>2. work[r].tables = Tables /\ work[r].version = 1 /\ work[r].sent = TRUE
          BY <3>1 DEF Marked
        <4>3. row.tables = work[r].tables /\ row.version = work[r].version + 1 /\ row.sent = work[r].sent
          BY <4>1 DEF Rows
        <4>4. row \in Rows
          BY <4>1, <4>2 DEF Rows
        <4>5. row.version = 2
          BY <4>2, <4>3
        <4>6. row.sent = TRUE
          BY <4>2, <4>3, Zenon
        <4>7. Notified.tables = Tables /\ Notified.version = 2 /\ Notified.sent = TRUE
          BY DEF Notified
        <4> QED
          BY <4>2, <4>3, <4>4, <4>5, <4>6, <4>7, Zenon
      <3>4. row = Notified
        BY <3>2, <3>3, SameRow
      <3> QED
        BY <1>3, <3>1, <3>2, <3>4 DEF BumpVersion, IInv, TypeOK
    <2>1. TypeOK' /\ Statuses(r)' /\ Transactions(r)'
      BY <1>3, <2>0 DEF IInv, TypeOK, RequestInv, BumpVersion, Goto, Steps, Phases,
         Services, Tables, CacheSteps, CacheKeys, Statuses, Transactions,
         TransactionSteps, FailedSteps, Rows, Created, Marked, Notified
    <2>2. Connections(r)'
      BY <1>3 DEF IInv, TypeOK, RequestInv, BumpVersion, Goto, Connections,
         InFlight, Phases, Services, Tables, CacheSteps, CacheKeys
    <2>3. RowsInPhase(r)'
      BY <1>3, <2>0 DEF IInv, TypeOK, RequestInv, BumpVersion, Goto, RowsInPhase,
         CreateRows, LookupRows, RefreshRows, Phases, Services, Tables,
         CacheSteps, CacheKeys, Statuses, FailedSteps, Marked, Notified
    <2>4. CacheContent(r)'
      BY <1>3 DEF IInv, TypeOK, RequestInv, BumpVersion, Goto, CacheContent,
         Known, Phases, Services, Tables, CacheSteps, CacheKeys, View,
         Created, Notified, NoEntry, Rows, Views, RowsInPhase, CreateRows,
         LookupRows, RefreshRows
    <2> QED BY <2>1, <2>2, <2>3, <2>4 DEF RequestInv
  <1>4. CASE SendEmail(r)
    <2>1. TypeOK' /\ Statuses(r)' /\ Transactions(r)'
      BY <1>4 DEF IInv, TypeOK, RequestInv, SendEmail, Goto, Steps, Phases,
         Services, Tables, CacheSteps, CacheKeys, Statuses, Transactions,
         TransactionSteps, FailedSteps
    <2>2. Connections(r)'
      BY <1>4 DEF IInv, TypeOK, RequestInv, SendEmail, Goto, Connections,
         InFlight, Phases, Services, Tables, CacheSteps, CacheKeys, RowsInPhase,
         CreateRows, LookupRows, RefreshRows
    <2>3. RowsInPhase(r)'
      BY <1>4 DEF IInv, TypeOK, RequestInv, SendEmail, Goto, RowsInPhase,
         CreateRows, LookupRows, RefreshRows, Phases, Services, Tables,
         CacheSteps, CacheKeys, Statuses, FailedSteps
    <2>4. CacheContent(r)'
      BY <1>4 DEF IInv, TypeOK, RequestInv, SendEmail, Goto, CacheContent,
         Known, Phases, Services, Tables, CacheSteps, CacheKeys, View,
         Created, Notified, NoEntry, Rows, Views, RowsInPhase, CreateRows,
         LookupRows, RefreshRows
    <2> QED BY <2>1, <2>2, <2>3, <2>4 DEF RequestInv
  <1>5. CASE Commit(r)
    <2>1. TypeOK' /\ Statuses(r)' /\ Transactions(r)'
      BY <1>5 DEF IInv, TypeOK, RequestInv, Commit, Goto, Steps, Phases,
         Services, Tables, CacheSteps, CacheKeys, Statuses, Transactions,
         TransactionSteps, FailedSteps
    <2>2. Connections(r)'
      BY <1>5 DEF IInv, TypeOK, RequestInv, Commit, Goto, Connections,
         InFlight, Phases, Services, Tables, CacheSteps, CacheKeys
    <2>3. RowsInPhase(r)'
      BY <1>5 DEF IInv, TypeOK, RequestInv, Commit, Goto, RowsInPhase,
         CreateRows, LookupRows, RefreshRows, Phases, Services, Tables,
         CacheSteps, CacheKeys, Statuses, FailedSteps
    <2>4. CacheContent(r)'
      BY <1>5 DEF IInv, TypeOK, RequestInv, Commit, Goto, CacheContent, Known,
         Phases, Services, Tables, CacheSteps, CacheKeys
    <2> QED BY <2>1, <2>2, <2>3, <2>4 DEF RequestInv
  <1>6. CASE Acknowledge(r)
    <2>1. TypeOK' /\ Statuses(r)' /\ Transactions(r)'
      BY <1>6 DEF IInv, TypeOK, RequestInv, Acknowledge, Goto, AfterCommit,
         Steps, Phases, Services, Tables, CacheSteps, CacheKeys, Statuses,
         Transactions, TransactionSteps, FailedSteps
    <2>2. Connections(r)'
      BY <1>6 DEF IInv, TypeOK, RequestInv, Acknowledge, Goto, AfterCommit,
         Connections, InFlight, Phases, Services, Tables, CacheSteps,
         CacheKeys
    <2>3. RowsInPhase(r)'
      BY <1>6 DEF IInv, TypeOK, RequestInv, Acknowledge, Goto, AfterCommit,
         RowsInPhase, CreateRows, LookupRows, RefreshRows, Phases, Services,
         Tables, CacheSteps, CacheKeys, Statuses, FailedSteps
    <2>4. CacheContent(r)'
      BY <1>6 DEF IInv, TypeOK, RequestInv, Acknowledge, Goto, AfterCommit,
         CacheContent, Known, Phases, Services, Tables, CacheSteps, CacheKeys
    <2> QED BY <2>1, <2>2, <2>3, <2>4 DEF RequestInv
  <1>7. CASE Rollback(r)
    <2>1. TypeOK' /\ Statuses(r)' /\ Transactions(r)'
      BY <1>7 DEF IInv, TypeOK, RequestInv, Rollback, Goto, Steps, Phases,
         Services, Tables, CacheSteps, CacheKeys, Statuses, Transactions,
         TransactionSteps, FailedSteps
    <2>2. Connections(r)'
      BY <1>7 DEF IInv, TypeOK, RequestInv, Rollback, Goto, Connections,
         InFlight, Phases, Services, Tables, CacheSteps, CacheKeys
    <2>3. RowsInPhase(r)'
      BY <1>7 DEF IInv, TypeOK, RequestInv, Rollback, Goto, RowsInPhase,
         CreateRows, LookupRows, RefreshRows, Phases, Services, Tables,
         CacheSteps, CacheKeys, Statuses, FailedSteps
    <2>4. CacheContent(r)'
      BY <1>7 DEF IInv, TypeOK, RequestInv, Rollback, Goto, CacheContent,
         Known, Phases, Services, Tables, CacheSteps, CacheKeys
    <2> QED BY <2>1, <2>2, <2>3, <2>4 DEF RequestInv
  <1> QED
    BY <1>1, <1>2, <1>3, <1>4, <1>5, <1>6, <1>7 DEF TransactionStep

\* The actions that read or write the user object and the cache.
CacheStep(r) ==
    \/ Get(r) \/ Load(r) \/ Put(r) \/ PutThrows(r)

\* The cache service, whatever Redis answers.
LEMMA CacheStepKeeps ==
    ASSUME NEW r \in Requests, IInv, CacheStep(r)
    PROVE  TypeOK' /\ RequestInv(r)'
  <1>1. CASE Get(r)
    <2>0. user' \in [Requests -> Views] /\ pc'[r] \in {"load", "compare"}
      <3>1. cache[r]["identifier"] \in Views
        BY DEF IInv, TypeOK, CacheKeys
      <3> QED BY <1>1, <3>1 DEF IInv, TypeOK, Get, Goto
    <2>1. TypeOK' /\ Statuses(r)' /\ Transactions(r)'
      BY <1>1, <2>0 DEF IInv, TypeOK, RequestInv, Get, Goto, Steps, Phases,
         Services, Tables, CacheSteps, CacheKeys, Statuses, Transactions,
         TransactionSteps, FailedSteps, View, Views, Created, Notified,
         NoEntry
    <2>2. Connections(r)'
      BY <1>1 DEF IInv, TypeOK, RequestInv, Get, Goto, Connections, InFlight,
         Phases, Services, Tables, CacheSteps, CacheKeys
    <2>3. RowsInPhase(r)'
      BY <1>1 DEF IInv, TypeOK, RequestInv, Get, Goto, RowsInPhase,
         CreateRows, LookupRows, RefreshRows, Phases, Services, Tables,
         CacheSteps, CacheKeys, Statuses, FailedSteps
    <2>4. CacheContent(r)'
      BY <1>1 DEF IInv, TypeOK, RequestInv, Get, Goto, CacheContent, Known,
         Phases, Services, Tables, CacheSteps, CacheKeys, View, Created,
         Notified, NoEntry, Rows, Views, RowsInPhase, CreateRows, LookupRows,
         RefreshRows
    <2> QED BY <2>1, <2>2, <2>3, <2>4 DEF RequestInv
  <1>2. CASE Load(r)
    <2>1. TypeOK' /\ Statuses(r)' /\ Transactions(r)'
      BY <1>2 DEF IInv, TypeOK, RequestInv, Load, Goto, Steps, Phases,
         Services, Tables, CacheSteps, CacheKeys, Statuses, Transactions,
         TransactionSteps, FailedSteps, View, Views, Rows
    <2>2. Connections(r)'
      BY <1>2 DEF IInv, TypeOK, RequestInv, Load, Goto, Connections, InFlight,
         Phases, Services, Tables, CacheSteps, CacheKeys
    <2>3. RowsInPhase(r)'
      BY <1>2 DEF IInv, TypeOK, RequestInv, Load, Goto, RowsInPhase,
         CreateRows, LookupRows, RefreshRows, Phases, Services, Tables,
         CacheSteps, CacheKeys, Statuses, FailedSteps
    <2>4. CacheContent(r)'
      BY <1>2 DEF IInv, TypeOK, RequestInv, Load, Goto, CacheContent, Known,
         Phases, Services, Tables, CacheSteps, CacheKeys, View, Created,
         Notified, NoEntry, Rows, Views, RowsInPhase, CreateRows, LookupRows,
         RefreshRows
    <2> QED BY <2>1, <2>2, <2>3, <2>4 DEF RequestInv
  <1>3. CASE Put(r)
    <2>1. TypeOK' /\ Statuses(r)' /\ Transactions(r)'
      BY <1>3 DEF IInv, TypeOK, RequestInv, Put, Goto, AfterSet, Steps,
         Phases, Services, Tables, CacheSteps, CacheKeys, Statuses,
         Transactions, TransactionSteps, FailedSteps
    <2>2. Connections(r)'
      BY <1>3 DEF IInv, TypeOK, RequestInv, Put, Goto, AfterSet, Connections,
         InFlight, Phases, Services, Tables, CacheSteps, CacheKeys
    <2>3. RowsInPhase(r)'
      BY <1>3 DEF IInv, TypeOK, RequestInv, Put, Goto, AfterSet, RowsInPhase,
         CreateRows, LookupRows, RefreshRows, Phases, Services, Tables,
         CacheSteps, CacheKeys, Statuses, FailedSteps
    <2>4. CacheContent(r)'
      <3>1. /\ cache[r] \in [CacheKeys -> Views]
            /\ cache'[r] = [cache[r] EXCEPT ![pc[r]] = user[r]]
            /\ pc'[r] = AfterSet[pc[r]]
            /\ user[r] = View(work[r])
        BY <1>3 DEF IInv, TypeOK, RequestInv, CacheContent, Put, Goto
      <3>2. \A k \in CacheKeys : cache[r][k].version <= user[r].version
        <4>1. \/ work[r] = Created /\ Known(r) = {NoEntry, View(Created)}
              \/ work[r] = Notified /\ Known(r) = {NoEntry, View(Created), View(Notified)}
          BY <1>3 DEF IInv, TypeOK, RequestInv, Put, Known, Phases, RowsInPhase,
             CreateRows, LookupRows, RefreshRows, CacheSteps
        <4>2. /\ NoEntry.version = 0
              /\ View(Created).version = 1
              /\ View(Notified).version = 2
          BY DEF NoEntry, View, Created, Notified
        <4>3. \A k \in CacheKeys : cache[r][k] \in Known(r)
          BY DEF IInv, RequestInv, CacheContent
        <4> QED BY <3>1, <4>1, <4>2, <4>3
      <3>3. CASE pc[r] = "identifier"
        BY <1>3, <3>1, <3>2, <3>3 DEF IInv, TypeOK, RequestInv, CacheContent, Put, AfterSet, Known, CacheKeys
      <3>4. CASE pc[r] = "clientId"
        BY <1>3, <3>1, <3>2, <3>4 DEF IInv, TypeOK, RequestInv, CacheContent, Put, AfterSet, Known, CacheKeys
      <3>5. CASE pc[r] = "email"
        BY <1>3, <3>1, <3>2, <3>5 DEF IInv, TypeOK, RequestInv, CacheContent, Put, AfterSet, Known, CacheKeys
      <3> QED
        BY <1>3, <3>3, <3>4, <3>5 DEF Put, CacheKeys
    <2> QED BY <2>1, <2>2, <2>3, <2>4 DEF RequestInv
  <1>4. CASE PutThrows(r)
    <2>0. cache' \in [Requests -> [CacheKeys -> Views]]
      <3>1. user[r] \in Views /\ cache[r] \in [CacheKeys -> Views]
        BY DEF IInv, TypeOK
      <3>2. [cache[r] EXCEPT ![pc[r]] = user[r]] \in [CacheKeys -> Views]
        BY <1>4, <3>1 DEF PutThrows
      <3>3. cache' \in {cache, [cache EXCEPT ![r] = [cache[r] EXCEPT ![pc[r]] = user[r]]]}
        BY <1>4 DEF PutThrows
      <3> QED BY <3>2, <3>3 DEF IInv, TypeOK
    <2>1. TypeOK' /\ Statuses(r)' /\ Transactions(r)'
      BY <1>4, <2>0 DEF IInv, TypeOK, RequestInv, PutThrows, Goto, Fail, Steps,
         Phases, Services, Tables, CacheSteps, CacheKeys, Statuses,
         Transactions, TransactionSteps, FailedSteps
    <2>2. Connections(r)'
      BY <1>4 DEF IInv, TypeOK, RequestInv, PutThrows, Goto, Fail,
         Connections, InFlight, Phases, Services, Tables, CacheSteps,
         CacheKeys
    <2>3. RowsInPhase(r)'
      BY <1>4 DEF IInv, TypeOK, RequestInv, PutThrows, Goto, Fail,
         RowsInPhase, CreateRows, LookupRows, RefreshRows, Phases, Services,
         Tables, CacheSteps, CacheKeys, Statuses, FailedSteps
    <2>4. CacheContent(r)'
      BY <1>4 DEF IInv, TypeOK, RequestInv, PutThrows, Goto, Fail,
         CacheContent, Known, Phases, Services, Tables, CacheSteps, CacheKeys,
         View, Created, Notified, NoEntry, Rows, Views, RowsInPhase,
         CreateRows, LookupRows, RefreshRows
    <2> QED BY <2>1, <2>2, <2>3, <2>4 DEF RequestInv
  <1> QED
    BY <1>1, <1>2, <1>3, <1>4 DEF CacheStep

-----------------------------------------------------------------------------
\* The invariant holds before the first request.
LEMMA InitEstablishesIInv == Init => IInv
  <1> SUFFICES ASSUME Init PROVE IInv
    OBVIOUS
  <1>1. TypeOK
    BY DEF Init, TypeOK, Steps, Phases, Rows, Absent, Views, NoEntry
  <1>2. ASSUME NEW r \in Requests PROVE RequestInv(r)
    <2>1. Connections(r) /\ Transactions(r) /\ Statuses(r)
      BY DEF Init, Connections, Transactions, Statuses, InFlight, TransactionSteps,
         Tables, CacheSteps, CacheKeys
    <2>2. RowsInPhase(r)
      BY DEF Init, RowsInPhase, CreateRows, Tables, CacheSteps, CacheKeys
    <2>3. CacheContent(r)
      BY DEF Init, CacheContent, Known, CacheKeys, NoEntry
    <2> QED BY <2>1, <2>2, <2>3 DEF RequestInv
  <1> QED BY <1>1, <1>2 DEF IInv

\* One step of one request keeps the invariant of all.
LEMMA StepKeepsIInv ==
    ASSUME NEW r \in Requests, IInv, Arrive(r) \/ Step(r)
    PROVE  IInv'
  <1>1. \/ Insert(r) \/ ControlStep(r) \/ ConnectionStep(r)
        \/ TransactionStep(r) \/ CacheStep(r)
    BY DEF Step, Transact, UseRedis, ControlStep, ConnectionStep, TransactionStep, CacheStep
  <1>2. TypeOK' /\ RequestInv(r)'
    BY <1>1, InsertKeeps, ControlStepKeeps, ConnectionStepKeeps, TransactionStepKeeps,
       CacheStepKeeps
  <1>3. ASSUME NEW q \in Requests \ {r} PROVE RequestInv(q)'
    BY <1>3, StepTouchesOnlyItsRequest, UntouchedKeepsInvariant DEF IInv
  <1> QED BY <1>2, <1>3 DEF IInv

\* So does the death of the process.
LEMMA CrashKeepsIInv ==
    ASSUME IInv, Crash
    PROVE  IInv'
  <1>1. TypeOK'
    BY DEF IInv, TypeOK, Crash, Steps
  <1>2. ASSUME NEW r \in Requests PROVE RequestInv(r)'
    <2>1. pc'[r] \in {"idle", "done", "dead"} /\ (pc'[r] # "dead" => pc'[r] = pc[r])
      BY DEF Crash, InFlight
    <2>2. Connections(r)' /\ Transactions(r)' /\ Statuses(r)'
      BY <2>1 DEF IInv, TypeOK, RequestInv, Crash, Connections, Transactions, Statuses,
         InFlight, TransactionSteps, FailedSteps, Tables, CacheSteps, CacheKeys
    <2>3. RowsInPhase(r)'
      BY <2>1 DEF IInv, TypeOK, RequestInv, Crash, InFlight, Steps, Services, RowsInPhase,
         CreateRows, LookupRows, RefreshRows, Tables, CacheSteps, CacheKeys
    <2>4. CacheContent(r)'
      BY <2>1 DEF IInv, RequestInv, Crash, CacheContent, Known, CacheKeys
    <2> QED BY <2>2, <2>3, <2>4 DEF RequestInv
  <1> QED BY <1>1, <1>2 DEF IInv

\* So does a step that changes nothing.
LEMMA StutterKeepsIInv ==
    ASSUME IInv, UNCHANGED vars
    PROVE  IInv'
  <1>1. TypeOK'
    BY DEF IInv, TypeOK, vars
  <1>2. ASSUME NEW r \in Requests PROVE RequestInv(r)'
    BY UntouchedKeepsInvariant DEF IInv, vars, Untouched
  <1> QED BY <1>1, <1>2 DEF IInv

\* Every reachable state satisfies the inductive invariant.
THEOREM Inductive == Spec => []IInv
  <1>1. Init => IInv
    BY InitEstablishesIInv
  <1>2. IInv /\ [Next]_vars => IInv'
    BY StepKeepsIInv, CrashKeepsIInv, StutterKeepsIInv DEF Next, Finished
  <1> QED BY <1>1, <1>2, PTL DEF Spec

-----------------------------------------------------------------------------
\* Every variable keeps its type: in particular no version passes 2, because
\* BumpVersion runs at most once for each user.
THEOREM TypeCorrect == Spec => []TypeOK
  <1>1. IInv => TypeOK
    BY DEF IInv
  <1> QED BY <1>1, Inductive, PTL

\* Both transactions are atomic as the committed rows show them, whatever
\* fails, crashes or overlaps.
THEOREM CommitsAreLegal == Spec => []CommittedStateLegal
  <1>1. IInv => CommittedStateLegal
    BY DEF IInv, TypeOK, RequestInv, RowsInPhase, CreateRows, LookupRows, RefreshRows,
       CommittedStateLegal, Phases, Steps, Services, CacheSteps
  <1> QED BY <1>1, Inductive, PTL

\* A 201 is sent only for a user whose verification e-mail is recorded as
\* sent in a committed transaction.
THEOREM AnswersAreTrue == Spec => []CreatedMeansDurable
  <1>1. IInv => CreatedMeansDurable
    BY DEF IInv, TypeOK, RequestInv, RowsInPhase, CreateRows, LookupRows, RefreshRows,
       CreatedMeansDurable, Phases
  <1> QED BY <1>1, Inductive, PTL

\* An entry with the committed version has the committed content: comparing
\* versions is enough to trust the cache.
THEOREM VersionsVouchForContent == Spec => []CacheTruth
  <1>1. IInv => CacheTruth
    <2> SUFFICES ASSUME IInv, NEW r \in Requests, NEW k \in CacheKeys,
                        cache[r][k].version = db[r].version
                 PROVE  cache[r][k] = View(db[r])
      BY DEF CacheTruth
    <2>1. db[r] \in {Absent, Created, Notified}
      BY DEF IInv, TypeOK, RequestInv, RowsInPhase, CreateRows, LookupRows, RefreshRows,
         Phases, Steps, Services, CacheSteps
    <2>2. cache[r][k] \in {NoEntry, View(Created), View(Notified)}
      BY DEF IInv, RequestInv, CacheContent, Known
    <2>3. View(Absent) = NoEntry
      BY DEF View, Absent, NoEntry
    <2>4. /\ NoEntry.version = 0 /\ View(Created).version = 1
          /\ View(Notified).version = 2 /\ Absent.version = 0
          /\ Created.version = 1 /\ Notified.version = 2
      BY DEF View, NoEntry, Absent, Created, Notified
    <2> QED BY <2>1, <2>2, <2>3, <2>4
  <1> QED BY <1>1, Inductive, PTL

\* Neither secondary key of the cache is ever ahead of the key by identifier.
THEOREM PrimaryKeyLeads == Spec => []SecondaryKeysNeverAhead
  <1>1. IInv => SecondaryKeysNeverAhead
    BY DEF IInv, RequestInv, CacheContent, SecondaryKeysNeverAhead
  <1> QED BY <1>1, Inductive, PTL

\* A request that is over holds no connection and no transaction.
THEOREM NothingLeaks == Spec => []NothingHeldAtRest
  <1>1. IInv => NothingHeldAtRest
    BY DEF IInv, TypeOK, RequestInv, Connections, Transactions, TransactionSteps,
       InFlight, NothingHeldAtRest, Tables, CacheSteps, CacheKeys
  <1> QED BY <1>1, Inductive, PTL

-----------------------------------------------------------------------------
\* Requests that wait for each other's connections hold their first ones only,
\* so the pool they wait at is the endpoint's and they fill it.
THEOREM CirclesTakeTheWholePool == Spec => []CirclesFillThePool
  <1>1. IInv => CirclesFillThePool
    <2> SUFFICES ASSUME IInv, NEW S \in SUBSET InFlight, WaitInCircle(S)
                 PROVE  /\ CreatePool = VerifyPool
                        /\ Cardinality({r \in S : Side(r) = "verify"}) >= Capacity
      BY DEF CirclesFillThePool
    <2> DEFINE Waiting == {r \in S : Side(r) = "verify"}
               Pool(r) == PoolOf(Side(r))
    <2>1. S \subseteq Requests /\ IsFiniteSet(Waiting)
      BY ConstantsAssumption, FS_Subset DEF InFlight
    <2>2. ASSUME NEW r \in S
          PROVE  /\ <<r, "verify">> \notin held
                 /\ <<r, "create">> \in held => r \in Waiting
      BY <2>1 DEF WaitInCircle, Blocked, IInv, RequestInv, Connections, Side
    <2>3. ASSUME NEW r \in S
          PROVE  Used(Pool(r)) \subseteq Waiting \X {"create"}
      <3> SUFFICES ASSUME NEW c \in Used(Pool(r))
                   PROVE  c \in Waiting \X {"create"}
        OBVIOUS
      <3>1. c[1] \in S
        BY DEF WaitInCircle
      <3>2. c \in held /\ c = <<c[1], c[2]>> /\ c[2] \in {"create", "verify"}
        BY DEF Used, IInv, TypeOK
      <3> QED
        BY <2>2, <3>1, <3>2
    <2>4. ASSUME NEW r \in S
          PROVE  Capacity <= Cardinality(Used(Pool(r)))
      BY DEF WaitInCircle, Blocked, Full
    <2> HIDE DEF Waiting
    <2>5. /\ IsFiniteSet(Waiting \X {"create"})
          /\ Cardinality(Waiting \X {"create"}) = Cardinality(Waiting)
      <3>1. IsFiniteSet({"create"}) /\ Cardinality({"create"}) = 1
        BY FS_Singleton
      <3>2. Cardinality(Waiting) \in Nat
        BY <2>1, FS_CardinalityType
      <3>3. /\ IsFiniteSet(Waiting \X {"create"})
            /\ Cardinality(Waiting \X {"create"})
                 = Cardinality(Waiting) * Cardinality({"create"})
        BY <2>1, <3>1, FS_Product
      <3> QED
        BY <3>1, <3>2, <3>3
    <2>6. PICK r \in S : TRUE
      BY DEF WaitInCircle
    <2>7. Capacity <= Cardinality(Waiting)
      <3>1. /\ IsFiniteSet(Used(Pool(r)))
            /\ Cardinality(Used(Pool(r))) <= Cardinality(Waiting)
        BY <2>3, <2>5, <2>6, FS_Subset
      <3> QED
        BY <2>1, <2>4, <2>6, <3>1, FS_CardinalityType, ConstantsAssumption
    <2>8. PICK w \in Waiting : TRUE
      BY <2>1, <2>7, FS_EmptySet, ConstantsAssumption
    <2>9. Used(VerifyPool) \subseteq Waiting \X {"create"} /\ Used(VerifyPool) # {}
      <3>1. w \in S /\ Pool(w) = VerifyPool
        BY DEF PoolOf, Waiting
      <3> QED
        BY <2>3, <2>4, <2>8, <3>1, FS_EmptySet, ConstantsAssumption
    <2>10. CreatePool = VerifyPool
      BY <2>9 DEF Used, PoolOf
    <2> QED
      BY <2>7, <2>10 DEF Waiting
  <1> QED BY <1>1, Inductive, PTL

\* Enough connections: the event handler draws from another pool than the
\* endpoint, or the one pool is larger than the number of requests.
PoolsSuffice == CreatePool # VerifyPool \/ Cardinality(Requests) < Capacity

\* Then requests never wait for each other in a circle.
THEOREM NobodyWaitsInACircle ==
    ASSUME PoolsSuffice
    PROVE  Spec => [](\A S \in SUBSET InFlight : ~ WaitInCircle(S))
  <1>1. CirclesFillThePool => \A S \in SUBSET InFlight : ~ WaitInCircle(S)
    <2> SUFFICES ASSUME CirclesFillThePool, NEW S \in SUBSET InFlight, WaitInCircle(S)
                 PROVE  FALSE
      OBVIOUS
    <2> DEFINE Waiting == {r \in S : Side(r) = "verify"}
    <2>1. CreatePool = VerifyPool /\ Cardinality(Waiting) >= Capacity
      BY DEF CirclesFillThePool
    <2>2. /\ Cardinality(Waiting) <= Cardinality(Requests)
          /\ Cardinality(Waiting) \in Nat /\ Cardinality(Requests) \in Nat
      <3>1. Waiting \subseteq Requests
        BY DEF InFlight
      <3> QED
        BY <3>1, ConstantsAssumption, FS_Subset, FS_CardinalityType
    <2> QED
      BY <2>1, <2>2, ConstantsAssumption DEF PoolsSuffice
  <1> QED BY <1>1, CirclesTakeTheWholePool, PTL

-----------------------------------------------------------------------------
\* CreateUser implements UserLifecycle.  A commit moves the account, the step
\* to "done" gives the answer, a crash loses the requests in flight, and every
\* other step is invisible to the client.

\* The three legal rows are three different accounts.
LEMMA AccountsDiffer ==
    Absent # Created /\ Absent # Notified /\ Created # Notified
  <1>1. Absent.version = 0 /\ Created.version = 1 /\ Notified.version = 2
    BY DEF Absent, Created, Notified
  <1> QED BY <1>1

\* No step but Commit changes what is committed.
LEMMA OnlyCommitChangesDb ==
    ASSUME NEW r \in Requests, IInv, Arrive(r) \/ Step(r)
    PROVE  /\ pc[r] \notin {"done", "dead"}
           /\ pc'[r] # "dead"
           /\ db' = db \/ Commit(r)
           /\ Commit(r) => pc'[r] # "done"
  BY DEF IInv, TypeOK, Arrive, Step, Transact, UseRedis, Connect, ConnectFails,
     Release, Prepare, Begin, Insert, Respond, Validate, MarkSent, BumpVersion,
     Commit, Acknowledge, CommitFails, Rollback, Notify, SendEmail, ServiceFails,
     Open, Get, Compare, Load, Put, PutRefused, PutThrows, RedisFails, Close,
     CloseThrows, Goto, Fail, Unwind, Services, Tables, CacheKeys, Phases,
     AfterConnect, AfterBegin, AfterInsert, AfterSet, AfterCache, AfterCommit

\* A step of one request changes neither the account nor the answer of another.
LEMMA OthersKeepAccountAndAnswer ==
    ASSUME NEW r \in Requests, NEW q \in Requests \ {r}, IInv, Arrive(r) \/ Step(r)
    PROVE  Account'[q] = Account[q] /\ Answer'[q] = Answer[q]
  BY StepTouchesOnlyItsRequest DEF IInv, Untouched, Account, Answer

\* Every step of a request is a step of the lifecycle or invisible to it.
LEMMA StepImplements ==
    ASSUME NEW r \in Requests, IInv, Arrive(r) \/ Step(r)
    PROVE  [Lifecycle!Next]_(Lifecycle!vars)
  <1>1. \A q \in Requests \ {r} : Account'[q] = Account[q] /\ Answer'[q] = Answer[q]
    BY OthersKeepAccountAndAnswer
  <1>2. Answer[r] = "none"
    BY OnlyCommitChangesDb DEF Answer, AnswerOf
  <1>3. CASE Commit(r)
    <2>1. Answer'[r] = "none"
      BY <1>3, OnlyCommitChangesDb DEF Answer, AnswerOf
    <2>2. Answer' = Answer
      BY <1>1, <1>2, <2>1 DEF Answer
    <2>3. \/ db[r] = Absent /\ db'[r] = Created
          \/ db[r] = Created /\ db'[r] = Notified
      BY <1>3 DEF IInv, TypeOK, RequestInv, RowsInPhase, CreateRows, LookupRows,
         RefreshRows, Commit, Phases, CacheSteps, CacheKeys
    <2>4. \/ Account[r] = "absent" /\ Account'[r] = "created"
          \/ Account[r] = "created" /\ Account'[r] = "notified"
      BY <2>3, AccountsDiffer DEF Account, AccountOf
    <2>5. Account' = [Account EXCEPT ![r] = Account'[r]]
      BY <1>1 DEF Account
    <2>6. Lifecycle!Create(r) \/ Lifecycle!Notify(r)
      BY <1>2, <2>2, <2>4, <2>5 DEF Lifecycle!Create, Lifecycle!Notify, Lifecycle!Advance
    <2> QED BY <2>6 DEF Lifecycle!Next
  <1>4. CASE db' = db /\ pc'[r] = "done"
    <2>1. Account' = Account
      BY <1>4 DEF Account
    <2>2. Answer' = [Answer EXCEPT ![r] = Answer'[r]]
      BY <1>1 DEF Answer
    <2>3. CASE status'[r] = "ok"
      <3>1. db'[r] = Notified
        BY <1>4, <2>3, StepKeepsIInv DEF IInv, TypeOK, RequestInv, RowsInPhase, CreateRows,
           LookupRows, RefreshRows, Phases
      <3>2. Account[r] = "notified" /\ Answer'[r] = "created"
        BY <1>4, <2>3, <3>1, AccountsDiffer DEF Account, AccountOf, Answer, AnswerOf
      <3> QED
        BY <1>2, <2>1, <2>2, <3>2 DEF Lifecycle!Next, Lifecycle!AnswerCreated
    <2>4. CASE status'[r] # "ok"
      <3>1. Answer'[r] = "error"
        BY <1>4, <2>4 DEF Answer, AnswerOf
      <3> QED
        BY <1>2, <2>1, <2>2, <3>1 DEF Lifecycle!Next, Lifecycle!AnswerError
    <2> QED BY <2>3, <2>4
  <1>5. CASE db' = db /\ pc'[r] # "done"
    <2>1. Account' = Account
      BY <1>5 DEF Account
    <2>2. Answer'[r] = "none"
      BY <1>5, OnlyCommitChangesDb DEF Answer, AnswerOf
    <2>3. Answer' = Answer
      BY <1>1, <1>2, <2>2 DEF Answer
    <2> QED BY <2>1, <2>3 DEF Lifecycle!vars
  <1> QED BY <1>3, <1>4, <1>5, OnlyCommitChangesDb

\* A crash is the loss of the answers of the requests in flight.
LEMMA CrashImplements ==
    ASSUME IInv, Crash
    PROVE  [Lifecycle!Next]_(Lifecycle!vars)
  <1>1. Account' = Account
    BY DEF Crash, Account
  <1>2. \A r \in InFlight : Answer[r] = "none"
    BY DEF InFlight, Answer, AnswerOf
  <1>3. Answer' = [r \in Requests |-> IF r \in InFlight THEN "lost" ELSE Answer[r]]
    BY DEF IInv, TypeOK, Crash, InFlight, Answer, AnswerOf
  <1>4. Lifecycle!Lose(InFlight)
    BY <1>1, <1>2, <1>3 DEF Lifecycle!Lose
  <1> QED BY <1>4 DEF Lifecycle!Next, InFlight

\* Every behaviour of the endpoint and of the event handlers it waits for is
\* one the client-level specification allows.
THEOREM EndpointImplementsLifecycle == Spec => ImplementsLifecycle
  <1>1. Init => Lifecycle!Init
    <2> SUFFICES ASSUME Init PROVE Lifecycle!Init
      OBVIOUS
    <2>1. AccountOf(Absent) = "absent" /\ AnswerOf("idle", "ok") = "none"
      BY AccountsDiffer DEF AccountOf, AnswerOf
    <2>2. Account = [r \in Requests |-> "absent"] /\ Answer = [r \in Requests |-> "none"]
      BY <2>1 DEF Init, Account, Answer
    <2> QED BY <2>2 DEF Lifecycle!Init
  <1>2. IInv /\ [Next]_vars => [Lifecycle!Next]_(Lifecycle!vars)
    <2>1. CASE UNCHANGED vars
      BY <2>1 DEF vars, Lifecycle!vars, Account, Answer
    <2> QED
      BY <2>1, StepImplements, CrashImplements DEF Next, Finished
  <1> QED
    BY <1>1, <1>2, Inductive, PTL DEF Spec, ImplementsLifecycle, Lifecycle!Spec

\* What the client-level specification is for: an answer is final.
LEMMA LifecycleAnswersOnce ==
    ASSUME NEW r \in Requests, Answer[r] # "none", [Lifecycle!Next]_(Lifecycle!vars)
    PROVE  Answer'[r] = Answer[r] /\ Account'[r] = Account[r]
  <1>1. /\ Answer = [q \in Requests |-> Answer[q]]
        /\ Account = [q \in Requests |-> Account[q]]
    BY DEF Answer, Account
  <1>2. ASSUME NEW q \in Requests, Lifecycle!Create(q) \/ Lifecycle!Notify(q)
        PROVE  Answer'[r] = Answer[r] /\ Account'[r] = Account[r]
    BY <1>1, <1>2 DEF Lifecycle!Create, Lifecycle!Notify, Lifecycle!Advance
  <1>3. ASSUME NEW q \in Requests, Lifecycle!AnswerCreated(q) \/ Lifecycle!AnswerError(q)
        PROVE  Answer'[r] = Answer[r] /\ Account'[r] = Account[r]
    BY <1>1, <1>3 DEF Lifecycle!AnswerCreated, Lifecycle!AnswerError
  <1>4. ASSUME NEW served \in SUBSET Requests, Lifecycle!Lose(served)
        PROVE  Answer'[r] = Answer[r] /\ Account'[r] = Account[r]
    BY <1>4 DEF Lifecycle!Lose
  <1>5. CASE UNCHANGED Lifecycle!vars
    BY <1>5 DEF Lifecycle!vars
  <1> QED BY <1>2, <1>3, <1>4, <1>5 DEF Lifecycle!Next

\* A client that has its answer, or has lost its connection, finds the account for
\* ever as it was at that moment: nothing of the request goes on in the
\* background, and no crash takes an answer back.
THEOREM AnswersAreFinal ==
    Spec => [][\A r \in Requests :
                  Answer[r] # "none" =>
                      Answer'[r] = Answer[r] /\ Account'[r] = Account[r]]_vars
  <1>1. [Lifecycle!Next]_(Lifecycle!vars) =>
            [\A r \in Requests :
                Answer[r] # "none" =>
                    Answer'[r] = Answer[r] /\ Account'[r] = Account[r]]_vars
    BY LifecycleAnswersOnce
  <1> QED
    BY <1>1, EndpointImplementsLifecycle, PTL DEF ImplementsLifecycle, Lifecycle!Spec

-----------------------------------------------------------------------------
\* When nothing fails.

\* The steps in which nothing goes wrong.
Succeeds(r) ==
    \/ Arrive(r)
    \/ Connect(r) \/ Release(r) \/ Prepare(r) \/ Begin(r) \/ Insert(r) \/ Respond(r)
    \/ Validate(r) \/ MarkSent(r) \/ BumpVersion(r)
    \/ Commit(r) \/ Acknowledge(r) \/ Rollback(r) \/ Notify(r) \/ SendEmail(r)
    \/ Compare(r) \/ Load(r)
    \/ Open(r) \/ Get(r) \/ Put(r) \/ Close(r)

LEMMA UntouchedStaysSmooth ==
    ASSUME NEW q \in Requests, Untouched(q)
    PROVE  Smooth(q)' <=> Smooth(q)
  BY DEF Untouched, Smooth, Holds

\* Where a handler may be, and what rows it sees there.
LEMMA PlacesInPhase ==
    ASSUME NEW r \in Requests, IInv
    PROVE  /\ phase[r] \in Phases /\ pc[r] \in Steps
           /\ pc[r] \in Tables \cup {"idle", "prepare", "respond", "notify", "sendEmail"} =>
                 phase[r] = "create"
           /\ pc[r] \in {"validate", "markSent", "bumpVersion"} => phase[r] = "lookup"
           /\ pc[r] \in {"connect", "begin"} => phase[r] # "refresh"
           /\ pc[r] \in {"commit", "acknowledge"} => phase[r] # "lookup"
           /\ pc[r] \in CacheSteps =>
                 work[r] = IF phase[r] = "refresh" THEN Notified ELSE Created
  BY DEF IInv, TypeOK, RequestInv, RowsInPhase, CreateRows, LookupRows, RefreshRows, Phases,
         CacheSteps, CacheKeys, Tables

\* The three cached objects are three.
LEMMA ViewsDiffer ==
    /\ View(Created) = [version |-> 1, sent |-> FALSE]
    /\ View(Notified) = [version |-> 2, sent |-> TRUE]
    /\ NoEntry # View(Created) /\ NoEntry # View(Notified)
    /\ Created.version = 1 /\ Notified.version = 2
  BY DEF View, Created, Notified, NoEntry

\* The steps that leave the cache and the phase alone.
PlainStep(r) ==
    \/ Arrive(r) \/ Connect(r) \/ Release(r) \/ Prepare(r) \/ Begin(r) \/ Insert(r)
    \/ Respond(r) \/ Validate(r) \/ MarkSent(r) \/ Commit(r) \/ Acknowledge(r)
    \/ Notify(r) \/ Open(r) \/ Close(r)

LEMMA PlainStepStaysSmooth ==
    ASSUME NEW r \in Requests, IInv, Smooth(r), PlainStep(r)
    PROVE  Smooth(r)'
  <1>1. UNCHANGED <<phase, status, cache>>
    BY DEF PlainStep, Arrive, Connect, Release, Prepare, Begin, Insert, Respond, Validate,
       MarkSent, Commit, Acknowledge, Notify, Open, Close
  <1>2. pc \in [Requests -> Steps] /\ status[r] = "ok"
    BY DEF IInv, TypeOK, Smooth
  <1>3. CASE phase[r] = "create"
    <2>1. /\ pc'[r] # "compare"
          /\ pc'[r] \in Tables \cup {"idle", "connect", "prepare", "begin", "respond",
                                    "init", "get", "load", "identifier"} =>
                pc[r] \in Tables \cup {"idle", "connect", "prepare", "begin", "respond",
                                    "init", "get", "load", "identifier"}
          /\ pc'[r] \in {"disconnect", "commit", "acknowledge", "notify", "sendEmail"} =>
                pc[r] \in {"disconnect", "commit", "acknowledge", "notify", "sendEmail"}
      BY <1>2, <1>3, PlacesInPhase
         DEF PlainStep, Arrive, Connect, Release, Prepare, Begin, Insert, Respond, Validate,
             MarkSent, Commit, Acknowledge, Notify, Open, Close, Goto, Smooth,
             AfterConnect, AfterBegin, AfterInsert, AfterCache, AfterCommit, Phases, Tables
    <2> QED BY <1>1, <1>2, <1>3, <2>1 DEF Smooth, Holds
  <1>4. CASE phase[r] = "lookup"
    <2>1. pc'[r] \notin {"load", "compare"} \cup CacheKeys
      BY <1>2, <1>4, PlacesInPhase
         DEF PlainStep, Arrive, Connect, Release, Prepare, Begin, Insert, Respond, Validate,
             MarkSent, Commit, Acknowledge, Notify, Open, Close, Goto, Smooth,
             AfterConnect, AfterBegin, AfterInsert, AfterCache, AfterCommit, Phases, Tables,
             CacheKeys
    <2> QED BY <1>1, <1>2, <1>4, <2>1 DEF Smooth, Holds
  <1>5. CASE phase[r] = "refresh"
    <2>1. /\ pc'[r] # "compare"
          /\ pc'[r] \in {"init", "get"} => pc[r] \in {"init", "get"}
          /\ pc'[r] \in {"disconnect", "commit", "acknowledge", "release", "done"} =>
                pc[r] \in {"disconnect", "commit", "acknowledge", "release", "done"}
      BY <1>2, <1>5, PlacesInPhase
         DEF PlainStep, Arrive, Connect, Release, Prepare, Begin, Insert, Respond, Validate,
             MarkSent, Commit, Acknowledge, Notify, Open, Close, Goto, Smooth,
             AfterConnect, AfterBegin, AfterInsert, AfterCache, AfterCommit, Phases, Tables
    <2> QED BY <1>1, <1>2, <1>5, <2>1 DEF Smooth, Holds
  <1> QED BY <1>3, <1>4, <1>5, PlacesInPhase DEF Phases

\* A request to which nothing has gone wrong goes on like that.
LEMMA SucceedsStaysSmooth ==
    ASSUME NEW r \in Requests, IInv, Smooth(r), Succeeds(r)
    PROVE  Smooth(r)'
  <1>1. /\ pc \in [Requests -> Steps] /\ phase \in [Requests -> Phases]
        /\ status[r] = "ok"
        /\ user \in [Requests -> Views] /\ cache \in [Requests -> [CacheKeys -> Views]]
    BY DEF IInv, TypeOK, Smooth
  <1>2. CASE PlainStep(r)
    BY <1>2, PlainStepStaysSmooth
  <1>3. CASE Rollback(r)
    BY <1>1, <1>3 DEF Rollback, IInv, RequestInv, Statuses
  <1>4. CASE SendEmail(r)
    <2>1. /\ phase[r] = "create" /\ pc[r] = "sendEmail"
          /\ phase'[r] = "lookup" /\ pc'[r] = "connect" /\ UNCHANGED <<status, cache>>
      BY <1>1, <1>4, PlacesInPhase DEF SendEmail, Goto
    <2> QED BY <1>1, <2>1 DEF Smooth, Holds, CacheKeys
  <1>5. CASE BumpVersion(r)
    <2>1. /\ phase[r] = "lookup"
          /\ phase'[r] = "refresh" /\ pc'[r] = "init" /\ UNCHANGED <<status, cache>>
      BY <1>1, <1>5, PlacesInPhase DEF BumpVersion, Goto
    <2> QED BY <1>1, <2>1 DEF Smooth, Holds
  <1>6. CASE Get(r)
    <2>1. /\ pc[r] = "get" /\ UNCHANGED <<phase, status, cache>>
          /\ user'[r] = cache[r]["identifier"]
          /\ pc'[r] = IF user'[r] = NoEntry THEN "load" ELSE "compare"
      BY <1>1, <1>6 DEF Get, Goto
    <2>2. CASE phase[r] = "create"
      <3>1. pc'[r] = "load" /\ \A k \in CacheKeys : cache[r][k] = NoEntry
        BY <2>1, <2>2 DEF Smooth, CacheKeys
      <3> QED BY <1>1, <2>1, <2>2, <3>1 DEF Smooth, Holds
    <2>3. CASE phase[r] \in {"lookup", "refresh"}
      <3>1. Holds(r, Created) /\ user'[r] = View(Created)
        BY <2>1, <2>3 DEF Smooth, Holds, CacheKeys
      <3>2. pc'[r] = "compare"
        BY <2>1, <3>1, ViewsDiffer
      <3> QED BY <1>1, <2>1, <2>3, <3>1, <3>2 DEF Smooth, Holds, CacheKeys
    <2> QED BY <1>1, <2>2, <2>3 DEF Phases
  <1>7. CASE Compare(r)
    <2>1. /\ pc[r] = "compare" /\ UNCHANGED <<phase, status, cache, user>>
          /\ pc'[r] = IF work[r].version # user[r].version THEN "load" ELSE "disconnect"
          /\ phase[r] # "create" /\ user[r] = View(Created)
      BY <1>1, <1>7 DEF Compare, Goto, Smooth, Phases
    <2>2. work[r] = IF phase[r] = "refresh" THEN Notified ELSE Created
      BY <2>1, PlacesInPhase DEF CacheSteps
    <2>3. CASE phase[r] = "lookup"
      <3>1. pc'[r] = "disconnect"
        BY <2>1, <2>2, <2>3, ViewsDiffer
      <3> QED BY <1>1, <2>1, <2>3, <3>1 DEF Smooth, Holds, CacheKeys
    <2>4. CASE phase[r] = "refresh"
      <3>1. pc'[r] = "load"
        BY <2>1, <2>2, <2>4, ViewsDiffer
      <3> QED BY <1>1, <2>1, <2>4, <3>1 DEF Smooth, Holds, CacheKeys
    <2> QED BY <1>1, <2>1, <2>3, <2>4 DEF Phases
  <1>8. CASE Load(r)
    <2>1. /\ pc[r] = "load" /\ UNCHANGED <<phase, status, cache>>
          /\ pc'[r] = "identifier"
      BY <1>1, <1>8 DEF Load, Goto
    <2> QED BY <1>1, <2>1 DEF Smooth, Holds, CacheKeys
  <1>9. CASE Put(r)
    <2>1. /\ pc[r] \in CacheKeys /\ UNCHANGED <<phase, status, user>>
          /\ pc'[r] = AfterSet[pc[r]] /\ phase[r] # "lookup"
          /\ cache'[r] = [cache[r] EXCEPT ![pc[r]] = user[r]]
          /\ cache[r] \in [CacheKeys -> Views]
      BY <1>1, <1>9 DEF Put, Goto, Smooth
    <2>2. CASE pc[r] \in {"identifier", "clientId"}
      <3>1. pc'[r] \in {"clientId", "email"}
        BY <2>1, <2>2 DEF AfterSet, CacheKeys
      <3> QED BY <1>1, <2>1, <3>1 DEF Smooth, Tables, CacheKeys
    <2>3. CASE pc[r] = "email"
      <3>1. /\ user[r] = View(work[r])
            /\ cache[r]["identifier"] = user[r] /\ cache[r]["clientId"] = user[r]
        BY <2>1, <2>3 DEF IInv, RequestInv, CacheContent
      <3>2. pc'[r] = "disconnect"
        BY <2>1, <2>3 DEF AfterSet, CacheKeys
      <3>3. \A k \in CacheKeys : cache'[r][k] = user[r]
        BY <2>1, <2>3, <3>1 DEF CacheKeys
      <3>4. work[r] = IF phase[r] = "refresh" THEN Notified ELSE Created
        BY <2>1, PlacesInPhase DEF CacheSteps
      <3> QED BY <1>1, <2>1, <3>1, <3>2, <3>3, <3>4 DEF Smooth, Holds, Tables
    <2> QED BY <2>1, <2>2, <2>3 DEF CacheKeys
  <1> QED
    BY <1>2, <1>3, <1>4, <1>5, <1>6, <1>7, <1>8, <1>9 DEF Succeeds, PlainStep

\* A smooth request that is over has been answered 201, with its user in the
\* database and under all three keys.
LEMMA SmoothMeansCreated ==
    ASSUME NEW r \in Requests, IInv, Smooth(r), pc[r] = "done"
    PROVE  /\ status[r] = "ok"
           /\ \A k \in CacheKeys : cache[r][k] = View(db[r])
  <1>1. status[r] = "ok" /\ phase[r] \in Phases /\ RowsInPhase(r)
    BY DEF Smooth, IInv, TypeOK, RequestInv
  <1>2. phase[r] = "refresh" /\ db[r] = Notified
    BY <1>1 DEF RowsInPhase, CreateRows, LookupRows, RefreshRows, Phases
  <1> QED BY <1>1, <1>2 DEF Smooth, Holds

LEMMA SmoothInitially == Init => \A r \in Requests : Smooth(r)
  BY DEF Init, Smooth, Holds

\* With every service healthy no interleaving of requests, over however few
\* connections, ends in anything but a 201 that leaves the committed user under
\* all three keys (the safety half of AllServicesPassed).
THEOREM HealthyRequestsSucceed ==
    ASSUME Faults = {}
    PROVE  Spec => [](\A r \in Requests : pc[r] = "done" =>
                         /\ status[r] = "ok"
                         /\ \A k \in CacheKeys : cache[r][k] = View(db[r]))
  <1> DEFINE AllSmooth == \A r \in Requests : Smooth(r)
  <1>1. ASSUME IInv, AllSmooth, [Next]_vars PROVE AllSmooth'
    <2>1. CASE UNCHANGED vars
      BY <1>1, <2>1, UntouchedStaysSmooth DEF vars, Untouched
    <2>2. ASSUME NEW r \in Requests, Arrive(r) \/ Step(r) PROVE AllSmooth'
      <3>1. Succeeds(r)
        BY <2>2 DEF Step, Transact, UseRedis, Succeeds, ConnectFails, CommitFails,
           ServiceFails, RedisFails, PutRefused, PutThrows, CloseThrows
      <3>2. Smooth(r)'
        BY <1>1, <3>1, SucceedsStaysSmooth
      <3>3. ASSUME NEW q \in Requests \ {r} PROVE Smooth(q)'
        <4>1. Untouched(q)
          BY <1>1, <2>2, StepTouchesOnlyItsRequest DEF IInv
        <4> QED BY <1>1, <4>1, UntouchedStaysSmooth
      <3> QED BY <3>2, <3>3
    <2>3. CASE Crash
      BY <2>3 DEF Crash
    <2> QED BY <1>1, <2>1, <2>2, <2>3 DEF Next, Finished
  <1>2. ASSUME IInv, AllSmooth
        PROVE  \A r \in Requests : pc[r] = "done" =>
                   /\ status[r] = "ok"
                   /\ \A k \in CacheKeys : cache[r][k] = View(db[r])
    BY <1>2, SmoothMeansCreated
  <1>3. Init => AllSmooth
    BY SmoothInitially
  <1> HIDE DEF AllSmooth
  <1> QED BY <1>1, <1>2, <1>3, Inductive, PTL DEF Spec
=============================================================================
