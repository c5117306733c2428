----------------------------- MODULE CreateUser -----------------------------
(***************************************************************************)
(* POST /users from its first database connection to its answer: the create *)
(* transaction, the cache fill inside it, and the chain of in-process       *)
(* events that opens a second connection and a second transaction while the *)
(* first connection is still held.                                          *)
(*                                                                          *)
(* Every request creates its own user (fresh identifiers), so requests      *)
(* share only the connection pools and the process that may die.  The       *)
(* client object they also share inside RedisHelper is the business of      *)
(* RedisHelper.tla; here a cache call succeeds or fails in every way that   *)
(* object can make it fail.                                                 *)
(***************************************************************************)
EXTENDS Integers, FiniteSets

CONSTANTS
    Requests,               \* the requests that may reach the endpoint
    CreatePool, VerifyPool, \* the pools the two getQueryRunner() draw from
    Capacity,               \* connections in each pool
    Faults                  \* the kinds of failure that may happen

ASSUME ConstantsAssumption ==
    /\ IsFiniteSet(Requests)
    /\ Capacity \in Nat \ {0}
    /\ Faults \subseteq {"connect", "service", "redis", "commit", "crash"}

Tables == {"users", "keys", "settings", "communication", "credentials"}
CacheKeys == {"identifier", "clientId", "email"}

\* "create" is the endpoint's handler; "lookup" and "refresh" are the part of
\* the isVerificationEmailUpdate handler before and after its two updates.
Phases == {"create", "lookup", "refresh"}

Services == {"prepare", "begin", "respond", "compare", "load", "notify",
             "sendEmail", "validate", "markSent", "bumpVersion"} \cup Tables

Steps == {"idle", "connect", "init", "get", "disconnect", "commit",
          "acknowledge", "rollback", "release", "done", "dead"}
            \cup Services \cup CacheKeys

Rows == [tables : SUBSET Tables, version : 0 .. 2, sent : BOOLEAN]
Absent == [tables |-> {}, version |-> 0, sent |-> FALSE]
Created == [tables |-> Tables, version |-> 1, sent |-> FALSE]
Notified == [tables |-> Tables, version |-> 2, sent |-> TRUE]

\* What the application reads of a user: version and isVerificationEmailSent.
Views == [version : 0 .. 2, sent : BOOLEAN]
NoEntry == [version |-> 0, sent |-> FALSE]

View(row) == [version |-> row.version, sent |-> row.sent]

VARIABLES
    pc,         \* pc[r]: the await the request is at
    phase,      \* phase[r]: which handler, and which half of it
    status,     \* status[r]: "error" once a handler has failed
    held,       \* <<request, "create" | "verify">>: connections checked out
    active,     \* requests with isTransactionActive on their query runner
    work,       \* work[r]: the user's rows as request r's connection sees them
    db,         \* db[r]: the user's rows as committed
    cache,      \* cache[r][k]: the user as Redis holds it under each key
    user        \* user[r]: the user object in the hands of the cache service

vars == <<pc, phase, status, held, active, work, db, cache, user>>

Init ==
    /\ pc = [r \in Requests |-> "idle"]
    /\ phase = [r \in Requests |-> "create"]
    /\ status = [r \in Requests |-> "ok"]
    /\ held = {}
    /\ active = {}
    /\ work = [r \in Requests |-> Absent]
    /\ db = [r \in Requests |-> Absent]
    /\ cache = [r \in Requests |-> [k \in CacheKeys |-> NoEntry]]
    /\ user = [r \in Requests |-> NoEntry]

-----------------------------------------------------------------------------
\* Control flow shared by the handlers.

Goto(r, step) == pc' = [pc EXCEPT ![r] = step]

Fail(r, step) ==
    /\ Goto(r, step)
    /\ status' = [status EXCEPT ![r] = "error"]

\* Variant: the event's services connect a query runner of their own.
AfterConnectAgain == [p \in Phases |-> IF p = "create" THEN "prepare" ELSE "connect"]

AfterConnect == [p \in Phases |-> IF p = "create" THEN "prepare" ELSE "validate"]

AfterBegin == [p \in Phases |-> IF p = "create" THEN "users" ELSE "init"]

AfterInsert ==
    [t \in Tables |-> CASE t = "users"         -> "keys"
                        [] t = "keys"          -> "settings"
                        [] t = "settings"      -> "communication"
                        [] t = "communication" -> "credentials"
                        [] t = "credentials"   -> "respond"]

AfterSet ==
    [k \in CacheKeys |-> CASE k = "identifier" -> "clientId"
                           [] k = "clientId"   -> "email"
                           [] k = "email"      -> "disconnect"]

AfterCache == [p \in Phases |-> IF p = "lookup" THEN "markSent" ELSE "commit"]

\* Variant: the publish is not awaited.
AfterCommitUnawaited == [p \in Phases |-> "release"]

AfterCommit == [p \in Phases |-> IF p = "create" THEN "notify" ELSE "release"]

-----------------------------------------------------------------------------
\* Variants with a plausible bug; no action uses them.  Each makes one of the
\* properties below fail, which shows that the property depends on the code.

\* No rollback before the connection goes back to its pool.
UnwindWithoutRollback(r) == "release"

\* (The code.) Where catch and finally take a handler that failed outside the
\* cache service: roll back if a transaction is open, then release.
Unwind(r) == IF r \in active THEN "rollback" ELSE "release"

\* No finally.
ReleaseForgotten(r) ==
    /\ pc[r] = "release"
    /\ Goto(r, "done")
    /\ UNCHANGED <<phase, status, held, active, work, db, cache, user>>

\* The isErr() check after an insert is dropped.
InsertUnchecked(r) ==
    /\ pc[r] \in Tables
    /\ work' \in {work,
                   [work EXCEPT ![r].tables = @ \cup {pc[r]}, ![r].version = 1]}
    /\ Goto(r, AfterInsert[pc[r]])
    /\ UNCHANGED <<phase, status, held, active, db, cache, user>>

\* Settings are updated, the version the cache compares is not.
BumpVersionForgotten(r) ==
    /\ pc[r] = "bumpVersion"
    /\ phase' = [phase EXCEPT ![r] = "refresh"]
    /\ Goto(r, "init")
    /\ UNCHANGED <<status, held, active, work, db, cache, user>>

\* The event handlers log what they catch and do not rethrow it.
ServiceFailsSwallowed(r) ==
    /\ "service" \in Faults
    /\ pc[r] \in Services
    /\ IF pc[r] \in {"notify", "sendEmail"}
         THEN Goto(r, "release") /\ UNCHANGED status
         ELSE Fail(r, IF pc[r] \in {"compare", "load"} THEN "disconnect"
                                                      ELSE Unwind(r))
    /\ UNCHANGED <<phase, held, active, work, db, cache, user>>

-----------------------------------------------------------------------------
\* Connections.

Side(r) == IF phase[r] = "create" THEN "create" ELSE "verify"

\* Variant: the event handler takes the endpoint's getQueryRunner().
PoolOfOne(side) == CreatePool

PoolOf(side) == IF side = "create" THEN CreatePool ELSE VerifyPool

Used(pool) == {c \in held : PoolOf(c[2]) = pool}

Full(pool) == Cardinality(Used(pool)) >= Capacity

Arrive(r) ==
    /\ pc[r] = "idle"
    /\ Goto(r, "connect")
    /\ UNCHANGED <<phase, status, held, active, work, db, cache, user>>

Connect(r) ==
    /\ pc[r] = "connect"
    /\ ~ Full(PoolOf(Side(r)))
    /\ held' = held \cup {<<r, Side(r)>>}
    /\ Goto(r, AfterConnect[phase[r]])
    /\ UNCHANGED <<phase, status, active, work, db, cache, user>>

\* connect() stands before the try of both handlers: the endpoint's failure
\* leaves at once, the event handler's is caught by the endpoint.
ConnectFails(r) ==
    /\ "connect" \in Faults
    /\ pc[r] = "connect"
    /\ Fail(r, IF phase[r] = "create" THEN "done" ELSE "release")
    /\ UNCHANGED <<phase, held, active, work, db, cache, user>>

\* finally: the event handler's connection first, then the endpoint's.
Release(r) ==
    /\ pc[r] = "release"
    /\ IF <<r, "verify">> \in held
         THEN /\ held' = held \ {<<r, "verify">>}
              /\ UNCHANGED pc
         ELSE /\ held' = held \ {<<r, "create">>}
              /\ Goto(r, "done")
    /\ UNCHANGED <<phase, status, active, work, db, cache, user>>

-----------------------------------------------------------------------------
\* The transactions.

Prepare(r) ==
    /\ pc[r] = "prepare"
    /\ Goto(r, "begin")
    /\ UNCHANGED <<phase, status, held, active, work, db, cache, user>>

Begin(r) ==
    /\ pc[r] = "begin"
    /\ active' = active \cup {r}
    /\ Goto(r, AfterBegin[phase[r]])
    /\ UNCHANGED <<phase, status, held, work, db, cache, user>>

\* The new users row carries version 1.
Insert(r) ==
    /\ pc[r] \in Tables
    /\ work' = [work EXCEPT
                  ![r] = [tables  |-> @.tables \cup {pc[r]},
                          version |-> IF pc[r] = "users" THEN 1 ELSE @.version,
                          sent    |-> @.sent]]
    /\ Goto(r, AfterInsert[pc[r]])
    /\ UNCHANGED <<phase, status, held, active, db, cache, user>>

Respond(r) ==
    /\ pc[r] = "respond"
    /\ Goto(r, "init")
    /\ UNCHANGED <<phase, status, held, active, work, db, cache, user>>

Validate(r) ==
    /\ pc[r] = "validate"
    /\ Goto(r, "begin")
    /\ UNCHANGED <<phase, status, held, active, work, db, cache, user>>

MarkSent(r) ==
    /\ pc[r] = "markSent"
    /\ work' = [work EXCEPT ![r].sent = TRUE]
    /\ Goto(r, "bumpVersion")
    /\ UNCHANGED <<phase, status, held, active, db, cache, user>>

BumpVersion(r) ==
    /\ pc[r] = "bumpVersion"
    /\ work' = [work EXCEPT ![r].version = @ + 1]
    /\ phase' = [phase EXCEPT ![r] = "refresh"]
    /\ Goto(r, "init")
    /\ UNCHANGED <<status, held, active, db, cache, user>>

\* COMMIT takes effect in the database before the application hears of it.
Commit(r) ==
    /\ pc[r] = "commit"
    /\ db' = [db EXCEPT ![r] = work[r]]
    /\ Goto(r, "acknowledge")
    /\ UNCHANGED <<phase, status, held, active, work, cache, user>>

Acknowledge(r) ==
    /\ pc[r] = "acknowledge"
    /\ active' = active \ {r}
    /\ Goto(r, AfterCommit[phase[r]])
    /\ UNCHANGED <<phase, status, held, work, db, cache, user>>

\* COMMIT fails, or it succeeds and its reply is lost: the handler cannot
\* tell the two apart.
CommitFails(r) ==
    /\ "commit" \in Faults
    /\ pc[r] \in {"commit", "acknowledge"}
    /\ Fail(r, "rollback")
    /\ UNCHANGED <<phase, held, active, work, db, cache, user>>

Rollback(r) ==
    /\ pc[r] = "rollback"
    /\ active' = active \ {r}
    /\ work' = [work EXCEPT ![r] = db[r]]
    /\ Goto(r, "release")
    /\ UNCHANGED <<phase, status, held, db, cache, user>>

\* Each publish is awaited by the handler that makes it: the endpoint waits for
\* UserCreated, which waits for userVerificationTokenEmail ...
Notify(r) ==
    /\ pc[r] = "notify"
    /\ Goto(r, "sendEmail")
    /\ UNCHANGED <<phase, status, held, active, work, db, cache, user>>

\* ... which validates, calls the e-mail service and waits for
\* isVerificationEmailUpdate.
SendEmail(r) ==
    /\ pc[r] = "sendEmail"
    /\ phase' = [phase EXCEPT ![r] = "lookup"]
    /\ Goto(r, "connect")
    /\ UNCHANGED <<status, held, active, work, db, cache, user>>

\* A service that returns Err and one that throws end the handler alike; the
\* two inside the cache service pass its finally first.
ServiceFails(r) ==
    /\ "service" \in Faults
    /\ pc[r] \in Services
    /\ Fail(r, IF pc[r] \in {"compare", "load"} THEN "disconnect" ELSE Unwind(r))
    /\ UNCHANGED <<phase, held, active, work, db, cache, user>>

-----------------------------------------------------------------------------
\* The shared cache service: UserSharedCacheService.handleAsync.

Open(r) ==
    /\ pc[r] = "init"
    /\ Goto(r, "get")
    /\ UNCHANGED <<phase, status, held, active, work, db, cache, user>>

\* Only the key by identifier is read; a miss skips the version check.
Get(r) ==
    /\ pc[r] = "get"
    /\ user' = [user EXCEPT ![r] = cache[r]["identifier"]]
    /\ Goto(r, IF user'[r] = NoEntry THEN "load" ELSE "compare")
    /\ UNCHANGED <<phase, status, held, active, work, db, cache>>

Compare(r) ==
    /\ pc[r] = "compare"
    /\ Goto(r, IF work[r].version # user[r].version THEN "load" ELSE "disconnect")
    /\ UNCHANGED <<phase, status, held, active, work, db, cache, user>>

Load(r) ==
    /\ pc[r] = "load"
    /\ user' = [user EXCEPT ![r] = View(work[r])]
    /\ Goto(r, "identifier")
    /\ UNCHANGED <<phase, status, held, active, work, db, cache>>

Put(r) ==
    /\ pc[r] \in CacheKeys
    /\ cache' = [cache EXCEPT ![r][pc[r]] = user[r]]
    /\ Goto(r, AfterSet[pc[r]])
    /\ UNCHANGED <<phase, status, held, active, work, db, user>>

\* set() answers Err: logged, the remaining keys skipped, the user returned.
PutRefused(r) ==
    /\ "redis" \in Faults
    /\ pc[r] \in CacheKeys
    /\ Goto(r, "disconnect")
    /\ UNCHANGED <<phase, status, held, active, work, db, cache, user>>

\* client.set() rejects, its command applied or not.
PutThrows(r) ==
    /\ "redis" \in Faults
    /\ pc[r] \in CacheKeys
    /\ cache' \in {cache, [cache EXCEPT ![r][pc[r]] = user[r]]}
    /\ Fail(r, "disconnect")
    /\ UNCHANGED <<phase, held, active, work, db, user>>

\* init() throws, or get() throws or answers 503.
RedisFails(r) ==
    /\ "redis" \in Faults
    /\ pc[r] \in {"init", "get"}
    /\ Fail(r, "disconnect")
    /\ UNCHANGED <<phase, held, active, work, db, cache, user>>

Close(r) ==
    /\ pc[r] = "disconnect"
    /\ Goto(r, IF status[r] = "error" THEN "rollback" ELSE AfterCache[phase[r]])
    /\ UNCHANGED <<phase, status, held, active, work, db, cache, user>>

\* disconnect() throws inside finally and replaces whatever was returned.
CloseThrows(r) ==
    /\ "redis" \in Faults
    /\ pc[r] = "disconnect"
    /\ Fail(r, "rollback")
    /\ UNCHANGED <<phase, held, active, work, db, cache, user>>

-----------------------------------------------------------------------------
InFlight == {r \in Requests : pc[r] \notin {"idle", "done", "dead"}}

\* The process dies with every request it serves: their sockets close, the
\* database rolls their transactions back, Redis keeps what it was given.
Crash ==
    /\ "crash" \in Faults
    /\ InFlight # {}
    /\ pc' = [r \in Requests |-> IF r \in InFlight THEN "dead" ELSE pc[r]]
    /\ held' = {}
    /\ active' = {}
    /\ work' = db
    /\ UNCHANGED <<phase, status, db, cache, user>>

Transact(r) ==
    \/ Connect(r) \/ ConnectFails(r) \/ Release(r)
    \/ Prepare(r) \/ Begin(r) \/ Insert(r) \/ Respond(r)
    \/ Validate(r) \/ MarkSent(r) \/ BumpVersion(r)
    \/ Commit(r) \/ Acknowledge(r) \/ CommitFails(r) \/ Rollback(r)
    \/ Notify(r) \/ SendEmail(r) \/ ServiceFails(r)
    \/ Compare(r) \/ Load(r)

UseRedis(r) ==
    \/ Open(r) \/ Get(r) \/ RedisFails(r)
    \/ Put(r) \/ PutRefused(r) \/ PutThrows(r)
    \/ Close(r) \/ CloseThrows(r)

Step(r) == Transact(r) \/ UseRedis(r)

\* Nothing is left to do once every request is answered or lost.
Finished ==
    /\ \A r \in Requests : pc[r] \in {"done", "dead"}
    /\ UNCHANGED vars

Next ==
    \/ \E r \in Requests : Arrive(r) \/ Step(r)
    \/ Crash
    \/ Finished

Spec == Init /\ [][Next]_vars

\* The event loop and the servers get to every pending await; a connection
\* that is not free need not fail, clients need not arrive and the process
\* need not crash.
Fairness ==
    \A r \in Requests : WF_vars(Connect(r) \/ (pc[r] # "connect" /\ Step(r)))

FairSpec == Spec /\ Fairness

-----------------------------------------------------------------------------
TypeOK ==
    /\ pc \in [Requests -> Steps]
    /\ phase \in [Requests -> Phases]
    /\ status \in [Requests -> {"ok", "error"}]
    /\ held \subseteq Requests \X {"create", "verify"}
    /\ active \subseteq Requests
    /\ work \in [Requests -> Rows]
    /\ db \in [Requests -> Rows]
    /\ cache \in [Requests -> [CacheKeys -> Views]]
    /\ user \in [Requests -> Views]

\* No interleaving, failure or crash leaves a user half inserted, marked sent
\* under an old version, or bumped without being marked
\* (createUsers services/db 69-125, isVerificationEmailUpdate services/db 89-109).
CommittedStateLegal == \A r \in Requests : db[r] \in {Absent, Created, Notified}

\* The 201 of endpoint 258-263 is sent only for a user whose verification
\* e-mail is durably recorded as sent, whatever failed on the way.
CreatedMeansDurable ==
    \A r \in Requests : pc[r] = "done" /\ status[r] = "ok" => db[r] = Notified

\* What shared/cache 131 relies on: an entry whose version equals the
\* committed version has the committed content, although entries are written
\* before their transaction commits and survive its rollback.
CacheTruth ==
    \A r \in Requests, k \in CacheKeys :
        cache[r][k].version = db[r].version => cache[r][k] = View(db[r])

\* The secondary keys are never ahead of the key by identifier, the only one
\* whose version is ever checked (shared/cache 302-345 give up in this order).
SecondaryKeysNeverAhead ==
    \A r \in Requests :
        /\ cache[r]["clientId"].version <= cache[r]["identifier"].version
        /\ cache[r]["email"].version <= cache[r]["clientId"].version

\* A request that is over, answered or lost, has returned both connections and
\* ended its transactions, along every error path of both handlers.
NothingHeldAtRest ==
    \A r \in Requests \ InFlight :
        /\ r \notin active
        /\ \A side \in {"create", "verify"} : <<r, side>> \notin held

Blocked(r) == pc[r] = "connect" /\ Full(PoolOf(Side(r)))

\* The requests S wait for connections that only requests of S hold.
WaitInCircle(S) ==
    /\ S # {}
    /\ \A r \in S : Blocked(r) /\ \A c \in Used(PoolOf(Side(r))) : c[1] \in S

\* The endpoint waits for a second connection while it holds a first
\* (endpoint 249 before 271).  Requests can therefore wait for each other in a
\* circle, but only where both connections come from one pool and as many
\* requests as it has connections are between their two at once.
CirclesFillThePool ==
    \A S \in SUBSET InFlight :
        WaitInCircle(S) =>
            /\ CreatePool = VerifyPool
            /\ Cardinality({r \in S : Side(r) = "verify"}) >= Capacity

\* Every request that reached the endpoint is answered, unless the process
\* dies under it or it is caught in a circle of requests that fill the pool.
EveryRequestEnds ==
    \A r \in Requests :
        pc[r] = "connect" ~>
            \/ pc[r] \in {"done", "dead"}
            \/ \E S \in SUBSET InFlight : r \in S /\ WaitInCircle(S)

\* When no service fails a request that arrives is answered 201
\* (createUsers/index.test.ts 64-79), and the cache then holds the committed
\* user under all three keys.
AllServicesPassed ==
    \A r \in Requests :
        pc[r] = "connect" ~>
            /\ pc[r] = "done"
            /\ status[r] = "ok"
            /\ \A k \in CacheKeys : cache[r][k] = View(db[r])

-----------------------------------------------------------------------------
\* The account and the answer as the client of the API sees them.
AccountOf(row) == CASE row = Absent   -> "absent"
                    [] row = Created  -> "created"
                    [] row = Notified -> "notified"
                    [] OTHER          -> "torn"

AnswerOf(step, outcome) == CASE step = "dead" -> "lost"
                             [] step = "done" /\ outcome = "ok" -> "created"
                             [] step = "done" /\ outcome # "ok" -> "error"
                             [] OTHER -> "none"

Account == [r \in Requests |-> AccountOf(db[r])]
Answer == [r \in Requests |-> AnswerOf(pc[r], status[r])]

Lifecycle == INSTANCE UserLifecycle WITH account <- Account, answer <- Answer

\* createUsers/endpoint and the two event handlers it waits for implement
\* UserLifecycle: whole accounts only, one verification, truthful 201s.
ImplementsLifecycle == Lifecycle!Spec
=============================================================================
