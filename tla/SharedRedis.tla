----------------------------- MODULE SharedRedis -----------------------------
(***************************************************************************)
(* CreateUser composed with RedisHelper: the requests of one worker, whose  *)
(* cache sessions all go through the worker's one RedisHelper.  Where        *)
(* CreateUser lets a cache call succeed or fail, here the state of the       *)
(* helper decides, with a Redis server that never fails.  (Server errors are *)
(* left to RedisHelper; a crash, which loses the helper with the requests it *)
(* served, to CreateUser.)                                                  *)
(***************************************************************************)
EXTENDS CreateUser

CONSTANT NoClient

VARIABLES
    client, isConnected, socket, at, via, commands, overlapped, errors,
    company     \* history: requests one of whose sessions met another

\* A request opens a session from the endpoint and two from the event handler.
CacheSessions == Requests \X Phases

ASSUME SharedAssumption == NoClient \notin CacheSessions

\* One get and three sets in a session; no server errors.
Redis == INSTANCE RedisHelper
           WITH Sessions <- CacheSessions, MaxCommands <- 4, MaxErrors <- 0

redisVars == <<client, isConnected, socket, at, via, commands, overlapped, errors>>

allVars == <<vars, redisVars, company>>

SharedInit == Init /\ Redis!RedisInit /\ company = {}

Session(r) == <<r, phase[r]>>

Opens(r) ==
    \/ pc[r] = "init" /\ Redis!StartInit(Session(r)) /\ UNCHANGED vars
    \/ Redis!Ready(Session(r)) /\ Open(r)

\* Variant: a refused get counts as a miss.
CommandsRefusedIsMiss(r) ==
    \/ pc[r] \in {"get"} \cup CacheKeys /\ Redis!Send(Session(r)) /\ UNCHANGED vars
    \/ Redis!Reply(Session(r)) /\ (Get(r) \/ Put(r))
    \/ /\ Redis!Refuse(Session(r))
       /\ \/ /\ pc[r] = "get"
             /\ Goto(r, "load")
             /\ UNCHANGED <<phase, status, held, active, work, db, cache, user>>
          \/ PutRefused(r)
    \/ Redis!Reject(Session(r)) /\ (RedisFails(r) \/ PutThrows(r))

Commands(r) ==
    \/ pc[r] \in {"get"} \cup CacheKeys /\ Redis!Send(Session(r)) /\ UNCHANGED vars
    \/ Redis!Reply(Session(r)) /\ (Get(r) \/ Put(r))
    \/ Redis!Refuse(Session(r)) /\ (RedisFails(r) \/ PutRefused(r))
    \/ Redis!Reject(Session(r)) /\ (RedisFails(r) \/ PutThrows(r))

\* (disconnect() does not throw: DisconnectNeverThrows of SharedRedisProofs.)
Closes(r) ==
    \/ Redis!Disconnect(Session(r)) /\ Close(r)
    \/ Redis!SkipDisconnect(Session(r)) /\ Close(r)

RecordCompany ==
    company' = company \cup {r \in Requests : Session(r) \in overlapped'}

RequestStep(r) ==
    \/ Transact(r) /\ UNCHANGED <<redisVars, company>>
    \/ (Opens(r) \/ Commands(r) \/ Closes(r)) /\ RecordCompany

SharedNext ==
    \/ \E r \in Requests :
          \/ Arrive(r) /\ UNCHANGED <<redisVars, company>>
          \/ RequestStep(r)
    \/ Finished /\ UNCHANGED <<redisVars, company>>

SharedSpec ==
    /\ SharedInit
    /\ [][SharedNext]_allVars
    /\ \A r \in Requests : WF_allVars(RequestStep(r))

-----------------------------------------------------------------------------
\* Whatever the shared client does to them, the requests only take steps of
\* CreateUser, so all that is proved of CreateUser holds of them.
ImplementsCreateUser == Spec

\* With every service healthy, a request whose cache sessions no other request
\* overlapped is answered 201 and leaves the committed user under all three
\* keys; the helper, shared as it is, needs company to fail.
SoloRequestsSucceed ==
    \A r \in Requests :
        /\ Faults = {"redis"}
        /\ pc[r] = "done"
        /\ r \notin company
        => /\ status[r] = "ok"
           /\ \A k \in CacheKeys : cache[r][k] = View(db[r])

\* With every service healthy, every answer is a 201
\* (createUsers/index.test.ts 64-79).
HealthyAnswersAreCreated ==
    \A r \in Requests : pc[r] = "done" => status[r] = "ok"
=============================================================================
