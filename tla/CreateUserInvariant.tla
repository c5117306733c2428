------------------------ MODULE CreateUserInvariant ------------------------
(***************************************************************************)
(* The inductive invariant of CreateUser: what is true of a request at each *)
(* await.  The safety properties of CreateUser follow from it, and          *)
(* CreateUserProofs shows that every step keeps it.                         *)
(***************************************************************************)
EXTENDS CreateUser

CacheSteps == {"init", "get", "compare", "load", "disconnect"} \cup CacheKeys

\* The awaits of a handler whose transaction is open.
TransactionSteps ==
    Tables \cup CacheSteps \cup
    {"respond", "markSent", "bumpVersion", "commit", "acknowledge", "rollback"}

FailedSteps == {"disconnect", "rollback", "release", "done", "dead"}

Marked == [tables |-> Tables, version |-> 1, sent |-> TRUE]

\* The rows inserted when the insert into table t is next.
BeforeInsert ==
    [t \in Tables |->
        [tables  |-> CASE t = "users"         -> {}
                       [] t = "keys"          -> {"users"}
                       [] t = "settings"      -> {"users", "keys"}
                       [] t = "communication" -> {"users", "keys", "settings"}
                       [] t = "credentials"   -> Tables \ {"credentials"},
         version |-> IF t = "users" THEN 0 ELSE 1,
         sent    |-> FALSE]]

\* The request holds the endpoint's connection from connect() to release(),
\* and the event handler's only inside that handler.
Connections(r) ==
    /\ <<r, "create">> \in held <=>
          r \in InFlight /\ ~ (pc[r] = "connect" /\ phase[r] = "create")
    /\ <<r, "verify">> \in held =>
          r \in InFlight /\ pc[r] # "connect" /\ phase[r] # "create"

Transactions(r) == r \in active <=> pc[r] \in TransactionSteps

Statuses(r) ==
    /\ status[r] = "error" => pc[r] \in FailedSteps
    /\ pc[r] = "rollback" => status[r] = "error"

CreateRows(r) ==
    /\ pc[r] \in {"idle", "connect", "prepare", "begin"} =>
          db[r] = Absent /\ work[r] = Absent
    /\ pc[r] \in Tables => db[r] = Absent /\ work[r] = BeforeInsert[pc[r]]
    /\ pc[r] \in CacheSteps \cup {"respond", "commit"} =>
          db[r] = Absent /\ work[r] = Created
    /\ pc[r] \in {"acknowledge", "notify", "sendEmail"} =>
          db[r] = Created /\ work[r] = Created
    /\ pc[r] \in {"rollback", "release", "done", "dead"} =>
          db[r] \in {Absent, Created}
    /\ pc[r] \in {"release", "done"} => status[r] = "error"
    /\ pc[r] \notin {"validate", "markSent", "bumpVersion"}

LookupRows(r) ==
    /\ db[r] = Created
    /\ pc[r] \in CacheSteps \cup {"connect", "validate", "begin", "markSent"} =>
          work[r] = Created
    /\ pc[r] = "bumpVersion" => work[r] = Marked
    /\ pc[r] \in {"release", "done"} => status[r] = "error"
    /\ pc[r] \in CacheSteps \cup
          {"connect", "validate", "begin", "markSent", "bumpVersion",
           "rollback", "release", "done", "dead"}

RefreshRows(r) ==
    /\ db[r] \in {Created, Notified}
    /\ pc[r] \in CacheSteps \cup {"commit", "acknowledge"} => work[r] = Notified
    /\ pc[r] \in CacheSteps \cup {"commit"} => db[r] = Created
    /\ pc[r] = "acknowledge" => db[r] = Notified
    /\ pc[r] \in {"release", "done"} /\ status[r] = "ok" => db[r] = Notified
    /\ pc[r] \in CacheSteps \cup
          {"commit", "acknowledge", "rollback", "release", "done", "dead"}

RowsInPhase(r) ==
    /\ phase[r] = "create"  => CreateRows(r)
    /\ phase[r] = "lookup"  => LookupRows(r)
    /\ phase[r] = "refresh" => RefreshRows(r)

\* The user objects in circulation before and after the second transaction
\* has changed the rows.
Known(r) ==
    IF phase[r] = "refresh" THEN {NoEntry, View(Created), View(Notified)}
                            ELSE {NoEntry, View(Created)}

CacheContent(r) ==
    /\ user[r] \in Known(r)
    /\ \A k \in CacheKeys : cache[r][k] \in Known(r)
    /\ pc[r] \in CacheKeys => user[r] = View(work[r])
    /\ cache[r]["clientId"].version <= cache[r]["identifier"].version
    /\ cache[r]["email"].version <= cache[r]["clientId"].version
    /\ pc[r] = "clientId" => cache[r]["identifier"] = user[r]
    /\ pc[r] = "email" => cache[r]["identifier"] = user[r]
                       /\ cache[r]["clientId"] = user[r]

RequestInv(r) ==
    /\ Connections(r)
    /\ Transactions(r)
    /\ Statuses(r)
    /\ RowsInPhase(r)
    /\ CacheContent(r)

\* Where every request stands, relating its connections, its transaction, the
\* rows it sees, the committed rows and the cache to the await it is at.
IInv == TypeOK /\ \A r \in Requests : RequestInv(r)

-----------------------------------------------------------------------------
\* All keys of the request's user hold that row as the application reads it.
Holds(r, row) == \A k \in CacheKeys : cache[r][k] = View(row)

\* Where a request stands to which nothing has gone wrong: the first session
\* misses and fills the cache with the created user, the second finds him there,
\* the third finds him outdated and fills the cache with the notified one.
Smooth(r) ==
    /\ status[r] = "ok"
    /\ phase[r] = "create" =>
          /\ pc[r] # "compare"
          /\ pc[r] \in Tables \cup {"idle", "connect", "prepare", "begin", "respond",
                                   "init", "get", "load", "identifier"} =>
                \A k \in CacheKeys : cache[r][k] = NoEntry
          /\ pc[r] \in {"disconnect", "commit", "acknowledge", "notify", "sendEmail"} =>
                Holds(r, Created)
    /\ phase[r] = "lookup" =>
          /\ Holds(r, Created)
          /\ pc[r] \notin {"load"} \cup CacheKeys
          /\ pc[r] = "compare" => user[r] = View(Created)
    /\ phase[r] = "refresh" =>
          /\ pc[r] \in {"init", "get", "compare"} => Holds(r, Created)
          /\ pc[r] = "compare" => user[r] = View(Created)
          /\ pc[r] \in {"disconnect", "commit", "acknowledge", "release", "done"} =>
                Holds(r, Notified)
=============================================================================
