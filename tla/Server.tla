------------------------------- MODULE Server -------------------------------
(***************************************************************************)
(* The server around the handlers: the worker processes, what each does      *)
(* after it has opened the port, and the middlewares a request to             *)
(* POST /api/v1/users passes before CreateUserCommandHandler runs.            *)
(*                                                                          *)
(* Workers share the port and nothing else: each counts the requests of a     *)
(* client in its own memory. All requests are of one client.                  *)
(***************************************************************************)
EXTENDS Naturals, FiniteSets, Sequences

CONSTANTS
    Workers,        \* the processes that cluster.fork() starts
    Requests,       \* the requests sent to the port
    MaxHits         \* RATE_LIMITER: requests of a client in one window

ASSUME ServerAssumption ==
    /\ IsFiniteSet(Requests)
    /\ MaxHits \in Nat
    /\ Workers \cap {"new", "answered", "refused", "lost"} = {}

VARIABLES
    stage,          \* stage[w]: how far worker w has come
    initialized,    \* the workers whose database is initialized
    executed,       \* executed[w]: the consumer registries that were executed
    hits,           \* hits[w]: requests counted by w in the current window
    request         \* request[r]: what r carries, where it is, its answers

startVars == <<stage, initialized, executed>>
serverVars == <<stage, initialized, executed, hits, request>>

\* The text that the client's key signed: the body as it was sent, or the one
\* that ValidationMiddleware puts in its place.  Where both are the same text,
\* the signature is of the one that the check comes to read.
Signed == {"sent", "replaced"}
Signatures == {"absent", "wrong"} \cup Signed
Bodies == {"malformed", "invalid", "valid"}
Checks == {"signature", "body"}
Registries == {"pubSub", "requestReply"}

\* App.listen() opens the port first and starts everything else after it.
Open == {"listening", "database", "pubSub", "started"}

Fresh == [signature |-> "absent", body |-> "valid", at |-> "new",
          passed |-> {}, answers |-> <<>>]

ServerInit ==
    /\ stage = [w \in Workers |-> "unborn"]
    /\ initialized = {}
    /\ executed = [w \in Workers |-> {}]
    /\ hits = [w \in Workers |-> 0]
    /\ request = [r \in Requests |-> Fresh]

-----------------------------------------------------------------------------
\* A worker starts.

\* The primary forks all workers in one turn of its event loop.
Fork ==
    /\ \A w \in Workers : stage[w] = "unborn"
    /\ stage' = [w \in Workers |-> "booting"]
    /\ UNCHANGED <<initialized, executed, hits, request>>

\* runServer(): the constructor of App, the setters, listen().
Listen(w) ==
    /\ stage[w] = "booting"
    /\ stage' = [stage EXCEPT ![w] = "listening"]
    /\ UNCHANGED <<initialized, executed, hits, request>>

\* executeDatabase() awaits mmaDb(), which awaits the function
\* initializeDatabase itself and does not call it, and logs that it is done.
ExecuteDatabase(w) ==
    /\ stage[w] = "listening"
    /\ stage' = [stage EXCEPT ![w] = "database"]
    /\ UNCHANGED <<initialized, executed, hits, request>>

\* _runRequestReplyRabbitMqConsumers.length: the number of parameters of the
\* bound function execute().
RunLength == 0

\* Both guards ask for the length of the function, not of the list.
Executed(w, registry) ==
    executed' = [executed EXCEPT ![w] = @ \cup {g \in {registry} : RunLength > 0}]

ExecutePubSub(w) ==
    /\ stage[w] = "database"
    /\ stage' = [stage EXCEPT ![w] = "pubSub"]
    /\ Executed(w, "pubSub")
    /\ UNCHANGED <<initialized, hits, request>>

ExecuteRequestReply(w) ==
    /\ stage[w] = "pubSub"
    /\ stage' = [stage EXCEPT ![w] = "started"]
    /\ Executed(w, "requestReply")
    /\ UNCHANGED <<initialized, hits, request>>

\* A worker dies: its requests get no answer, and the primary's 'exit'
\* listener logs it and forks no other.
Crash(w) ==
    /\ stage[w] \notin {"unborn", "dead"}
    /\ stage' = [stage EXCEPT ![w] = "dead"]
    /\ request' = [r \in Requests |->
                     IF request[r].at = w THEN [request[r] EXCEPT !.at = "lost"]
                                          ELSE request[r]]
    /\ UNCHANGED <<initialized, executed, hits>>

-----------------------------------------------------------------------------
\* A request passes the middlewares of one worker.

\* The primary hands the connection to a worker that listens.
Accept(r, w) ==
    /\ request[r].at = "new"
    /\ stage[w] \in Open
    /\ \E s \in Signatures, b \in Bodies :
          request' = [request EXCEPT ![r] =
                        [Fresh EXCEPT !.signature = s, !.body = b, !.at = w]]
    /\ UNCHANGED <<startVars, hits>>

\* Nobody listens on the port.
Refuse(r) ==
    /\ request[r].at = "new"
    /\ \A w \in Workers : stage[w] \notin Open
    /\ request' = [request EXCEPT ![r].at = "refused"]
    /\ UNCHANGED <<startVars, hits>>

At(r, w, step) == request[r].at = w /\ request[r].passed = step

Pass(r, step) == request' = [request EXCEPT ![r].passed = @ \cup {step}]

Answer(r, status) ==
    request' = [request EXCEPT
        ![r] = [@ EXCEPT !.at = "answered", !.answers = Append(request[r].answers, status)]]

\* express.json(): what is no JSON goes to ErrorMiddleware.
ParseBody(r, w) ==
    /\ At(r, w, {})
    /\ IF request[r].body = "malformed" THEN Answer(r, 400) ELSE Pass(r, "parsed")
    /\ UNCHANGED <<startVars, hits>>

\* Variant: the limit is reached one request too early.
LimitEarly(r, w) ==
    /\ At(r, w, {"parsed"})
    /\ hits' = [hits EXCEPT ![w] = @ + 1]
    /\ IF hits'[w] >= MaxHits THEN Answer(r, 429) ELSE Pass(r, "limited")
    /\ UNCHANGED startVars

\* rateLimitMiddleware, then traceMiddleware, which always goes on.
Limit(r, w) ==
    /\ At(r, w, {"parsed"})
    /\ hits' = [hits EXCEPT ![w] = @ + 1]
    /\ IF hits'[w] > MaxHits THEN Answer(r, 429) ELSE Pass(r, "limited")
    /\ UNCHANGED startVars

WindowEnds(w) ==
    /\ hits[w] > 0
    /\ hits' = [hits EXCEPT ![w] = 0]
    /\ UNCHANGED <<startVars, request>>

\* The request is at one of the two middlewares of @UseBefore, which the
\* framework may run in either order.
AtCheck(r, w, check) ==
    /\ request[r].at = w
    /\ "limited" \in request[r].passed
    /\ check \notin request[r].passed

\* The signature is that of req.body as it is now.
Matches(r) ==
    request[r].signature =
        IF "body" \in request[r].passed THEN "replaced" ELSE "sent"

\* Variant: no return after the answer, so next() runs all the same.
CheckSignatureGoesOn(r, w) ==
    /\ AtCheck(r, w, "signature")
    /\ request' = [request EXCEPT
            ![r].passed = @ \cup {"signature"},
            ![r].answers = IF Matches(r) THEN @ ELSE Append(@, 403)]
    /\ UNCHANGED <<startVars, hits>>

\* authenticateHmac
CheckSignature(r, w) ==
    /\ AtCheck(r, w, "signature")
    /\ IF request[r].signature = "absent" THEN Answer(r, 403)
       ELSE IF Matches(r) THEN Pass(r, "signature")
       ELSE Answer(r, 401)
    /\ UNCHANGED <<startVars, hits>>

\* Variant: the rejection of validateOrReject is caught and not passed on.
CheckBodySwallows(r, w) ==
    /\ AtCheck(r, w, "body")
    /\ request[r].body = "valid"
    /\ Pass(r, "body")
    /\ UNCHANGED <<startVars, hits>>

\* ValidationMiddleware: its errors reach ErrorMiddleware by next(); a valid
\* body is replaced by the DTO made of it.
CheckBody(r, w) ==
    /\ AtCheck(r, w, "body")
    /\ IF request[r].body = "invalid" THEN Answer(r, 400) ELSE Pass(r, "body")
    /\ UNCHANGED <<startVars, hits>>

Handling(r) == Checks \subseteq request[r].passed

\* The handler returns its response, or throws and ErrorMiddleware answers.
\* (400 and 500 stand for all statuses of its errors.)
Handle(r, w) ==
    /\ request[r].at = w
    /\ Handling(r)
    /\ \E status \in {201, 400, 500} : Answer(r, status)
    /\ UNCHANGED <<startVars, hits>>

-----------------------------------------------------------------------------
StartStep(w) ==
    \/ Listen(w)
    \/ ExecuteDatabase(w)
    \/ ExecutePubSub(w)
    \/ ExecuteRequestReply(w)

RequestStep(r, w) ==
    \/ ParseBody(r, w)
    \/ Limit(r, w)
    \/ CheckSignature(r, w)
    \/ CheckBody(r, w)
    \/ Handle(r, w)

ServerNext ==
    \/ Fork
    \/ \E w \in Workers : StartStep(w) \/ Crash(w) \/ WindowEnds(w)
    \/ \E r \in Requests : Refuse(r)
    \/ \E r \in Requests, w \in Workers : Accept(r, w) \/ RequestStep(r, w)

\* The event loop of a worker that lives runs what is ready; that a handler
\* ends is what EveryRequestEnds says of CreateUser.
ServerFairness ==
    /\ WF_serverVars(Fork)
    /\ \A w \in Workers :
          /\ WF_serverVars(StartStep(w))
          /\ \A r \in Requests : WF_serverVars(RequestStep(r, w))

ServerSpec == ServerInit /\ [][ServerNext]_serverVars /\ ServerFairness

-----------------------------------------------------------------------------
Statuses == {201, 400, 401, 403, 429, 500}

RequestType == [signature : Signatures, body : Bodies,
                at : Workers \cup {"new", "answered", "refused", "lost"},
                passed : SUBSET ({"parsed", "limited"} \cup Checks),
                answers : Seq(Statuses)]

\* Every variable has its type, and a worker counts each request once at most.
ServerTypeOK ==
    /\ stage \in [Workers -> {"unborn", "booting", "dead"} \cup Open]
    /\ initialized \subseteq Workers
    /\ executed \in [Workers -> SUBSET Registries]
    /\ hits \in [Workers -> 0 .. Cardinality(Requests)]
    /\ request \in [Requests -> RequestType]

\* No handler runs for a request without the client's signature or with a body
\* that is not valid, whichever of the two middlewares comes first
\* (createUsers/endpoint 53-54), and every answer it gave went to such a one.
HandlerIsGuarded ==
    \A r \in Requests :
        Handling(r) \/ 201 \in {request[r].answers[i] : i \in DOMAIN request[r].answers}
            => request[r].signature \in Signed /\ request[r].body = "valid"

\* A request is answered once: a middleware that answers does not call next()
\* (hmac 19, 29, 40, 53; validation 33; error 34).
OneAnswer ==
    \A r \in Requests :
        /\ Len(request[r].answers) <= 1
        /\ request[r].at = "answered" <=> Len(request[r].answers) = 1

Accepted == {r \in Requests : request[r].at \notin {"new", "refused"}}

\* A client that has had no more than MaxHits requests accepted, by all workers
\* together, is refused by none of their separate counters.
TooManyMeansTooMany ==
    Cardinality(Accepted) <= MaxHits =>
        \A r \in Requests : request[r].answers # <<429>>

\* An accepted request is answered, or its worker dies: no path through the
\* middlewares ends without an answer or next().
AcceptedIsAnswered ==
    \A r \in Requests :
        request[r].at \in Workers ~> request[r].at \in {"answered", "lost"}

-----------------------------------------------------------------------------
\* A worker that has started has its database, as the log message of app.ts
\* 156 says, and has executed its consumers, as README.md 3-4 (the two modes of
\* messaging) and the names of the methods of app.ts 51 and 57 say; does not hold.
StartedIsReady ==
    \A w \in Workers :
        stage[w] = "started" => w \in initialized /\ executed[w] = Registries

\* Promised by the test of lines 64-79, which sends a valid body and no
\* signature and expects 201; does not hold.
TestRequestIsNotForbidden ==
    \A r \in Requests :
        request[r].signature = "absent" /\ request[r].body = "valid" =>
            request[r].answers # <<403>>
=============================================================================
