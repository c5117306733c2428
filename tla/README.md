# Formal model of the modular-monolith API

TLA+ modules, TLC configurations and TLAPS proofs kept beside the Express /
TypeScript application in `src/`. The application is a cluster of Node.js
workers that serves `POST /api/v1/users`; the request writes five tables in a
transaction, fills a Redis cache inside it, and then runs in-process events
that open a second connection and a second transaction. Beside it stand two
RabbitMQ helpers (publish/subscribe and request/reply) and a few libraries that
no feature uses yet: a saga builder, pagination, JSON web tokens.

Paths below are relative to the repository's `src/` directory.

## 1. Inventory

| Part | Source | State it keeps | Operations | Modules |
| --- | --- | --- | --- | --- |
| Create-user endpoint | `modules/users/apps/features/v1/createUsers/endpoint` | one connection and transaction per request | decrypt, validate, hash, keys, map, begin, five inserts, cache, respond, commit, publish, rollback, release | `CreateUser`, `CreateUserInvariant`, `CreateUserProofs`, `UserLifecycle` |
| Notification events | `createUsers/events`, `modules/notiifcations` | none | publish and await the next event | `CreateUser` |
| isVerificationEmailUpdate handler | `isVerificationEmailUpdate` | second connection and transaction | look up the user, mark the e-mail as sent, raise the row version, refresh the cache | `CreateUser` |
| Shared user cache | `modules/users/shared/cache`, `getUsersByIdentifier` | Redis entries under three keys | get, compare versions, load from the database, set three keys | `CreateUser`, `SharedRedis` |
| RedisHelper | `shared/utils/helpers/redis` | one client field, one `isConnected` flag, shared by all requests of a worker | init, get, set, disconnect, client events | `RedisHelper`, `RedisHelperProofs`, `SharedRedis`, `SharedRedisProofs` |
| Request/reply | `shared/utils/helpers/rabbitmq/requestReply` | pending promises, consumers of the one reply queue | sendAsync, consume, reply, ack | `RequestReply`, `AtLeastOnce`, `RequestReplyProofs` |
| Publish/subscribe | `shared/utils/helpers/rabbitmq/pubsub` | handlers by queue | sendAsync, consume, trigger, ack | `PubSub`, `AtLeastOnce`, `PubSubProofs` |
| Start-up and clustering | `server.ts`, `app.ts`, `shared/utils/miscellaneous/clusters` | worker processes | fork, listen, start the database and the consumers | `Server`, `ServerProofs` |
| HTTP middlewares | `middlewares` | rate-limit counter per worker | body parser, rate limit, trace, signature, validation, error answer; token and role of a request | `Server`, `ServerProofs`; `Tokens` |
| Saga builder | `shared/utils/helpers/saga` | activities with compensations, results of all executions | add an activity or a compensation, execute | `Saga`, `HelpersProofs` |
| User tokens | `shared/services/users/userJwt.Service.ts`, `userTokenProvider.service.ts` | none (a token carries its claims) | sign a pair, verify, read the role | `Tokens`, `HelpersProofs` |
| Pagination | `shared/utils/miscellaneous/pageList`, `shared/models/request` | none (a page is put together from two moments of a table) | parse the parameters, count, skip and take, has-next | `Paging`, `PagingProofs` |
| AES, HMAC, bcrypt, models, validation rules, logging, axios, lazy, delay, jobs | `shared/...` | none or trivial | pure calls | not modelled |

How they interact: the endpoint awaits everything it calls, events included, so
a request is one sequential program; requests of one worker interleave at every
`await`. They share the connection pools, the RedisHelper and the process. The
workers share the port, the databases, Redis and RabbitMQ, and nothing else.

What is hard about each part is listed under `hazards` in `PROJECT.json`, at the
line where it bites. The main ones: a commit in the middle of the handler; a
cache filled from rows that are not committed; a second connection taken while
the first is held; one Redis client field for all requests; replies of all calls
in one queue; acknowledgements that come after the effects they acknowledge;
a start-up that runs after the port has been opened.

## 2. Modules and how they correspond to the code

### CreateUser

One action per `await` of the handler and of the event handlers, named for what
the code does there. `pc[r]` is the await a request is at, `phase[r]` the handler
it is in (`create`: the endpoint; `lookup` and `refresh`: the
isVerificationEmailUpdate handler before and after its two updates), `status[r]`
whether a handler has failed, `held` the checked-out connections, `active` the
open transactions, `work[r]` the user's rows as the request's own connection sees
them, `db[r]` as committed, `cache[r][k]` the entry under each Redis key,
`user[r]` the user object in the hands of the cache service.

The data of a user is cut to what the properties tell apart: which of the five
tables have its row, its row version (0 to 2) and `isVerificationEmailSent`.
Requests create users of their own (fresh identifiers), so two requests never
write one row; a repeated e-mail address is a failing insert.

Every external call may fail as far as the constant `Faults` allows: `connect`,
`service` (any service that returns an error or throws), `redis`, `commit` (with
the commit done or not done), `crash` (a worker dies with all its requests). A
`Result` error and an exception take different paths in the cache service and the
event handlers and are kept apart there; where catch and finally make one path of
them they are one action. A rollback that fails itself ends like one that
succeeds, because the database drops the transaction with the connection.

`CreatePool` and `VerifyPool` are the pools behind the two `getQueryRunner`
functions, which come from two packages (`@bhushanpawar/ldd` and
`@kishornaik/mma_db`); whether these share a pool is not visible in `src/`, so
both cases are checked. With one pool the requests can lock up: the endpoint waits for
the second connection while it holds the first. `WaitInCircle` is this state, and no
action leads out of it but a crash or an error of the pool, which is never fair.

### UserLifecycle

The promise to a client: an account appears whole, is marked at most once, and
"created" is answered only for an account in its final state. `CreateUser`
implements it under the mapping `Account`, `Answer` (property `ImplementsLifecycle`).

### RedisHelper

Cache sessions over the one helper of a worker. A session is `init()`, one get, up
to three sets, `disconnect()`. Actions: `StartInit`, `Ready`, `Refuse` (the
`isConnected` test of get and set fails), `Send`, `Reply`, `Reject`, `Disconnect`, `SkipDisconnect`,
`DisconnectThrows`, and the client's events `Drop`, `ConnectError`, `Reconnected`. The
node-redis client is external and modelled by what it does to its caller: commands
queue until the socket is ready, `disconnect()` rejects what is pending and emits
`end` in one turn, `connect()` retries and emits `ready` in the turn in which it
resolves. The circuit breaker that the helper builds is used by nothing.

### SharedRedis

`CreateUser` with the state of `RedisHelper` deciding the outcome of every cache
call instead of chance. It shows that whatever sessions do to each other is a choice
`CreateUser` already allows (`ImplementsCreateUser`), and what this costs a client
(`HealthyAnswersAreCreated`, which fails). Redis server errors stay with
`RedisHelper` alone and crashes with `CreateUser`.

### RequestReply

Callers, the broker and the answering consumer. `call[c]` is the promise of
sendAsync, `consumers` the calls whose consumer is registered on the reply queue
(none is ever cancelled), `ready` and `stuck` the replies in the queue and those
kept by a consumer whose correlation id differs. `Misdeliver` is that case. A
handler that throws is caught and its request acknowledged without a reply; a
broken connection repeats what was not acknowledged, also where the handler had returned and
only the acknowledgement was lost (`unacked` of `ConsumerLost`).

### PubSub

Producer, broker and a subscriber process. `handling[m]` counts the copies whose
handler is at work, `stale[m]` those whose channel closed meanwhile: the broker has
already queued them again, and their late `ack()` throws. A rejected consumer
callback is caught by nobody, so `HandlerThrows` and `StaleReturns` end the process and
requeue everything it was handling. Whatever closes a channel may find handlers that have
returned and whose acknowledgement is lost on its way (`Unacked`). `Orphans` are the messages for a queue with no
registered consumer, acknowledged with a warning.

### Server

Workers from `cluster.fork()` to the end of their start-up, and the middlewares of
one route. `Open` is the set of stages in which the port is open: all of them after
`listen()`. `ExecutePubSub` and `ExecuteRequestReply` test `RunLength`, the number of
parameters of `execute()`. The order of the two `@UseBefore` middlewares is the
framework's, so both orders are allowed; the signature is checked against the body as it was
sent or as validation has replaced it (`Matches`). The handler is one step with any of its
answers: its inside is `CreateUser`.

Both ends of each RabbitMQ pair are assumed to use one broker (one end has its
address in the code, the other takes it from the configuration).

### AtLeastOnce

What a queue with an acknowledgement after the work promises, and no more: what was
sent is worked on once, and only a break repeats or loses it. A break may repeat whatever
was due at it (its acknowledgement may be lost), and add one copy. `PubSub` implements it
under the mapping `Sent`, `Due`, `Done`, `Lost` (messages nobody
consumes are left out of it), and so does the request half of `RequestReply`
(`ImplementsAtLeastOnce` in both). Its liveness, `Promise`, is `EveryRequestIsHandled` of
`RequestReply`; in `PubSub` it follows from `EveryCopyIsSettled` with `PublishedIsKept`.

### Saga

One `SagaBuilder` and several `executeAsync()`. `activities` and `activityResults` are the
builder's two lists, `at[e]` the callback an execution awaits, by position (compensation 0 is
the action), `result[e]` the local variable. `Activity` and `CompensationActivity` may come
at any time, so the lists grow under the loops, which look at them anew at each turn
(`GoOn`). A callback returns a success, a failure or nothing, or it throws (`Throw`).
Callbacks are taken not to change the result object they are given. That executions end is
not claimed: callbacks that go on adding to the list keep the loop going, and only the bounds
of the model stop them.

### Paging

A reader who walks a table page by page, following `hasNext`, while others insert and
delete rows anywhere in the order of the query. `toPagedListAsync()` awaits the count and
returns the query of the page unrun; the caller runs it later. `Count` and `ReadRows` are
these two moments. `Ask` parses the parameters of the first page as the decorators do.

### Tokens

`JwtService` and `JwtExtendedService`, which sign pairs and give back the claims of what they
verify, and the middlewares `authenticateJwt` and `authorizeRole`, which verify the token of a request
one after the other while `Tick` moves the clock. A token is a record of what it claims;
that nobody forges one is the library's business. `Signable` is the library's
refusal to sign claims that have an `exp` when `expiresIn` is given.

`MCHelpers` runs these three, one of them in each behaviour: they share no state.

## 3. The runs

| Run | Instance | Shows |
| --- | --- | --- |
| `create_user_faults` | 2 requests, one pool of 2, all faults | the inductive invariant `IInv` (with the types and `SecondaryKeysNeverAhead`), `CommittedStateLegal`, `CreatedMeansDurable`, `CacheTruth`, `NothingHeldAtRest`, `CirclesFillThePool`, `ImplementsLifecycle`, `EveryRequestEnds` |
| `create_user_healthy` | 3 requests, 2 pools of 2, no faults | `CirclesFillThePool`: no circle over separate pools; `AllServicesPassed`: everyone is answered 201, cache and rows agree |
| `redis_helper` | 3 sessions, 2 commands each, 2 errors | type, `ClientDefined`, `ConnectedMeansOpen`, `SoloSessionsAreSafe`, `OnlyOverlapLeaks`, `EverySessionEnds` |
| `shared_redis` | 2 requests | `SoloRequestsSucceed`, `ImplementsCreateUser`, `EveryRequestEnds` |
| `shared_redis_created` | 2 requests | violation of `HealthyAnswersAreCreated` |
| `request_reply_losses` | 2 calls, 2 losses, 1 failing handler | type, `ResolvedMeansAnswered`, `WaitingIsAccountedFor`, `ImplementsAtLeastOnce`, `EveryRequestIsHandled`, `LoneCallIsAnswered` |
| `request_reply_healthy` | 2 calls, nothing fails | violation of `EveryCallIsAnswered` |
| `pub_sub` | 3 messages, one an orphan, 1 loss, up to 2 throwing handlers | type, `PublishedIsKept`, `ImplementsAtLeastOnce`, `EveryCopyIsSettled` |
| `server` | 2 workers, 2 requests, limit 1 | `HandlerIsGuarded`, `OneAnswer`, `TooManyMeansTooMany`, `AcceptedIsAnswered` |
| `server_started` | 2 workers | violation of `StartedIsReady` |
| `server_unsigned` | 1 worker | violation of `TestRequestIsNotForbidden` |
| `helpers` | 2 executions, 2 names, 2 activities of 2 compensations | `CompensatedWithOwnResult`, `NamesakeIsNeverCompensated`, `ResolvedMeansAllRan` of `Saga` |
| | 4 rows, 5 writes, pages of 1, 2 and 10 | `QuietWalkIsExact`, `OnlyStaleCountsSkip` of `Paging` |
| | 2 roles, 1 request, lives of 1 and 2, 3 moments | `NoRenewal`, `HandledIsAuthorized` of `Tokens` |

Every property of a passing run has a mutant in `PROJECT.json`: a variant of one
definition, with a plausible bug, under which TLC finds that property violated. The
variants stand before the definition they vary and no action uses them.

### Bounds, and why they are enough

- Requests. `CreateUser` needs no bound on depth: a request only moves forward. Two
  requests interact only through pools, crashes and the Redis helper; three compete
  for a pool that fits less than their total demand. The proofs drop the bound.
- A shared pool of two for two requests is the smallest in which they overlap and can lock
  up. They do in this run: `CirclesFillThePool` says when, and `EveryRequestEnds` exempts a
  request caught in a circle and no other. With `PoolsSuffice`, separate pools or one larger than the number
  of requests, there is no circle, which is proved.
- `MaxCommands` is 2 (the code sends up to four): a first command and one after it, with
  whatever other sessions and errors do between them; `SharedRedis` has all four. `MaxErrors`, `MaxLosses` and `MaxFailures` bound what breaks; each is at
  least as large as the number of breaks a property needs to relate to another. In `PubSub` a rejected
  callback is a break of its process too: with two failures after which no handler throws
  any more, one loss, and a late `ack()` of each handler the loss outlived, `pub_sub` relates
  several.
- Two activities of two compensations each, under one name or two, have every relation of
  neighbours in the builder's lists; two executions can be anywhere in them.
- Four rows in pages of one and two give a full last page, one that is not full, and a page
  beyond the end; five writes are one more than it takes to fill the table. The third
  size is the default.
- The clock has one moment more than the longer life, so a login may be followed by
  another after all its tokens have ended.

`CHECK_DEADLOCK FALSE` stands only where the modelled system really comes to rest: all
calls are over or stuck (`RequestReply`), all messages handled and nothing left to
break (`PubSub`), all requests answered and all workers dead (`Server`), all executions over,
the walk at its end or the clock at its last moment (`MCHelpers`). `CreateUser` and
`SharedRedis` have an explicit `Finished` step instead, so that any other stop is a
deadlock TLC reports.

### Fairness

Weak fairness of each step of a request, session, call or message, because the event
loop runs every callback that is ready and each promise of a driver settles.
It is never assumed of a loss, a crash or the arrival of a request; nor of a failing
`connect()`, so that a request which waits for a connection is not saved by an error
the pool need not raise. In
`RedisHelper`, fairness of `Ready` and `Reconnected` says that Redis is reachable in
the end: `init()` retries for ever. In `PubSub`, fairness of `Subscribe` is pm2's
`autorestart`. In `Server`, fairness of `Handle` is what `EveryRequestEnds` shows of
`CreateUser`. `Saga`, `Paging` and `Tokens` have no liveness: nothing limits what is added to
a builder while it runs, and a reader may stop reading.

## 4. What is proved

| Theorem | Says |
| --- | --- |
| `CreateUserProofs!Inductive` | `Spec => []IInv` |
| `TypeCorrect`, `CommitsAreLegal`, `AnswersAreTrue`, `VersionsVouchForContent`, `PrimaryKeyLeads`, `NothingLeaks` | the safety properties of `create_user_faults` |
| `CirclesTakeTheWholePool`, `NobodyWaitsInACircle` | `CirclesFillThePool`; hence no circle under `PoolsSuffice` |
| `EndpointImplementsLifecycle`, `AnswersAreFinal` | `CreateUser` refines `UserLifecycle`; hence an answer, and the account as it was then, never change again |
| `HealthyRequestsSucceed` | if no service fails and nothing crashes, every answer is a 201 and the cache then holds the committed user: the safety half of `AllServicesPassed` |
| `RedisHelperProofs!HelperTypeCorrect`, `FlagMeansClient`, `FlagMeansOpen`, `SoloSessionsSafe`, `SequentialSessionsLeakNothing` | the safety properties of `redis_helper`, the last three until the first server error |
| `SharedRedisProofs!SharedImplementsCreateUser`, `InterferenceIsHarmlessToData` | the composition refines `CreateUser` and inherits its safety |
| `SharedRedisProofs!SharedImplementsHelper`, `DisconnectNeverThrows`, `SequentialRequestsLeakNothing` | the helper under the requests is a `RedisHelper` and has its safety |
| `SharedRedisProofs!SoloRequestsAreSafe` | `SoloRequestsSucceed`: only company makes a request fail |
| `RequestReplyProofs!RepliesTypeCorrect`, `RepliesMatch`, `RepliesAreKept`, `RepetitionNeedsALoss` | the three invariants of `request_reply_losses`, and `CopiesArePaidFor`: no handler is repeated before the first loss, and a loss adds one copy at most |
| `RequestReplyProofs!LoneCallsAreNeverStuck` | `LoneReplyIsAtHand`: the safety half of `LoneCallIsAnswered` |
| `RequestReplyProofs!RequestsImplementAtLeastOnce`, `PubSubProofs!PubSubImplementsAtLeastOnce` | both refine `AtLeastOnce` |
| `PubSubProofs!MessagesTypeCorrect`, `DeliveredAtLeastOnce`, `RepetitionNeedsABreak` | the two invariants of `pub_sub`, and its `CopiesArePaidFor` |
| `ServerProofs!ServerTypeCorrect`, `HandlerAlwaysGuarded`, `AnsweredOnce`, `LimitIsKept` | `ServerTypeOK` and the three invariants of `server` |
| `HelpersProofs!CompensatedAsOwn`, `NamesakesNeverCompensated`, `ResolvedRanEverything` | `CompensatedWithOwnResult`, `NamesakeIsNeverCompensated`, `ResolvedMeansAllRan` |
| `PagingProofs!PagingTypeCorrect`, `StaleCountsOnlySkip`, `QuietWalksAreExact` | `PagingTypeOK`, `OnlyStaleCountsSkip`, `QuietWalkIsExact` |
| `HelpersProofs!TokensTypeCorrect`, `SessionsAreNotRenewed`, `PairsStayTogether`, `HandledAlwaysAuthorized` | `NoRenewal`, `HandledIsAuthorized`; `TokensTypeOK`, and `AccessHasRefresh`: an access token has a refresh token to outlive it |

They hold for every value of the constants that satisfies the named assumptions:
`ConstantsAssumption` (finitely many requests, a pool of at least one, faults of the
known kinds), `SessionsAssumption` and `SharedAssumption` (the empty client field is no session), and those of the other modules on their bounds (for `Tokens` also that an
access token lives shorter than a refresh token); TLC evaluates each in a run.

The argument for `CreateUser`. None of its safety properties is inductive: that a
committed state is legal depends on which rows a transaction holds at its commit, and
that on how many inserts it has done, that is on `pc`. `IInv` therefore says of each
request where it stands: which connections it holds (`Connections`), whether its
transaction is open (`Transactions`), when it may have failed (`Statuses`), its rows in
each phase (`CreateRows`, `LookupRows`, `RefreshRows`) and what user object and cache
entries can be about (`CacheContent`). Each conjunct is about one request, and
`Untouched` shows that the steps of one request leave the invariant of any other alone,
so only the request that moves has to be looked at. Crash is treated apart because it
moves all of them.

`HealthyRequestsSucceed` adds `Smooth` to it: where a request stands to which nothing has gone
wrong. It follows the cache through the three sessions, because which branch a handler takes depends on what
it finds there: the first misses, the second finds the created user, the third finds him
outdated. Without `IInv` it is not inductive: the versions a handler compares are those of its row.
`AnswersAreFinal` needs no invariant of its own: it is a step property of `UserLifecycle`, carried down by
the refinement.

`RedisHelper`. The invariant says that, until the first error, the flag is up only while the client in
the field is open; a session that has met no other is the only one whose client can be in
that field between its `Ready` and its `Disconnect`, so its own calls are safe.

`SharedRedis`. Both halves are refinements: the requests take only steps of `CreateUser`, and only steps of
`RedisHelper` at the helper, so `IInv` and `HelperInv` both hold. `SoloRequestsSucceed` needs both at
once. `CompanyInv` ties them together: the sessions of later phases have not begun, and a session that
has met another makes its request one of `company`. A request outside `company` is then alone at the
helper in each of its sessions, so none of its calls is refused or rejected (`SoloIsServed`),
its steps are those in which nothing goes wrong, and these keep `Smooth`: the lemmas of
`HealthyRequestsSucceed` are used again.

`RequestReply` and `PubSub`. The invariant bounds, for each call or message, the copies by one plus
the losses so far, and runs and copies together by one until something breaks. After a break runs are
not bounded by the breaks alone: every copy at work may have been done with its acknowledgement lost.

A reply is kept only by the consumer of another call, and consumers never leave the queue without returning what they
keep (`KeptByAnother`): for a call alone on the queue, `WaitingIsAccountedFor` then says that its
request or its reply is where a broker or a handler will act on it.

The refinements of `AtLeastOnce` rest on the same invariants. A handler that returns finishes
what is due. A break maps to `Break`: what returned unacknowledged was due and stays so. In `PubSub` a
stale handler makes one more due, since of all stale handlers one may return before its process ends.

`Server`. The invariant follows a request through its middlewares: which of the two checks it has
passed, that its answers are empty until it is answered, and that the counter of a worker
never exceeds the requests it has accepted since its window began, hence all
accepted ones.

`HelpersProofs`. `Saga`: `CompensatedWithOwnResult` becomes inductive with `Follows`: an execution that awaits
compensation j has the action of the same activity and the j - 1 compensations after it as the last calls
that returned to it, and the local variable is what that action returned; it needs nothing of
other executions, because they share only the two lists. The second theorem needs that
only the first activity of a name ever gets a compensation. The third says of every moment
which actions have been called (`RanInv`): those before the one awaited, and that one too once a
compensation is. `Tokens`: claims
given back by verifying have an expiry, so they are never signed again.

`PagingProofs`. For `OnlyStaleCountsSkip`: as long as nobody deletes and
nobody inserts between a count and its rows, each row that was due has been seen or lies
beyond the offset of the page to come (`Ahead`); inserts only push rows back, and a row behind the
page makes `hasNext` true (`RowBehindMeansNext`) because the count is the table's. For `QuietWalkIsExact` the rows seen and
those from the offset of the page to come on make up the rows due, as sequences (`WalkInv`), and
as long as rows were due there is one left for every page asked for (`NextMeansRowBehind`).

Every safety invariant and every action property that a run checks is a theorem. Only
model-checked are the liveness properties, which the provers do not reach: `EveryRequestEnds`,
`AllServicesPassed` and `LoneCallIsAnswered` (whose safety halves are proved),
`EverySessionEnds`, `EveryRequestIsHandled`, `EveryCopyIsSettled` and `AcceptedIsAnswered`.
So are the four violations.

## 5. Findings

1. `shared/utils/helpers/redis/index.ts:110`: one request's `disconnect()` closes the client
   another is using; two overlapping requests on a healthy system, one of them
   fails (`shared_redis_created`). The data stays consistent: that is what
   `InterferenceIsHarmlessToData` proves.
2. `requestReply/request/index.ts:36`: a reply handed to another call's consumer is kept
   there for ever (`request_reply_healthy`).
3. `server.ts:16`: `initializeDatabase` is awaited and not called, and the log says it
   was (`server_started`).
4. `app.ts:164` and `app.ts:186`: the guards test the length of a function, which is 0; no
   consumer is ever started (`server_started`).
5. `middlewares/hmac.middlware.ts:12`: the integration test, which sends no signature, cannot get
   the 201 it expects (`server_unsigned`).

## 6. What is not modelled

- AES, HMAC, bcrypt, mapping, validation rules: stateless calls of libraries, seen
  only as steps that succeed or fail (`CreateUser`'s `ServiceFails`, `Server`'s signature).
- Models, decorators, exceptions, the logger: no state a property could be about.
- The axios helper, `Lazy`, jobs and delays, which nothing uses: each is one call of a library or
  of the language with its failure translated, and starts and ends in one step.
- The primary's own death, Swagger and the route table.
- SQL isolation between transactions on one row: no two requests write one row.
- The claims `id` and `iat` of a token: no middleware reads them (nothing calls `getUserId()`), and `NoRenewal` is about `exp`.
- Expiry of Redis entries and other writers of the cache: the code has none.
- The two ends of each RabbitMQ pair on different brokers: a matter of configuration.

## 7. Plan

Done, in this order: `UserLifecycle` and `CreateUser` (the core), its invariant and proofs;
`RedisHelper` and its proofs; `SharedRedis`, which composes the two; `RequestReply`,
`PubSub` and their proofs; `Server`; `AtLeastOnce` with both refinements; `Saga`, `Paging`,
`Tokens`; `ServerProofs`, `HelpersProofs`, `PagingProofs`; `SharedRedis` as an implementation of both
of its parts.

Next: `Server` over `CreateUser`, the handler's step refined, so that a worker's death is the
same event in both.
