---------------------------- MODULE ServerProofs ----------------------------
(***************************************************************************)
(* For every number of workers and requests and every limit: the middlewares *)
(* guard the handler, a request is answered once, and the workers' separate   *)
(* counters refuse nobody who kept to the limit.                             *)
(***************************************************************************)
EXTENDS Server, FiniteSetTheorems, TLAPS

\* The requests that some worker has counted.
Counted ==
    {r \in Requests : "limited" \in request[r].passed \/ request[r].answers = << 429 >>}

\* What the way of a request through the middlewares says about it.
Way(q) ==
    /\ q.at # "answered" => q.answers = <<>>
    /\ q.at = "answered" =>
          \E s \in Statuses :
              /\ q.answers = <<s>>
              /\ s = 201 => q.signature \in Signed /\ q.body = "valid"
    /\ q.at \in {"new", "refused"} => q.passed = {}
    /\ "parsed" \in q.passed => q.body # "malformed"
    /\ "limited" \in q.passed => "parsed" \in q.passed
    /\ "signature" \in q.passed => q.signature \in Signed
    /\ "body" \in q.passed => q.body = "valid"

Typed ==
    /\ stage \in [Workers -> {"unborn", "booting", "dead"} \cup Open]
    /\ initialized \subseteq Workers
    /\ executed \in [Workers -> SUBSET Registries]
    /\ hits \in [Workers -> Nat]
    /\ request \in [Requests -> RequestType]

Ways == \A r \in Requests : Way(request[r])

Counts ==
    /\ \A w \in Workers : hits[w] <= Cardinality(Counted)
    /\ (\E r \in Requests : request[r].answers = << 429 >>) => Cardinality(Accepted) > MaxHits

ServerInv == Typed /\ Ways /\ Counts

-----------------------------------------------------------------------------
\* The invariant gives the properties.

\* A counted request was accepted, and there are no more requests than that.
LEMMA CountedAreAccepted ==
    ASSUME Ways
    PROVE  /\ Counted \subseteq Accepted
           /\ IsFiniteSet(Counted) /\ IsFiniteSet(Accepted)
           /\ Cardinality(Counted) \in Nat /\ Cardinality(Accepted) \in Nat
           /\ Cardinality(Counted) <= Cardinality(Accepted)
           /\ Cardinality(Counted) <= Cardinality(Requests)
  <1>1. Counted \subseteq Accepted
    <2> SUFFICES ASSUME NEW r \in Requests, r \in Counted
                 PROVE  r \in Accepted
      BY DEF Counted
    <2>1. Way(request[r])
      BY DEF Ways
    <2>2. << 429 >> # <<>>
      OBVIOUS
    <2>3. request[r].at \notin {"new", "refused"}
      BY <2>1, <2>2 DEF Way, Counted
    <2> QED BY <2>3 DEF Accepted
  <1>2. Counted \in SUBSET Requests /\ Accepted \in SUBSET Requests
    BY DEF Counted, Accepted
  <1>3. IsFiniteSet(Requests)
    BY ServerAssumption
  <1>4. IsFiniteSet(Counted) /\ IsFiniteSet(Accepted)
    BY <1>2, <1>3, FS_Subset
  <1>5. Cardinality(Counted) <= Cardinality(Requests)
    BY <1>2, <1>3, FS_Subset
  <1>6. Cardinality(Counted) <= Cardinality(Accepted)
    BY <1>1, <1>4, FS_Subset
  <1> QED BY <1>1, <1>4, <1>5, <1>6, FS_CardinalityType

LEMMA ServerInvImplies ==
    ASSUME ServerInv
    PROVE  ServerTypeOK /\ HandlerIsGuarded /\ OneAnswer /\ TooManyMeansTooMany
  <1> USE DEF ServerInv
  <1>1. ServerTypeOK
    <2>1. Cardinality(Counted) <= Cardinality(Requests) /\ Cardinality(Counted) \in Nat
      BY CountedAreAccepted
    <2>2. Cardinality(Requests) \in Nat
      BY ServerAssumption, FS_CardinalityType
    <2>3. \A w \in Workers : hits[w] \in 0 .. Cardinality(Requests)
      BY <2>1, <2>2 DEF Typed, Counts
    <2> QED BY <2>3 DEF ServerTypeOK, Typed
  <1>2. HandlerIsGuarded
    <2> SUFFICES ASSUME NEW r \in Requests,
                        \/ Handling(r)
                        \/ 201 \in {request[r].answers[i] : i \in DOMAIN request[r].answers}
                 PROVE  request[r].signature \in Signed /\ request[r].body = "valid"
      BY DEF HandlerIsGuarded
    <2>1. Way(request[r])
      BY DEF Ways
    <2>2. CASE Handling(r)
      BY <2>1, <2>2 DEF Handling, Checks, Way
    <2>3. CASE 201 \in {request[r].answers[i] : i \in DOMAIN request[r].answers}
      BY <2>1, <2>3 DEF Way
    <2> QED BY <2>2, <2>3
  <1>3. OneAnswer
    <2> SUFFICES ASSUME NEW r \in Requests
                 PROVE  /\ Len(request[r].answers) <= 1
                        /\ request[r].at = "answered" <=> Len(request[r].answers) = 1
      BY DEF OneAnswer
    <2>1. Way(request[r])
      BY DEF Ways
    <2>2. CASE request[r].at = "answered"
      <3>1. PICK s \in Statuses : request[r].answers = <<s>>
        BY <2>1, <2>2 DEF Way
      <3> QED BY <2>2, <3>1
    <2>3. CASE request[r].at # "answered"
      BY <2>1, <2>3 DEF Way
    <2> QED BY <2>2, <2>3
  <1>4. TooManyMeansTooMany
    BY CountedAreAccepted, ServerAssumption DEF Counts, TooManyMeansTooMany
  <1> QED BY <1>1, <1>2, <1>3, <1>4

-----------------------------------------------------------------------------
\* The invariant holds at the start.
LEMMA ServerInitially == ServerInit => ServerInv
  <1> SUFFICES ASSUME ServerInit PROVE ServerInv
    OBVIOUS
  <1>1. Fresh \in RequestType /\ Way(Fresh)
    BY DEF Fresh, RequestType, Signatures, Bodies, Way
  <1>2. Typed /\ Ways
    <2>1. Typed
      BY <1>1 DEF ServerInit, Typed
    <2>2. Ways
      BY <1>1 DEF ServerInit, Ways
    <2> QED BY <2>1, <2>2
  <1>3. \A r \in Requests : request[r].answers # << 429 >>
    BY DEF ServerInit, Fresh
  <1>4. Cardinality(Counted) \in Nat
    BY <1>2, CountedAreAccepted
  <1> QED BY <1>2, <1>3, <1>4 DEF ServerInit, ServerInv, Counts

\* A request may be moved on by a step as long as its way stays a way, nobody
\* accepted or counted is forgotten, and no counter goes up alone.
LEMMA RequestsMove ==
    ASSUME ServerInv, Typed', Ways',
           Accepted \subseteq Accepted', Counted \subseteq Counted',
           \A w \in Workers : hits'[w] <= hits[w],
           \A r \in Requests : request'[r].answers = << 429 >> => request[r].answers = << 429 >>
    PROVE  ServerInv'
  <1>1. Ways /\ Ways' /\ Typed /\ Typed'
    BY DEF ServerInv
  <1>2. /\ Cardinality(Counted) \in Nat /\ Cardinality(Counted') \in Nat
        /\ Cardinality(Accepted) \in Nat /\ Cardinality(Accepted') \in Nat
        /\ IsFiniteSet(Counted') /\ IsFiniteSet(Accepted')
    <2>1. Cardinality(Counted) \in Nat /\ Cardinality(Accepted) \in Nat
      BY <1>1, CountedAreAccepted
    <2>2. /\ IsFiniteSet(Counted') /\ IsFiniteSet(Accepted')
          /\ Cardinality(Counted') \in Nat /\ Cardinality(Accepted') \in Nat
      <3>1. Counted' \in SUBSET Requests /\ Accepted' \in SUBSET Requests
        BY DEF Counted, Accepted
      <3> QED BY <3>1, ServerAssumption, FS_Subset, FS_CardinalityType
    <2> QED BY <2>1, <2>2
  <1>3. Cardinality(Counted) <= Cardinality(Counted')
    BY <1>2, FS_Subset
  <1>4. Cardinality(Accepted) <= Cardinality(Accepted')
    BY <1>2, FS_Subset
  <1>5. \A w \in Workers : hits'[w] <= Cardinality(Counted')
    BY <1>1, <1>2, <1>3 DEF ServerInv, Counts, Typed
  <1>6. (\E r \in Requests : request'[r].answers = << 429 >>) => Cardinality(Accepted') > MaxHits
    BY <1>2, <1>4, ServerAssumption DEF ServerInv, Counts
  <1> QED BY <1>1, <1>5, <1>6 DEF ServerInv, Counts

-----------------------------------------------------------------------------
\* What the two ways to move a request do to it.

LEMMA AnswerEffect ==
    ASSUME Typed, NEW r \in Requests, request[r].answers = <<>>,
           NEW s \in Statuses, Answer(r, s)
    PROVE  /\ request'[r].signature = request[r].signature
           /\ request'[r].body = request[r].body
           /\ request'[r].at = "answered"
           /\ request'[r].passed = request[r].passed
           /\ request'[r].answers = <<s>>
           /\ \A k \in Requests \ {r} : request'[k] = request[k]
           /\ request' \in [Requests -> RequestType]
  <1>1. request[r] \in RequestType /\ Append(<<>>, s) = <<s>>
    BY DEF Typed
  <1>2. <<s>> \in Seq(Statuses)
    OBVIOUS
  <1> DEFINE q == [request[r] EXCEPT !.at = "answered",
                                     !.answers = Append(request[r].answers, s)]
  <1>3. q \in RequestType /\ q.answers = <<s>> /\ q.at = "answered"
        /\ q.signature = request[r].signature /\ q.body = request[r].body
        /\ q.passed = request[r].passed
    <2> DEFINE p == [request[r] EXCEPT !.at = "answered"]
    <2>1. p \in RequestType /\ p.answers = <<>> /\ p.at = "answered"
          /\ p.signature = request[r].signature /\ p.body = request[r].body
          /\ p.passed = request[r].passed
      BY <1>1 DEF RequestType
    <2>2. q = [p EXCEPT !.answers = <<s>>]
      BY <1>1, <2>1
    <2> HIDE DEF p, q
    <2> QED BY <1>2, <2>1, <2>2 DEF RequestType
  <1>4. request' = [request EXCEPT ![r] = q]
    BY DEF Answer
  <1> HIDE DEF q
  <1> QED BY <1>3, <1>4 DEF Typed

LEMMA PassEffect ==
    ASSUME Typed, NEW r \in Requests,
           NEW step \in {"parsed", "limited"} \cup Checks, Pass(r, step)
    PROVE  /\ request'[r].signature = request[r].signature
           /\ request'[r].body = request[r].body
           /\ request'[r].at = request[r].at
           /\ request'[r].passed = request[r].passed \cup {step}
           /\ request'[r].answers = request[r].answers
           /\ \A k \in Requests \ {r} : request'[k] = request[k]
           /\ request' \in [Requests -> RequestType]
  <1>1. request[r] \in RequestType
    BY DEF Typed
  <1> DEFINE q == [request[r] EXCEPT !.passed = @ \cup {step}]
  <1>2. q \in RequestType /\ q.answers = request[r].answers /\ q.at = request[r].at
        /\ q.signature = request[r].signature /\ q.body = request[r].body
        /\ q.passed = request[r].passed \cup {step}
    BY <1>1 DEF RequestType
  <1>3. request' = [request EXCEPT ![r] = q]
    BY DEF Pass
  <1> HIDE DEF q
  <1> QED BY <1>2, <1>3 DEF Typed

-----------------------------------------------------------------------------
\* The steps.

\* One request moves on, uncounted.
LEMMA OneMoves ==
    ASSUME ServerInv, UNCHANGED <<startVars, hits>>, NEW r \in Requests,
           request' \in [Requests -> RequestType],
           \A k \in Requests \ {r} : request'[k] = request[k],
           Way(request'[r]),
           r \in Accepted => request'[r].at \notin {"new", "refused"},
           r \in Counted => "limited" \in request'[r].passed,
           request'[r].answers # << 429 >>
    PROVE  ServerInv'
  <1>1. Typed' /\ Ways'
    BY DEF ServerInv, Typed, Ways, startVars
  <1>2. Accepted \subseteq Accepted' /\ Counted \subseteq Counted'
    BY DEF Accepted, Counted
  <1>3. \A w \in Workers : hits'[w] <= hits[w]
    BY DEF ServerInv, Typed
  <1>4. \A k \in Requests : request'[k].answers = << 429 >> => request[k].answers = << 429 >>
    OBVIOUS
  <1> QED BY <1>1, <1>2, <1>3, <1>4, RequestsMove

\* Where the request stands before a step of worker w.
LEMMA AtWorker ==
    ASSUME ServerInv, NEW r \in Requests, request[r].at \in Workers
    PROVE  /\ request[r].answers = <<>>
           /\ Way(request[r]) /\ request[r] \in RequestType
           /\ r \in Counted => "limited" \in request[r].passed
  <1>1. request[r].at # "answered"
    BY ServerAssumption
  <1>2. Way(request[r]) /\ request[r] \in RequestType
    BY DEF ServerInv, Ways, Typed
  <1>3. request[r].answers = <<>> /\ << 429 >> # <<>>
    BY <1>1, <1>2 DEF Way
  <1> QED BY <1>2, <1>3 DEF Counted

\* A middleware or the handler ends the way of a request, but not with 429.
LEMMA EndsWithAnswer ==
    ASSUME ServerInv, UNCHANGED <<startVars, hits>>, NEW r \in Requests,
           request[r].at \in Workers,
           NEW s \in Statuses \ {429}, Answer(r, s),
           s = 201 => request[r].signature \in Signed /\ request[r].body = "valid"
    PROVE  ServerInv'
  <1>1. /\ request[r].answers = <<>>
        /\ Way(request[r])
        /\ r \in Counted => "limited" \in request[r].passed
    BY AtWorker
  <1>2. /\ request'[r].signature = request[r].signature
        /\ request'[r].body = request[r].body
        /\ request'[r].at = "answered"
        /\ request'[r].passed = request[r].passed
        /\ request'[r].answers = <<s>>
        /\ \A k \in Requests \ {r} : request'[k] = request[k]
        /\ request' \in [Requests -> RequestType]
    BY <1>1, AnswerEffect DEF ServerInv
  <1>3. Way(request'[r])
    BY <1>1, <1>2 DEF Way
  <1>4. <<s>> # << 429 >>
    OBVIOUS
  <1> QED BY <1>1, <1>2, <1>3, <1>4, OneMoves

\* A middleware calls next().
LEMMA GoesOn ==
    ASSUME ServerInv, UNCHANGED <<startVars, hits>>, NEW r \in Requests,
           request[r].at \in Workers,
           NEW step \in {"parsed"} \cup Checks, Pass(r, step),
           step = "parsed" => request[r].body # "malformed",
           step = "signature" => request[r].signature \in Signed,
           step = "body" => request[r].body = "valid"
    PROVE  ServerInv'
  <1>1. /\ request[r].answers = <<>>
        /\ Way(request[r])
        /\ r \in Counted => "limited" \in request[r].passed
    BY AtWorker
  <1>2. /\ request'[r].signature = request[r].signature
        /\ request'[r].body = request[r].body
        /\ request'[r].at = request[r].at
        /\ request'[r].passed = request[r].passed \cup {step}
        /\ request'[r].answers = request[r].answers
        /\ \A k \in Requests \ {r} : request'[k] = request[k]
        /\ request' \in [Requests -> RequestType]
    BY PassEffect DEF ServerInv
  <1>3. request[r].at \notin {"new", "refused", "answered"} /\ step # "limited"
    BY ServerAssumption DEF Checks
  <1>4. Way(request'[r])
    BY <1>1, <1>2, <1>3 DEF Way
  <1>5. << 429 >> # <<>>
    OBVIOUS
  <1> QED BY <1>1, <1>2, <1>3, <1>4, <1>5, OneMoves

\* The limiter counts a request before it lets it pass or refuses it: a counter
\* beyond the limit has counted so many requests, and all of them are accepted.
LEMMA LimitKeeps ==
    ASSUME ServerInv, NEW r \in Requests, NEW w \in Workers, Limit(r, w)
    PROVE  ServerInv'
  <1>1. /\ request[r].at = w /\ request[r].passed = {"parsed"}
        /\ hits' = [hits EXCEPT ![w] = @ + 1]
        /\ UNCHANGED startVars
    BY DEF Limit, At
  <1>2. /\ request[r].answers = <<>>
        /\ Way(request[r])
        /\ r \notin Counted
    BY <1>1, AtWorker
  <1>3. request[r].at \notin {"new", "refused", "answered"}
    BY <1>1, ServerAssumption
  <1>4. /\ request'[r].signature = request[r].signature
        /\ request'[r].body = request[r].body
        /\ \A k \in Requests \ {r} : request'[k] = request[k]
        /\ request' \in [Requests -> RequestType]
        /\ \/ /\ hits'[w] > MaxHits
              /\ request'[r].at = "answered" /\ request'[r].answers = << 429 >>
              /\ request'[r].passed = request[r].passed
           \/ /\ request'[r].at = request[r].at /\ request'[r].answers = <<>>
              /\ request'[r].passed = request[r].passed \cup {"limited"}
    <2>1. CASE hits'[w] > MaxHits
      <3>1. Answer(r, 429) /\ 429 \in Statuses
        BY <2>1 DEF Limit, Statuses
      <3> QED BY <1>2, <2>1, <3>1, AnswerEffect DEF ServerInv
    <2>2. CASE ~ (hits'[w] > MaxHits)
      <3>1. Pass(r, "limited")
        BY <2>2 DEF Limit
      <3> QED BY <1>2, <3>1, PassEffect DEF ServerInv
    <2> QED BY <2>1, <2>2
  <1>5. Way(request'[r])
    BY <1>1, <1>2, <1>3, <1>4 DEF Way, Statuses
  <1>6. Typed' /\ Ways'
    <2>1. Ways'
      BY <1>4, <1>5 DEF ServerInv, Ways
    <2>2. hits' \in [Workers -> Nat]
      BY <1>1 DEF ServerInv, Typed
    <2>3. Typed'
      BY <1>1, <1>4, <2>2 DEF ServerInv, Typed, startVars
    <2> QED BY <2>1, <2>3
  <1>7. Counted' = Counted \cup {r} /\ Accepted' = Accepted /\ r \in Accepted
    <2>1. r \in Counted' /\ r \in Accepted /\ r \in Accepted'
      BY <1>3, <1>4 DEF Counted, Accepted
    <2>2. \A k \in Requests \ {r} : (k \in Counted' <=> k \in Counted)
                                    /\ (k \in Accepted' <=> k \in Accepted)
      BY <1>4 DEF Counted, Accepted
    <2>3. Counted \subseteq Requests /\ Counted' \subseteq Requests
          /\ Accepted \subseteq Requests /\ Accepted' \subseteq Requests
      BY DEF Counted, Accepted
    <2> QED BY <2>1, <2>2, <2>3
  <1>8. /\ IsFiniteSet(Counted) /\ IsFiniteSet(Accepted)
        /\ Cardinality(Counted) \in Nat /\ Cardinality(Accepted) \in Nat
        /\ Counted \subseteq Accepted
    BY CountedAreAccepted DEF ServerInv
  <1>9. Cardinality(Counted') = Cardinality(Counted) + 1
    BY <1>2, <1>7, <1>8, FS_AddElement
  <1>10. Cardinality(Counted') <= Cardinality(Accepted')
    BY <1>7, <1>8, FS_Subset
  <1>11. \A v \in Workers : hits'[v] <= Cardinality(Counted')
    BY <1>1, <1>8, <1>9 DEF ServerInv, Counts, Typed
  <1>12. ASSUME NEW k \in Requests, request'[k].answers = << 429 >>
         PROVE  Cardinality(Accepted') > MaxHits
    <2>1. CASE k = r
      <3>1. << 429 >> # <<>>
        OBVIOUS
      <3>2. hits'[w] > MaxHits /\ hits'[w] \in Nat
        BY <1>4, <1>6, <1>12, <2>1, <3>1 DEF Typed
      <3> QED BY <1>7, <1>8, <1>9, <1>10, <1>11, <3>2, ServerAssumption
    <2>2. CASE k # r
      BY <1>4, <1>7, <1>12, <2>2 DEF ServerInv, Counts
    <2> QED BY <2>1, <2>2
  <1> QED BY <1>6, <1>11, <1>12 DEF ServerInv, Counts

\* A request is accepted by a worker, or refused by the port.
LEMMA ArrivalKeeps ==
    ASSUME ServerInv, NEW r \in Requests,
           Refuse(r) \/ \E w \in Workers : Accept(r, w)
    PROVE  ServerInv'
  <1>1. request[r].at = "new" /\ UNCHANGED <<startVars, hits>>
    BY DEF Refuse, Accept, startVars
  <1>2. Way(request[r]) /\ request[r] \in RequestType
    BY DEF ServerInv, Ways, Typed
  <1>3. request[r].passed = {} /\ request[r].answers = <<>> /\ << 429 >> # <<>>
    BY <1>1, <1>2 DEF Way
  <1>4. r \notin Counted /\ r \notin Accepted
    BY <1>1, <1>3 DEF Counted, Accepted
  <1>5. PICK q : /\ request' = [request EXCEPT ![r] = q] /\ q \in RequestType
                 /\ Way(q) /\ q.answers = <<>>
    <2>1. CASE Refuse(r)
      <3> DEFINE q == [request[r] EXCEPT !.at = "refused"]
      <3>1. /\ q \in RequestType /\ q.at = "refused"
            /\ q.passed = request[r].passed /\ q.answers = request[r].answers
        BY <1>2 DEF RequestType
      <3>2. request' = [request EXCEPT ![r] = q]
        BY <2>1 DEF Refuse
      <3> HIDE DEF q
      <3>3. Way(q)
        BY <1>3, <3>1 DEF Way
      <3> QED BY <1>3, <3>1, <3>2, <3>3
    <2>2. ASSUME NEW w \in Workers, Accept(r, w)
          PROVE  \E q : /\ request' = [request EXCEPT ![r] = q] /\ q \in RequestType
                        /\ Way(q) /\ q.answers = <<>>
      <3>1. PICK sig \in Signatures, b \in Bodies :
              request' = [request EXCEPT ![r] =
                [Fresh EXCEPT !.signature = sig, !.body = b, !.at = w]]
        BY <2>2 DEF Accept
      <3> DEFINE q == [Fresh EXCEPT !.signature = sig, !.body = b, !.at = w]
      <3>2. /\ q \in RequestType /\ q.at = w /\ q.passed = {} /\ q.answers = <<>>
        <4>1. /\ Fresh \in RequestType
              /\ Fresh.passed = {} /\ Fresh.answers = <<>>
          BY DEF Fresh, RequestType, Signatures, Bodies
        <4> QED BY <4>1 DEF RequestType
      <3> HIDE DEF q
      <3>3. Way(q)
        BY <3>2, ServerAssumption DEF Way
      <3>4. request' = [request EXCEPT ![r] = q]
        BY <3>1 DEF q
      <3> QED BY <3>2, <3>3, <3>4
    <2> QED BY <2>1, <2>2
  <1>6. /\ request'[r] = q
        /\ \A k \in Requests \ {r} : request'[k] = request[k]
        /\ request' \in [Requests -> RequestType]
    BY <1>5 DEF ServerInv, Typed
  <1> QED BY <1>1, <1>3, <1>4, <1>5, <1>6, OneMoves

\* A worker dies with the requests it has.
LEMMA CrashKeeps ==
    ASSUME ServerInv, NEW w \in Workers, Crash(w)
    PROVE  ServerInv'
  <1>1. UNCHANGED <<initialized, executed, hits>>
    BY DEF Crash
  <1>2. ASSUME NEW r \in Requests
        PROVE  /\ request'[r] \in RequestType
               /\ Way(request'[r])
               /\ request'[r].answers = request[r].answers
               /\ request'[r].passed = request[r].passed
               /\ r \in Accepted => request'[r].at \notin {"new", "refused"}
    <2>1. Way(request[r]) /\ request[r] \in RequestType
      BY DEF ServerInv, Ways, Typed
    <2>2. CASE request[r].at = w
      <3> DEFINE q == [request[r] EXCEPT !.at = "lost"]
      <3>1. /\ q \in RequestType /\ q.at = "lost"
            /\ q.passed = request[r].passed /\ q.answers = request[r].answers
            /\ q.signature = request[r].signature /\ q.body = request[r].body
        BY <2>1 DEF RequestType
      <3>2. request'[r] = q
        BY <2>2 DEF Crash
      <3>3. request[r].at # "answered"
        BY <2>2, ServerAssumption
      <3> HIDE DEF q
      <3>4. Way(q)
        BY <2>1, <3>1, <3>3 DEF Way
      <3> QED BY <3>1, <3>2, <3>4
    <2>3. CASE request[r].at # w
      <3>1. request'[r] = request[r]
        BY <2>3 DEF Crash
      <3> QED BY <2>1, <3>1 DEF Accepted
    <2> QED BY <2>2, <2>3
  <1>3. request' \in [Requests -> RequestType]
    <2>1. request' = [r \in Requests |-> request'[r]]
      BY DEF Crash
    <2> QED BY <1>2, <2>1
  <1>4. stage' \in [Workers -> {"unborn", "booting", "dead"} \cup Open]
    BY DEF Crash, ServerInv, Typed
  <1>5. Typed' /\ Ways'
    BY <1>1, <1>2, <1>3, <1>4 DEF ServerInv, Typed, Ways
  <1>6. Accepted \subseteq Accepted' /\ Counted \subseteq Counted'
    BY <1>2 DEF Accepted, Counted
  <1>7. \A v \in Workers : hits'[v] <= hits[v]
    BY <1>1 DEF ServerInv, Typed
  <1> QED BY <1>2, <1>5, <1>6, <1>7, RequestsMove

\* The steps that leave every request where it is.
LEMMA QuietKeeps ==
    ASSUME ServerInv, UNCHANGED request, Typed',
           \A w \in Workers : hits'[w] <= hits[w]
    PROVE  ServerInv'
  <1>1. Ways' /\ Accepted' = Accepted /\ Counted' = Counted
    BY DEF ServerInv, Ways, Accepted, Counted
  <1> QED BY <1>1, RequestsMove

LEMMA ServerStep ==
    ASSUME ServerInv, [ServerNext]_serverVars
    PROVE  ServerInv'
  <1>0. Typed /\ \A w \in Workers : hits[w] \in Nat
    BY DEF ServerInv, Typed
  <1>1. CASE UNCHANGED serverVars
    <2>1. Typed' /\ UNCHANGED request /\ \A w \in Workers : hits'[w] <= hits[w]
      BY <1>0, <1>1 DEF serverVars, Typed
    <2> QED BY <2>1, QuietKeeps
  <1>2. CASE Fork
    <2>1. Typed' /\ UNCHANGED request /\ \A w \in Workers : hits'[w] <= hits[w]
      BY <1>0, <1>2 DEF Fork, Typed
    <2> QED BY <2>1, QuietKeeps
  <1>3. ASSUME NEW w \in Workers, StartStep(w)
        PROVE  ServerInv'
    <2>1. UNCHANGED <<initialized, hits, request>>
      BY <1>3 DEF StartStep, Listen, ExecuteDatabase, ExecutePubSub, ExecuteRequestReply
    <2>2. stage' \in [Workers -> {"unborn", "booting", "dead"} \cup Open]
      BY <1>0, <1>3 DEF StartStep, Listen, ExecuteDatabase, ExecutePubSub,
                        ExecuteRequestReply, Typed, Open
    <2>3. executed' \in [Workers -> SUBSET Registries]
      BY <1>0, <1>3 DEF StartStep, Listen, ExecuteDatabase, ExecutePubSub,
                        ExecuteRequestReply, Executed, Registries, Typed
    <2>4. Typed' /\ \A v \in Workers : hits'[v] <= hits[v]
      BY <1>0, <2>1, <2>2, <2>3 DEF Typed
    <2> QED BY <2>1, <2>4, QuietKeeps
  <1>4. ASSUME NEW w \in Workers, WindowEnds(w)
        PROVE  ServerInv'
    <2>1. UNCHANGED <<stage, initialized, executed, request>>
          /\ hits' = [hits EXCEPT ![w] = 0]
      BY <1>4 DEF WindowEnds, startVars
    <2>2. Typed' /\ \A v \in Workers : hits'[v] <= hits[v]
      BY <1>0, <2>1 DEF Typed
    <2> QED BY <2>1, <2>2, QuietKeeps
  <1>5. ASSUME NEW r \in Requests, NEW w \in Workers, RequestStep(r, w)
        PROVE  ServerInv'
    <2>1. request[r].at \in Workers
      BY <1>5 DEF RequestStep, ParseBody, Limit, CheckSignature, CheckBody, Handle, At, AtCheck
    <2>2. Way(request[r]) /\ request[r] \in RequestType
      BY <2>1, AtWorker
    <2>3. CASE ParseBody(r, w)
      BY <2>1, <2>3, EndsWithAnswer, GoesOn DEF ParseBody, Statuses
    <2>4. CASE Limit(r, w)
      BY <2>4, LimitKeeps
    <2>5. CASE CheckSignature(r, w)
      <3>1. UNCHANGED <<startVars, hits>> /\ request[r].signature \in Signatures
        BY <2>2, <2>5 DEF CheckSignature, RequestType
      <3>2. CASE request[r].signature # "absent" /\ Matches(r)
        <4>1. Pass(r, "signature") /\ "signature" \in Checks
          BY <2>5, <3>2 DEF CheckSignature, Checks
        <4>2. request[r].signature \in Signed
          BY <3>2 DEF Matches, Signed
        <4> QED BY <2>1, <3>1, <4>1, <4>2, GoesOn
      <3>3. CASE request[r].signature # "absent" /\ ~ Matches(r)
        <4>1. Answer(r, 401)
          BY <2>5, <3>3 DEF CheckSignature
        <4> QED BY <2>1, <3>1, <4>1, EndsWithAnswer DEF Statuses
      <3>4. CASE request[r].signature = "absent"
        <4>1. Answer(r, 403)
          BY <2>5, <3>4 DEF CheckSignature
        <4> QED BY <2>1, <3>1, <4>1, EndsWithAnswer DEF Statuses
      <3> QED BY <3>2, <3>3, <3>4
    <2>6. CASE CheckBody(r, w)
      <3>1. /\ UNCHANGED <<startVars, hits>> /\ request[r].body \in Bodies
            /\ "limited" \in request[r].passed
        BY <2>2, <2>6 DEF CheckBody, AtCheck, RequestType
      <3>2. CASE request[r].body = "invalid"
        <4>1. Answer(r, 400)
          BY <2>6, <3>2 DEF CheckBody
        <4> QED BY <2>1, <3>1, <4>1, EndsWithAnswer DEF Statuses
      <3>3. CASE request[r].body # "invalid"
        <4>1. Pass(r, "body") /\ "body" \in Checks
          BY <2>6, <3>3 DEF CheckBody, Checks
        <4>2. request[r].body = "valid"
          BY <2>2, <3>1, <3>3 DEF Way, Bodies
        <4> QED BY <2>1, <3>1, <4>1, <4>2, GoesOn
      <3> QED BY <3>2, <3>3
    <2>7. CASE Handle(r, w)
      <3>1. request[r].signature \in Signed /\ request[r].body = "valid"
        BY <2>2, <2>7 DEF Handle, Handling, Checks, Way
      <3>2. PICK s \in {201, 400, 500} : Answer(r, s)
        BY <2>7 DEF Handle
      <3>3. s \in Statuses \ {429} /\ UNCHANGED <<startVars, hits>>
        BY <2>7 DEF Handle, Statuses
      <3> QED BY <2>1, <3>1, <3>2, <3>3, EndsWithAnswer
    <2> QED BY <1>5, <2>3, <2>4, <2>5, <2>6, <2>7 DEF RequestStep
  <1> QED BY <1>1, <1>2, <1>3, <1>4, <1>5, ArrivalKeeps, CrashKeeps DEF ServerNext

-----------------------------------------------------------------------------
\* The invariant holds in every state of every server.
THEOREM ServerInvariant == ServerSpec => []ServerInv
  <1> QED BY ServerInitially, ServerStep, PTL DEF ServerSpec

\* Every variable has its type, and no counter exceeds the number of requests.
THEOREM ServerTypeCorrect == ServerSpec => []ServerTypeOK
  <1> QED BY ServerInvariant, ServerInvImplies, PTL

\* The handler runs only for signed requests with valid bodies, in whichever
\* order the two middlewares of @UseBefore run.
THEOREM HandlerAlwaysGuarded == ServerSpec => []HandlerIsGuarded
  <1> QED BY ServerInvariant, ServerInvImplies, PTL

\* No request is answered twice.
THEOREM AnsweredOnce == ServerSpec => []OneAnswer
  <1> QED BY ServerInvariant, ServerInvImplies, PTL

\* A client within the limit is refused by no worker, however many there are
\* and however often one of them dies.
THEOREM LimitIsKept == ServerSpec => []TooManyMeansTooMany
  <1> QED BY ServerInvariant, ServerInvImplies, PTL
=============================================================================
