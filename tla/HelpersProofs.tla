---------------------------- MODULE HelpersProofs ----------------------------
(***************************************************************************)
(* For every value of the constants: what Saga and Tokens promise.            *)
(***************************************************************************)
EXTENDS Saga, Tokens, TLAPS

-----------------------------------------------------------------------------
\* Tokens.

\* What verifying gave back has an expiry, and every authenticated request
\* carries an access token.
TokensInv ==
    /\ TokensTypeOK
    /\ \A c \in decoded : c.exp # Never
    /\ NoRenewal
    /\ AccessHasRefresh
    /\ \A v \in Visits : visit[v] = "authenticated" => carries[v] \in Tokens /\ Access(carries[v])

LEMMA TokensInitially == TokensInit => TokensInv
  BY TokensAssumption
     DEF TokensInit, TokensInv, TokensTypeOK, NoRenewal, AccessHasRefresh, NoToken

\* A pair is signed for claims without an expiry, that is at a login.
LEMMA GenerateKeeps ==
    ASSUME TokensInv, NEW c \in FreshClaims \cup decoded, GenerateJwtToken(c)
    PROVE  TokensInv'
  <1> USE TokensAssumption DEF TokensInv
  <1>1. UNCHANGED <<now, decoded, visit, carries>> /\ now \in Nat /\ lastLogin \in 0 .. now
    BY DEF GenerateJwtToken, TokensTypeOK
  <1>2. CASE c \in FreshClaims
    <2>1. c.role \in Roles /\ lastLogin' = now /\ tokens' = tokens \cup Pair(c)
      BY <1>2 DEF GenerateJwtToken, Signable, FreshClaims
    <2>2. Pair(c) \subseteq Tokens
      BY <1>1, <2>1 DEF Pair, Tokens
    <2>3. TokensTypeOK'
      BY <1>1, <2>1, <2>2 DEF TokensTypeOK
    <2>4. \A t \in tokens : t.exp \in Nat
      BY DEF TokensTypeOK, Tokens
    <2>5. NoRenewal'
      BY <1>1, <2>1, <2>4 DEF NoRenewal, Pair
    <2>6. AccessHasRefresh'
      <3>1. ASSUME NEW t \in tokens', t.kind = "access"
            PROVE  \E u \in tokens' : u.kind = "refresh" /\ u.role = t.role /\ u.exp > t.exp
        <4>1. CASE t \in tokens
          BY <2>1, <3>1, <4>1 DEF AccessHasRefresh
        <4>2. CASE t \in Pair(c)
          <5> DEFINE u == [kind |-> "refresh", role |-> c.role, exp |-> now + RefreshLife]
          <5>1. t.exp = now + AccessLife /\ t.role = c.role
            BY <3>1, <4>2 DEF Pair
          <5>2. u \in tokens' /\ u.kind = "refresh" /\ u.role = t.role /\ u.exp > t.exp
            BY <1>1, <2>1, <5>1 DEF Pair
          <5> QED BY <5>2
        <4> QED BY <2>1, <3>1, <4>1, <4>2
      <3> QED BY <3>1 DEF AccessHasRefresh
    <2> QED BY <1>1, <2>3, <2>5, <2>6
  <1>3. CASE c \in decoded
    <2>1. tokens' = tokens /\ lastLogin' = lastLogin
      BY <1>3 DEF GenerateJwtToken, Signable, FreshClaims
    <2> QED BY <1>1, <2>1 DEF TokensTypeOK, NoRenewal, AccessHasRefresh
  <1> QED BY <1>2, <1>3

LEMMA TokensStep ==
    ASSUME TokensInv, [TokensNext]_tokenVars
    PROVE  TokensInv'
  <1> USE TokensAssumption DEF TokensInv
  <1>1. CASE UNCHANGED tokenVars
    BY <1>1 DEF tokenVars, TokensTypeOK, NoRenewal, AccessHasRefresh
  <1>2. CASE Tick
    BY <1>2 DEF Tick, TokensTypeOK, NoRenewal, AccessHasRefresh
  <1>3. ASSUME NEW t \in tokens, GetClaims(t)
        PROVE  TokensInv'
    <2>1. t.role \in Roles /\ t.exp \in Nat /\ t.exp # Never
      BY <1>3 DEF GetClaims, Live, TokensTypeOK, Tokens, Never
    <2>2. decoded' = decoded \cup {[role |-> t.role, exp |-> t.exp]}
          /\ UNCHANGED <<now, tokens, visit, carries, lastLogin>>
      BY <1>3 DEF GetClaims
    <2> QED BY <2>1, <2>2 DEF TokensTypeOK, Claims, NoRenewal, AccessHasRefresh
  <1>4. ASSUME NEW v \in Visits, NEW t \in tokens \cup {NoToken}, Present(v, t)
        PROVE  TokensInv'
    BY <1>4 DEF Present, Move, TokensTypeOK, NoRenewal, AccessHasRefresh
  <1>5. ASSUME NEW v \in Visits, AuthenticateJwt(v)
        PROVE  TokensInv'
    <2>1. Access(carries[v]) => carries[v] \in Tokens
      BY DEF TokensTypeOK, Access, NoToken
    <2> QED BY <1>5, <2>1
            DEF AuthenticateJwt, Move, TokensTypeOK, NoRenewal, AccessHasRefresh
  <1>6. ASSUME NEW v \in Visits, AuthorizeRole(v)
        PROVE  TokensInv'
    BY <1>6 DEF AuthorizeRole, Move, TokensTypeOK, NoRenewal, AccessHasRefresh
  <1> QED BY <1>1, <1>2, <1>3, <1>4, <1>5, <1>6, GenerateKeeps DEF TokensNext

LEMMA HandledIsAuthorizedStep ==
    ASSUME TokensInv, [TokensNext]_tokenVars
    PROVE  [\A v \in Visits :
              visit[v] # "handled" /\ visit'[v] = "handled" =>
                  /\ carries[v] \in [kind : {"access"}, role : {Required}, exp : Nat]
                  /\ Live(carries[v])]_tokenVars
  <1> SUFFICES ASSUME NEW v \in Visits, visit[v] # "handled", visit'[v] = "handled", TokensNext
               PROVE  /\ carries[v] \in [kind : {"access"}, role : {Required}, exp : Nat]
                      /\ Live(carries[v])
    BY DEF tokenVars
  <1>1. visit \in [Visits -> {"new", "presented", "authenticated", "handled",
                             "401", "403", "500"}]
    BY DEF TokensInv, TokensTypeOK
  <1>2. AuthorizeRole(v)
    BY <1>1 DEF TokensNext, Tick, GenerateJwtToken, GetClaims, Present, AuthenticateJwt,
                AuthorizeRole, Move
  <1>3. Live(carries[v]) /\ carries[v].role = Required
    BY <1>1, <1>2 DEF AuthorizeRole, Move
  <1>4. carries[v] \in Tokens /\ carries[v].kind = "access"
    BY <1>2 DEF TokensInv, AuthorizeRole, Access
  <1> QED BY <1>3, <1>4 DEF Tokens

\* The invariant of the tokens holds in every state.
THEOREM TokensInvariant == TokensSpec => []TokensInv
  <1> QED BY TokensInitially, TokensStep, PTL DEF TokensSpec

\* Tokens, claims and requests have their types.
THEOREM TokensTypeCorrect == TokensSpec => []TokensTypeOK
  <1>1. TokensInv => TokensTypeOK
    BY DEF TokensInv
  <1> QED BY <1>1, TokensInvariant, PTL

\* However long tokens live: none outlives the last login by more than the life
\* of a refresh token.
THEOREM SessionsAreNotRenewed == TokensSpec => []NoRenewal
  <1>1. TokensInv => NoRenewal
    BY DEF TokensInv
  <1> QED BY <1>1, TokensInvariant, PTL

\* Every access token has a refresh token to outlive it.
THEOREM PairsStayTogether == TokensSpec => []AccessHasRefresh
  <1>1. TokensInv => AccessHasRefresh
    BY DEF TokensInv
  <1> QED BY <1>1, TokensInvariant, PTL

\* Whatever the clock does between the two middlewares, the handler starts for a
\* live access token with the role asked for.
THEOREM HandledAlwaysAuthorized == TokensSpec => HandledIsAuthorized
  <1> QED BY TokensInvariant, HandledIsAuthorizedStep, PTL DEF TokensSpec, HandledIsAuthorized

-----------------------------------------------------------------------------
\* Saga.

\* Only the first activity of a name has compensations, the callbacks that
\* returned were the builder's, and an execution at a compensation has its
\* action and the compensations before it as its last calls.
ActivityType == [name : Names, compensations : 0 .. MaxCompensations]
CallType == [activity : Nat, compensation : Nat, result : Results]
Position == [activity : Nat, compensation : Nat]

BuilderInv ==
    /\ activities \in Seq(ActivityType)
    /\ \A i \in DOMAIN activities : activities[i].compensations > 0 =>
          \A k \in 1 .. i - 1 : activities[k].name # activities[i].name

\* The builder has compensation j of activity i.
Has(i, j) == i \in DOMAIN activities /\ j <= activities[i].compensations

CallsInv ==
    \A e \in Executions :
        /\ at[e] \in Position
        /\ status[e] = "running" => Has(at[e].activity, at[e].compensation)
        /\ calls[e] \in Seq(CallType)
        /\ result[e] \in Results
        /\ \A k \in 1 .. Len(calls[e]) :
              Has(calls[e][k].activity, calls[e][k].compensation)

\* Call k of a list of calls is an action, or it follows its own action.
Own(s, k) ==
    s[k].compensation > 0 =>
        /\ k > s[k].compensation
        /\ s[k - s[k].compensation] = [s[k] EXCEPT !.compensation = 0]

\* The next call of a list would follow the action of activity i with result r.
Follows(s, i, j, r) ==
    j > 0 =>
        /\ Len(s) >= j
        /\ s[Len(s) + 1 - j] = [activity |-> i, compensation |-> 0, result |-> r]

OwnInv ==
    \A e \in Executions :
        /\ status[e] = "running" =>
              Follows(calls[e], at[e].activity, at[e].compensation, result[e])
        /\ \A k \in 1 .. Len(calls[e]) : Own(calls[e], k)

SagaShape ==
    /\ status \in [Executions -> {"idle", "running", "resolved", "rejected"}]
    /\ DOMAIN at = Executions /\ at = [e \in Executions |-> at[e]]
    /\ result = [e \in Executions |-> result[e]]
    /\ calls = [e \in Executions |-> calls[e]]
    /\ \A e \in Executions : status[e] = "idle" => at[e] = Nowhere

SagaInv == SagaShape /\ BuilderInv /\ CallsInv /\ OwnInv

LEMMA CompensationsAreNumbers ==
    ASSUME BuilderInv, NEW i \in DOMAIN activities
    PROVE  /\ activities[i].name \in Names
           /\ activities[i].compensations \in Nat
           /\ i \in Nat /\ Len(activities) \in Nat /\ DOMAIN activities = 1 .. Len(activities)
  <1>1. /\ activities[i] \in ActivityType
        /\ i \in Nat /\ Len(activities) \in Nat /\ DOMAIN activities = 1 .. Len(activities)
    BY DEF BuilderInv
  <1> QED BY <1>1, SagaAssumption DEF ActivityType

LEMMA CallsAreTyped ==
    ASSUME CallsInv, NEW e \in Executions
    PROVE  /\ Len(calls[e]) \in Nat /\ DOMAIN calls[e] = 1 .. Len(calls[e])
           /\ \A k \in 1 .. Len(calls[e]) :
                /\ calls[e][k] \in CallType
                /\ calls[e][k].compensation \in Nat
  <1>1. calls[e] \in Seq(CallType)
    BY DEF CallsInv
  <1>2. \A k \in 1 .. Len(calls[e]) : calls[e][k] \in CallType
    BY <1>1
  <1>3. \A k \in 1 .. Len(calls[e]) : calls[e][k].compensation \in Nat
    BY <1>2 DEF CallType
  <1> QED BY <1>1, <1>2, <1>3

LEMMA SagaInvImplies ==
    ASSUME SagaInv
    PROVE  CompensatedWithOwnResult /\ NamesakeIsNeverCompensated
  <1>1. ASSUME NEW e \in Executions, NEW k \in DOMAIN calls[e],
               calls[e][k].compensation > 0
        PROVE  /\ k > calls[e][k].compensation
               /\ calls[e][k - calls[e][k].compensation]
                    = [calls[e][k] EXCEPT !.compensation = 0]
    <2>1. k \in 1 .. Len(calls[e])
      BY CallsAreTyped DEF SagaInv
    <2>2. Own(calls[e], k)
      BY <2>1 DEF SagaInv, OwnInv
    <2> QED BY <1>1, <2>2 DEF Own
  <1>2. ASSUME NEW e \in Executions, NEW k \in DOMAIN calls[e],
               calls[e][k].compensation > 0,
               NEW i \in 1 .. calls[e][k].activity - 1
        PROVE  activities[i].name # activities[calls[e][k].activity].name
    <2>1. k \in 1 .. Len(calls[e]) /\ calls[e][k].compensation \in Nat
      BY CallsAreTyped DEF SagaInv
    <2>2. Has(calls[e][k].activity, calls[e][k].compensation)
      BY <2>1 DEF SagaInv, CallsInv
    <2>3. /\ calls[e][k].activity \in DOMAIN activities
          /\ calls[e][k].compensation <= activities[calls[e][k].activity].compensations
      BY <2>2 DEF Has
    <2>4. activities[calls[e][k].activity].compensations \in Nat
      BY <2>3, CompensationsAreNumbers DEF SagaInv
    <2>5. activities[calls[e][k].activity].compensations > 0
      BY <1>2, <2>1, <2>3, <2>4
    <2> QED BY <1>2, <2>3, <2>5 DEF SagaInv, BuilderInv
  <1> QED BY <1>1, <1>2 DEF CompensatedWithOwnResult, NamesakeIsNeverCompensated

LEMMA SagaInitially == SagaInit => SagaInv
  <1> SUFFICES ASSUME SagaInit PROVE SagaInv
    OBVIOUS
  <1>1. SagaShape /\ BuilderInv
    BY DEF SagaInit, SagaShape, BuilderInv
  <1>2. CallsInv
    BY DEF SagaInit, CallsInv, Nowhere, Results, Position
  <1>3. OwnInv
    BY DEF SagaInit, OwnInv
  <1> QED BY <1>1, <1>2, <1>3 DEF SagaInv

\* Where an execution goes on after a callback.
LEMMA GoOnEffect ==
    ASSUME SagaInv, NEW e \in Executions, NEW i \in DOMAIN activities, NEW j \in Nat,
           Awaits(e, i, j), GoOn(e, i, j)
    PROVE  /\ status' \in [Executions -> {"idle", "running", "resolved", "rejected"}]
           /\ at' = [f \in Executions |-> at'[f]]
           /\ \A f \in Executions \ {e} : at'[f] = at[f] /\ status'[f] = status[f]
           /\ \/ /\ status'[e] = "running"
                 /\ at'[e] = [activity |-> i, compensation |-> j + 1]
                 /\ j + 1 <= activities[i].compensations
              \/ /\ status'[e] = "running"
                 /\ at'[e] = [activity |-> i + 1, compensation |-> 0]
                 /\ i + 1 \in DOMAIN activities
              \/ /\ status'[e] = "resolved" /\ at'[e] = Nowhere
                 /\ i = Len(activities)
  <1>1. /\ status \in [Executions -> {"idle", "running", "resolved", "rejected"}]
        /\ DOMAIN at = Executions
        /\ at = [f \in Executions |-> at[f]]
        /\ status[e] = "running" /\ at[e] = [activity |-> i, compensation |-> j]
    BY DEF SagaInv, SagaShape, Awaits
  <1>2. /\ activities[i].compensations \in Nat /\ Len(activities) \in Nat /\ i \in Nat
        /\ DOMAIN activities = 1 .. Len(activities)
    BY CompensationsAreNumbers DEF SagaInv
  <1>3. CASE j < activities[i].compensations
    <2>1. at' = [at EXCEPT ![e].compensation = j + 1] /\ status' = status
      BY <1>3 DEF GoOn
    <2>2. at'[e] = [activity |-> i, compensation |-> j + 1]
      BY <1>1, <2>1
    <2>3. /\ at' = [f \in Executions |-> at'[f]]
          /\ \A f \in Executions \ {e} : at'[f] = at[f]
      BY <1>1, <2>1
    <2>4. j + 1 <= activities[i].compensations
      BY <1>2, <1>3
    <2> QED BY <1>1, <2>1, <2>2, <2>3, <2>4
  <1>4. CASE ~ (j < activities[i].compensations) /\ i < Len(activities)
    BY <1>1, <1>2, <1>4 DEF GoOn
  <1>5. CASE ~ (j < activities[i].compensations) /\ ~ (i < Len(activities))
    BY <1>1, <1>2, <1>5 DEF GoOn
  <1> QED BY <1>3, <1>4, <1>5

\* One more call.
LEMMA AppendCall ==
    ASSUME NEW s \in Seq(CallType), NEW c \in CallType
    PROVE  /\ Append(s, c) \in Seq(CallType)
           /\ Len(s) \in Nat /\ Len(Append(s, c)) = Len(s) + 1
           /\ Append(s, c)[Len(s) + 1] = c
           /\ \A k \in 1 .. Len(s) : Append(s, c)[k] = s[k]
  OBVIOUS

\* A call that follows its own action goes to the end of a list of such calls.
LEMMA OwnCallAppended ==
    ASSUME NEW s \in Seq(CallType), NEW i \in Nat, NEW j \in Nat, NEW r \in Results,
           Follows(s, i, j, r), \A k \in 1 .. Len(s) : Own(s, k)
    PROVE  LET t == Append(s, [activity |-> i, compensation |-> j, result |-> r])
           IN  /\ \A k \in 1 .. Len(t) : Own(t, k)
               /\ Follows(t, i, j + 1, r)
  <1> DEFINE c == [activity |-> i, compensation |-> j, result |-> r]
             t == Append(s, c)
             n == Len(s)
  <1>1. c \in CallType /\ c.compensation = j
        /\ [c EXCEPT !.compensation = 0] = [activity |-> i, compensation |-> 0, result |-> r]
    BY DEF CallType
  <1>2. /\ t \in Seq(CallType) /\ n \in Nat /\ Len(t) = n + 1
        /\ t[n + 1] = c /\ \A k \in 1 .. n : t[k] = s[k]
    BY <1>1, AppendCall
  <1>3. j > 0 => n >= j /\ s[n + 1 - j] = [c EXCEPT !.compensation = 0]
    BY <1>1 DEF Follows
  <1>4. j = 0 => c = [c EXCEPT !.compensation = 0]
    BY <1>1
  <1> HIDE DEF t, n
  <1>5. j > 0 => n + 1 - j \in 1 .. n
    BY <1>2, <1>3
  <1>6. ASSUME NEW k \in 1 .. n PROVE Own(t, k)
    <2>1. s[k] \in CallType /\ t[k] = s[k]
      BY <1>2 DEF n
    <2>2. s[k].compensation \in Nat
      BY <2>1 DEF CallType
    <2>3. s[k].compensation > 0 =>
            k - s[k].compensation \in 1 .. n
            /\ s[k - s[k].compensation] = [s[k] EXCEPT !.compensation = 0]
            /\ k > s[k].compensation
      <3>1. Own(s, k)
        BY DEF n
      <3>2. /\ s[k].compensation > 0 => k > s[k].compensation
            /\ s[k].compensation > 0 =>
                  s[k - s[k].compensation] = [s[k] EXCEPT !.compensation = 0]
        BY <3>1, Zenon DEF Own
      <3>3. ASSUME NEW d \in Nat, d > 0, k > d
            PROVE  k - d \in 1 .. n
        BY <1>2, <3>3
      <3> QED BY <2>2, <3>2, <3>3
    <2>4. s[k].compensation > 0 => t[k - s[k].compensation] = s[k - s[k].compensation]
      BY <1>2, <2>3
    <2> QED BY <2>1, <2>3, <2>4 DEF Own
  <1>7. Own(t, n + 1)
    <2>1. j > 0 => n + 1 > j /\ t[n + 1 - j] = [c EXCEPT !.compensation = 0]
      BY <1>2, <1>3, <1>5
    <2> HIDE DEF c
    <2> QED BY <1>1, <1>2, <2>1 DEF Own
  <1>8. Follows(t, i, j + 1, r)
    <2>1. n + 1 >= j + 1 /\ (n + 1) + 1 - (j + 1) = n + 1 - j
      BY <1>2, <1>3
    <2>2. t[n + 1 - j] = [activity |-> i, compensation |-> 0, result |-> r]
      <3>1. CASE j = 0
        <4>1. n + 1 - j = n + 1
          BY <1>2, <3>1
        <4> QED BY <1>1, <1>2, <1>4, <3>1, <4>1
      <3>2. CASE j > 0
        BY <1>1, <1>2, <1>3, <1>5, <3>2
      <3> QED BY <3>1, <3>2
    <2> QED BY <1>2, <2>1, <2>2 DEF Follows
  <1>9. \A k \in 1 .. Len(t) : Own(t, k)
    BY <1>2, <1>6, <1>7
  <1> QED BY <1>8, <1>9 DEF t

\* A callback returns to execution e, and e goes on.
LEMMA CallbackReturns ==
    ASSUME SagaInv, NEW e \in Executions, NEW i \in DOMAIN activities, NEW j \in Nat,
           j <= activities[i].compensations, NEW r \in Results,
           Awaits(e, i, j), Return(e, i, j, r), GoOn(e, i, j), UNCHANGED activities,
           result' = [result EXCEPT ![e] = r], j > 0 => r = result[e]
    PROVE  SagaInv'
  <1> DEFINE c == [activity |-> i, compensation |-> j, result |-> r]
  <1>1. /\ status' \in [Executions -> {"idle", "running", "resolved", "rejected"}]
        /\ at' = [f \in Executions |-> at'[f]]
        /\ \A f \in Executions \ {e} : at'[f] = at[f] /\ status'[f] = status[f]
        /\ \/ /\ status'[e] = "running"
              /\ at'[e] = [activity |-> i, compensation |-> j + 1]
              /\ j + 1 <= activities[i].compensations
           \/ /\ status'[e] = "running"
              /\ at'[e] = [activity |-> i + 1, compensation |-> 0]
              /\ i + 1 \in DOMAIN activities
           \/ /\ status'[e] = "resolved" /\ at'[e] = Nowhere
              /\ i = Len(activities)
    BY GoOnEffect
  <1>2. /\ at[e] = [activity |-> i, compensation |-> j] /\ status[e] = "running"
        /\ i \in Nat /\ activities[i].compensations \in Nat
    BY CompensationsAreNumbers DEF SagaInv, Awaits
  <1>3. /\ calls[e] \in Seq(CallType)
        /\ calls = [f \in Executions |-> calls[f]]
        /\ result = [f \in Executions |-> result[f]]
    BY DEF SagaInv, SagaShape, CallsInv
  <1>4. /\ calls' = [f \in Executions |-> calls'[f]]
        /\ calls'[e] = Append(calls[e], c)
        /\ \A f \in Executions \ {e} : calls'[f] = calls[f]
    BY <1>3 DEF Return
  <1>5. /\ result' = [f \in Executions |-> result'[f]]
        /\ result'[e] = r
        /\ \A f \in Executions \ {e} : result'[f] = result[f]
    BY <1>3
  <1>6. c \in CallType /\ Has(i, j)
    BY <1>2 DEF CallType, Has
  <1>7. /\ calls'[e] \in Seq(CallType)
        /\ Len(calls[e]) \in Nat /\ Len(calls'[e]) = Len(calls[e]) + 1
        /\ calls'[e][Len(calls[e]) + 1] = c
        /\ \A k \in 1 .. Len(calls[e]) : calls'[e][k] = calls[e][k]
    BY <1>3, <1>4, <1>6, AppendCall
  <1>8. SagaShape'
    <2>1. status'[e] # "idle"
      BY <1>1
    <2>2. DOMAIN at' = Executions
      BY <1>1
    <2> QED BY <1>1, <1>4, <1>5, <2>1, <2>2 DEF SagaInv, SagaShape
  <1>9. BuilderInv' /\ \A x, y : Has(x, y)' <=> Has(x, y)
    BY DEF SagaInv, BuilderInv, Has
  <1>10. CallsInv'
    <2>1. ASSUME NEW f \in Executions \ {e}
          PROVE  /\ at'[f] \in Position
                 /\ status'[f] = "running" => Has(at'[f].activity, at'[f].compensation)
                 /\ calls'[f] \in Seq(CallType)
                 /\ result'[f] \in Results
                 /\ \A k \in 1 .. Len(calls'[f]) :
                      Has(calls'[f][k].activity, calls'[f][k].compensation)
      BY <1>1, <1>4, <1>5 DEF SagaInv, CallsInv
    <2>2. /\ at'[e] \in Position
          /\ status'[e] = "running" => Has(at'[e].activity, at'[e].compensation)
      <3>1. CASE status'[e] = "running" /\ at'[e] = [activity |-> i, compensation |-> j + 1]
                 /\ j + 1 <= activities[i].compensations
        BY <1>2, <3>1 DEF Position, Has
      <3>2. CASE status'[e] = "running" /\ at'[e] = [activity |-> i + 1, compensation |-> 0]
                 /\ i + 1 \in DOMAIN activities
        <4>1. activities[i + 1].compensations \in Nat
          BY <3>2, CompensationsAreNumbers DEF SagaInv
        <4> QED BY <1>2, <3>2, <4>1 DEF Position, Has
      <3>3. CASE status'[e] = "resolved" /\ at'[e] = Nowhere
        BY <3>3 DEF Nowhere, Position
      <3> QED BY <1>1, <3>1, <3>2, <3>3
    <2>3. \A k \in 1 .. Len(calls'[e]) :
            Has(calls'[e][k].activity, calls'[e][k].compensation)
      <3>1. \A k \in 1 .. Len(calls[e]) :
              Has(calls[e][k].activity, calls[e][k].compensation)
        BY DEF SagaInv, CallsInv
      <3>2. c.activity = i /\ c.compensation = j
        OBVIOUS
      <3> HIDE DEF c
      <3>3. Has(c.activity, c.compensation)
        BY <1>6, <3>2
      <3>4. ASSUME NEW k \in 1 .. Len(calls'[e])
            PROVE  (k \in 1 .. Len(calls[e]) /\ calls'[e][k] = calls[e][k]) \/ calls'[e][k] = c
        <4>1. k \in 1 .. Len(calls[e]) \/ k = Len(calls[e]) + 1
          BY <1>7
        <4> QED BY <1>7, <4>1
      <3> QED BY <3>1, <3>3, <3>4
    <2>4. result'[e] \in Results
      BY <1>5
    <2>5. ASSUME NEW f \in Executions
          PROVE  /\ at'[f] \in Position
                 /\ status'[f] = "running" => Has(at'[f].activity, at'[f].compensation)
                 /\ calls'[f] \in Seq(CallType)
                 /\ result'[f] \in Results
                 /\ \A k \in 1 .. Len(calls'[f]) :
                      Has(calls'[f][k].activity, calls'[f][k].compensation)
      <3>1. CASE f = e
        BY <1>7, <2>2, <2>3, <2>4, <3>1
      <3> QED BY <2>1, <3>1
    <2> QED BY <1>9, <2>5 DEF CallsInv
  <1>11. OwnInv'
    <2>1. ASSUME NEW f \in Executions \ {e}
          PROVE  /\ status'[f] = "running" =>
                       Follows(calls'[f], at'[f].activity, at'[f].compensation, result'[f])
                 /\ \A k \in 1 .. Len(calls'[f]) : Own(calls'[f], k)
      BY <1>1, <1>4, <1>5 DEF SagaInv, OwnInv
    <2>2. Follows(calls[e], i, j, r) /\ \A k \in 1 .. Len(calls[e]) : Own(calls[e], k)
      <3>1. Follows(calls[e], i, j, result[e])
        BY <1>2 DEF SagaInv, OwnInv
      <3> QED BY <3>1 DEF SagaInv, OwnInv, Follows
    <2>3. /\ \A k \in 1 .. Len(calls'[e]) : Own(calls'[e], k)
          /\ Follows(calls'[e], i, j + 1, r)
      BY <1>2, <1>3, <1>4, <2>2, OwnCallAppended
    <2>4. status'[e] = "running" =>
            Follows(calls'[e], at'[e].activity, at'[e].compensation, result'[e])
      <3>1. CASE at'[e] = [activity |-> i, compensation |-> j + 1]
        BY <1>5, <2>3, <3>1
      <3>2. CASE at'[e] = [activity |-> i + 1, compensation |-> 0]
        BY <3>2 DEF Follows
      <3> QED BY <1>1, <3>1, <3>2
    <2> QED BY <2>1, <2>3, <2>4 DEF OwnInv
  <1> QED BY <1>8, <1>9, <1>10, <1>11 DEF SagaInv

\* What the builder's own operations preserve: they add, and never touch what an
\* execution has done.
LEMMA BuilderGrows ==
    ASSUME SagaInv, UNCHANGED <<status, at, result, calls>>, BuilderInv',
           \A i : \A j \in Nat : Has(i, j) => Has(i, j)'
    PROVE  SagaInv'
  <1>1. SagaShape'
    BY DEF SagaInv, SagaShape
  <1>2. OwnInv'
    BY DEF SagaInv, OwnInv
  <1>3. CallsInv'
    <2>1. ASSUME NEW e \in Executions
          PROVE  /\ status[e] = "running" => Has(at[e].activity, at[e].compensation)'
                 /\ \A k \in 1 .. Len(calls[e]) :
                      Has(calls[e][k].activity, calls[e][k].compensation)'
      <3>1. /\ at[e].compensation \in Nat
            /\ \A k \in 1 .. Len(calls[e]) : calls[e][k].compensation \in Nat
        BY CallsAreTyped DEF SagaInv, CallsInv, Position
      <3>2. /\ status[e] = "running" => Has(at[e].activity, at[e].compensation)
            /\ \A k \in 1 .. Len(calls[e]) :
                 Has(calls[e][k].activity, calls[e][k].compensation)
        BY DEF SagaInv, CallsInv
      <3> QED BY <3>1, <3>2 DEF Has
    <2> QED BY <2>1 DEF SagaInv, CallsInv
  <1> QED BY <1>1, <1>2, <1>3 DEF SagaInv

LEMMA SagaStep ==
    ASSUME SagaInv, [SagaNext]_sagaVars
    PROVE  SagaInv'
  <1>1. CASE UNCHANGED sagaVars
    BY <1>1 DEF sagaVars, SagaInv, SagaShape, BuilderInv, CallsInv, OwnInv, Has
  <1>2. ASSUME NEW name \in Names, Activity(name)
        PROVE  SagaInv'
    <2> DEFINE a == [name |-> name, compensations |-> 0]
    <2>1. activities' = Append(activities, a) /\ UNCHANGED <<status, at, result, calls>>
      BY <1>2 DEF Activity
    <2>2. a \in ActivityType /\ a.compensations = 0 /\ activities \in Seq(ActivityType)
      BY <1>2, SagaAssumption DEF ActivityType, SagaInv, BuilderInv
    <2> HIDE DEF a
    <2>3. /\ activities' \in Seq(ActivityType)
          /\ Len(activities) \in Nat /\ Len(activities') = Len(activities) + 1
          /\ DOMAIN activities = 1 .. Len(activities)
          /\ DOMAIN activities' = 1 .. Len(activities) + 1
          /\ activities'[Len(activities) + 1] = a
          /\ \A i \in 1 .. Len(activities) : activities'[i] = activities[i]
      BY <2>1, <2>2
    <2>4. BuilderInv'
      <3>1. ASSUME NEW i \in DOMAIN activities', activities'[i].compensations > 0,
                   NEW k \in 1 .. i - 1
            PROVE  activities'[k].name # activities'[i].name
        <4>1. i # Len(activities) + 1
          BY <2>2, <2>3, <3>1
        <4>2. i \in 1 .. Len(activities) /\ k \in 1 .. Len(activities)
          BY <2>3, <3>1, <4>1
        <4> QED BY <2>3, <3>1, <4>2 DEF SagaInv, BuilderInv
      <3> QED BY <2>3, <3>1 DEF BuilderInv
    <2>5. \A i : \A j \in Nat : Has(i, j) => Has(i, j)'
      BY <2>3 DEF Has
    <2> QED BY <2>1, <2>4, <2>5, BuilderGrows
  <1>3. ASSUME NEW name \in Names, CompensationActivity(name)
        PROVE  SagaInv'
    <2>1. PICK i \in Named(name) : (\A k \in Named(name) : i <= k) /\ Compensate(i)
      BY <1>3 DEF CompensationActivity
    <2>2. /\ i \in DOMAIN activities /\ activities[i].name = name
          /\ \A k \in DOMAIN activities : activities[k].name = name => i <= k
      BY <2>1 DEF Named
    <2>3. /\ activities \in Seq(ActivityType)
          /\ i \in Nat /\ Len(activities) \in Nat /\ DOMAIN activities = 1 .. Len(activities)
          /\ activities[i].compensations \in Nat
      BY <2>2, CompensationsAreNumbers DEF SagaInv, BuilderInv
    <2>4. /\ activities' = [activities EXCEPT ![i].compensations = @ + 1]
          /\ activities[i].compensations < MaxCompensations
          /\ UNCHANGED <<status, at, result, calls>>
      BY <2>1 DEF Compensate
    <2>5. activities[i] \in ActivityType
      BY <2>2, <2>3
    <2> DEFINE b == [activities[i] EXCEPT !.compensations = activities[i].compensations + 1]
    <2>6. /\ b \in ActivityType /\ b.name = name
          /\ b.compensations = activities[i].compensations + 1
      <3>1. activities[i].compensations + 1 \in 0 .. MaxCompensations
        BY <2>3, <2>4, SagaAssumption
      <3>2. /\ activities[i] = [name |-> name, compensations |-> activities[i].compensations]
            /\ name \in Names
        BY <2>2, <2>5 DEF ActivityType
      <3>3. b = [name |-> name, compensations |-> activities[i].compensations + 1]
        BY <3>2
      <3> QED BY <3>1, <3>2, <3>3 DEF ActivityType
    <2>7. activities' = [activities EXCEPT ![i] = b]
      BY <2>2, <2>3, <2>4
    <2> HIDE DEF b
    <2>8. /\ activities' \in Seq(ActivityType) /\ DOMAIN activities' = DOMAIN activities
          /\ activities'[i] = b
          /\ \A k \in DOMAIN activities \ {i} : activities'[k] = activities[k]
      BY <2>2, <2>3, <2>6, <2>7
    <2>9. \A k \in DOMAIN activities : activities'[k].name = activities[k].name
      BY <2>2, <2>6, <2>8
    <2>10. BuilderInv'
      <3>1. ASSUME NEW n \in DOMAIN activities', activities'[n].compensations > 0,
                   NEW k \in 1 .. n - 1
            PROVE  activities'[k].name # activities'[n].name
        <4>1. n \in DOMAIN activities /\ k \in DOMAIN activities /\ k < n
          BY <2>3, <2>8, <3>1
        <4>2. CASE n = i
          BY <2>2, <2>3, <2>9, <4>1, <4>2
        <4>3. CASE n # i
          BY <2>8, <2>9, <3>1, <4>1, <4>3 DEF SagaInv, BuilderInv
        <4> QED BY <4>2, <4>3
      <3> QED BY <2>8, <3>1 DEF BuilderInv
    <2>11. \A n : \A j \in Nat : Has(n, j) => Has(n, j)'
      <3>1. ASSUME NEW n, NEW j \in Nat, Has(n, j) PROVE Has(n, j)'
        <4>1. n \in DOMAIN activities /\ j <= activities[n].compensations
          BY <3>1 DEF Has
        <4>2. CASE n = i
          <5> QED BY <2>3, <2>6, <2>8, <4>1, <4>2 DEF Has
        <4>3. CASE n # i
          BY <2>8, <4>1, <4>3 DEF Has
        <4> QED BY <4>2, <4>3
      <3> QED BY <3>1
    <2> QED BY <2>4, <2>10, <2>11, BuilderGrows
  <1>4. ASSUME NEW e \in Executions, Start(e)
        PROVE  SagaInv'
    <2>1. status[e] = "idle" /\ at[e] = Nowhere /\ UNCHANGED <<activities, result, calls>>
      BY <1>4 DEF Start, SagaInv, SagaShape
    <2>2. /\ status \in [Executions -> {"idle", "running", "resolved", "rejected"}]
          /\ at = [f \in Executions |-> at[f]] /\ DOMAIN at = Executions
      BY DEF SagaInv, SagaShape
    <2>3. CASE activities = <<>>
      <3>1. status' = [status EXCEPT ![e] = "resolved"] /\ UNCHANGED at
        BY <1>4, <2>3 DEF Start
      <3>2. /\ status' \in [Executions -> {"idle", "running", "resolved", "rejected"}]
            /\ status'[e] = "resolved"
            /\ \A f \in Executions \ {e} : status'[f] = status[f]
        BY <2>2, <3>1
      <3>3. SagaShape'
        BY <2>1, <3>1, <3>2 DEF SagaInv, SagaShape
      <3>4. BuilderInv' /\ CallsInv' /\ OwnInv'
        BY <2>1, <3>1, <3>2 DEF SagaInv, BuilderInv, CallsInv, OwnInv, Has
      <3> QED BY <3>3, <3>4 DEF SagaInv
    <2>4. CASE activities # <<>>
      <3>1. /\ status' = [status EXCEPT ![e] = "running"]
            /\ at' = [at EXCEPT ![e].activity = 1]
        BY <1>4, <2>4 DEF Start
      <3>2. /\ status' \in [Executions -> {"idle", "running", "resolved", "rejected"}]
            /\ status'[e] = "running"
            /\ at'[e] = [activity |-> 1, compensation |-> 0]
            /\ at' = [f \in Executions |-> at'[f]] /\ DOMAIN at' = Executions
            /\ \A f \in Executions \ {e} : status'[f] = status[f] /\ at'[f] = at[f]
        BY <2>1, <2>2, <3>1 DEF Nowhere
      <3>3. SagaShape'
        BY <2>1, <3>2 DEF SagaInv, SagaShape
      <3>4. 1 \in DOMAIN activities
        BY <2>4 DEF SagaInv, BuilderInv
      <3>5. Has(1, 0)
        <4>1. activities[1].compensations \in Nat
          BY <3>4, CompensationsAreNumbers DEF SagaInv
        <4> QED BY <3>4, <4>1 DEF Has
      <3>6. BuilderInv' /\ \A i, j : Has(i, j)' <=> Has(i, j)
        BY <2>1 DEF SagaInv, BuilderInv, Has
      <3>7. CallsInv'
        <4>1. ASSUME NEW f \in Executions
              PROVE  /\ at'[f] \in Position
                     /\ status'[f] = "running" => Has(at'[f].activity, at'[f].compensation)
          <5>1. CASE f = e
            BY <3>2, <3>5, <5>1 DEF Position
          <5>2. CASE f # e
            BY <3>2, <5>2 DEF SagaInv, CallsInv
          <5> QED BY <5>1, <5>2
        <4>2. \A f \in Executions :
                /\ calls[f] \in Seq(CallType)
                /\ result[f] \in Results
                /\ \A k \in 1 .. Len(calls[f]) :
                     Has(calls[f][k].activity, calls[f][k].compensation)
          BY DEF SagaInv, CallsInv
        <4> QED BY <2>1, <3>6, <4>1, <4>2 DEF CallsInv
      <3>8. OwnInv'
        <4>1. Follows(calls'[e], at'[e].activity, at'[e].compensation, result'[e])
          BY <3>2 DEF Follows
        <4> QED BY <2>1, <3>2, <4>1 DEF SagaInv, OwnInv
      <3> QED BY <3>3, <3>6, <3>7, <3>8 DEF SagaInv
    <2> QED BY <2>3, <2>4
  <1>5. ASSUME NEW e \in Executions, Throw(e)
        PROVE  SagaInv'
    <2>1. /\ UNCHANGED <<activities, result, calls>>
          /\ status' = [status EXCEPT ![e] = "rejected"] /\ at' = [at EXCEPT ![e] = Nowhere]
      BY <1>5 DEF Throw
    <2>2. /\ status \in [Executions -> {"idle", "running", "resolved", "rejected"}]
          /\ at = [f \in Executions |-> at[f]] /\ DOMAIN at = Executions
      BY DEF SagaInv, SagaShape
    <2>3. /\ status' \in [Executions -> {"idle", "running", "resolved", "rejected"}]
          /\ status'[e] = "rejected" /\ at'[e] = Nowhere
          /\ at' = [f \in Executions |-> at'[f]] /\ DOMAIN at' = Executions
          /\ \A f \in Executions \ {e} : status'[f] = status[f] /\ at'[f] = at[f]
      BY <2>1, <2>2
    <2>4. SagaShape'
      BY <2>1, <2>3 DEF SagaInv, SagaShape
    <2>5. BuilderInv' /\ OwnInv'
      BY <2>1, <2>3 DEF SagaInv, BuilderInv, OwnInv
    <2>6. CallsInv'
      <3>1. Nowhere \in Position
        BY DEF Nowhere, Position
      <3> QED BY <2>1, <2>3, <3>1 DEF SagaInv, CallsInv, Has
    <2> QED BY <2>4, <2>5, <2>6 DEF SagaInv
  <1>6. ASSUME NEW e \in Executions, NEW i \in DOMAIN activities, ActionReturns(e, i)
        PROVE  SagaInv'
    <2>1. PICK r \in Results : result' = [result EXCEPT ![e] = r] /\ Return(e, i, 0, r)
      BY <1>6 DEF ActionReturns
    <2>2. 0 <= activities[i].compensations
      BY CompensationsAreNumbers DEF SagaInv
    <2>3. Awaits(e, i, 0) /\ GoOn(e, i, 0) /\ UNCHANGED activities
      BY <1>6 DEF ActionReturns
    <2> DEFINE j == 0
    <2>4. j \in Nat /\ j <= activities[i].compensations /\ (j > 0 => r = result[e])
      BY <2>2
    <2>5. Awaits(e, i, j) /\ Return(e, i, j, r) /\ GoOn(e, i, j)
      BY <2>1, <2>3
    <2> HIDE DEF j
    <2> QED BY <2>1, <2>3, <2>4, <2>5, CallbackReturns
  <1>7. ASSUME NEW e \in Executions, NEW i \in DOMAIN activities,
               NEW j \in 1 .. activities[i].compensations, CompensationReturns(e, i, j)
        PROVE  SagaInv'
    <2>1. j \in Nat /\ j <= activities[i].compensations
      BY CompensationsAreNumbers DEF SagaInv
    <2>2. PICK r \in Results : r = result[e]
      BY DEF SagaInv, CallsInv
    <2>3. /\ Awaits(e, i, j) /\ Return(e, i, j, r) /\ GoOn(e, i, j)
          /\ UNCHANGED activities
          /\ result' = [result EXCEPT ![e] = r]
      BY <1>7, <2>2 DEF CompensationReturns, Return, SagaInv, SagaShape
    <2> QED BY <2>1, <2>2, <2>3, CallbackReturns
  <1> QED BY <1>1, <1>2, <1>3, <1>4, <1>5, <1>6, <1>7 DEF SagaNext, CallbackEnds

\* The invariant of the builder and its executions holds in every state.
THEOREM SagaInvariant == SagaSpec => []SagaInv
  <1> QED BY SagaInitially, SagaStep, PTL DEF SagaSpec

\* However many executions share a builder: each compensation gets what its own
\* activity returned to its own execution.
THEOREM CompensatedAsOwn == SagaSpec => []CompensatedWithOwnResult
  <1> QED BY SagaInvariant, SagaInvImplies, PTL

\* However the builder is put together: nothing compensates the second activity
\* of a name.
THEOREM NamesakesNeverCompensated == SagaSpec => []NamesakeIsNeverCompensated
  <1> QED BY SagaInvariant, SagaInvImplies, PTL

-----------------------------------------------------------------------------
\* What an execution has run.

\* An execution has called the actions before the one it awaits, and that one
\* too once it awaits one of its compensations.
RanInv ==
    \A e \in Executions :
        /\ status[e] = "idle" => calls[e] = <<>>
        /\ status[e] = "running" =>
              RanUpTo(calls[e], IF at[e].compensation = 0 THEN at[e].activity - 1
                                                          ELSE at[e].activity)

LEMMA RanInitially == SagaInit => RanInv
  BY DEF SagaInit, RanInv

LEMMA NothingRan == RanUpTo(<<>>, 0)
  BY DEF RanUpTo, Actions

\* The action of the next activity returns.
LEMMA ActionAppended ==
    ASSUME NEW s \in Seq(CallType), NEW c \in CallType, NEW i \in Nat \ {0},
           c.activity = i, c.compensation = 0, RanUpTo(s, i - 1)
    PROVE  RanUpTo(Append(s, c), i)
  <1> DEFINE t == Append(s, c)
             n == Len(s) + 1
  <1>1. /\ t \in Seq(CallType) /\ Len(s) \in Nat /\ Len(t) = n /\ t[n] = c
        /\ \A k \in 1 .. Len(s) : t[k] = s[k]
        /\ DOMAIN t = 1 .. n /\ DOMAIN s = 1 .. Len(s)
    BY AppendCall
  <1> HIDE DEF t
  <1>2. Actions(t) = Actions(s) \cup {n}
    BY <1>1 DEF Actions
  <1>3. \A k \in Actions(s) : k \in 1 .. Len(s) /\ t[k] = s[k]
    BY <1>1 DEF Actions
  <1>4. {s[k].activity : k \in Actions(s)} = 1 .. i - 1
    BY DEF RanUpTo
  <1>5. {t[k].activity : k \in Actions(t)} = {s[k].activity : k \in Actions(s)} \cup {i}
    BY <1>1, <1>2, <1>3
  <1>6. {t[k].activity : k \in Actions(t)} = 1 .. i
    <2>1. (1 .. i - 1) \cup {i} = 1 .. i
      OBVIOUS
    <2> QED BY <1>4, <1>5, <2>1
  <1>7. ASSUME NEW k \in Actions(t), NEW l \in Actions(t), k < l
        PROVE  t[k].activity < t[l].activity
    <2>1. k \in Actions(s)
      BY <1>1, <1>2, <1>3, <1>7
    <2>2. s[k].activity \in 1 .. i - 1 /\ t[k] = s[k]
      BY <1>3, <1>4, <2>1
    <2>3. CASE l \in Actions(s)
      BY <1>3, <1>7, <2>1, <2>3 DEF RanUpTo
    <2>4. CASE l = n
      BY <1>1, <2>2, <2>4
    <2> QED BY <1>2, <2>3, <2>4
  <1> QED BY <1>6, <1>7 DEF RanUpTo, t

\* A compensation returns: no more actions than before.
LEMMA CompensationAppended ==
    ASSUME NEW s \in Seq(CallType), NEW c \in CallType, NEW i \in Nat,
           c.compensation # 0, RanUpTo(s, i)
    PROVE  RanUpTo(Append(s, c), i)
  <1> DEFINE t == Append(s, c)
  <1>1. /\ t \in Seq(CallType) /\ Len(s) \in Nat /\ Len(t) = Len(s) + 1 /\ t[Len(s) + 1] = c
        /\ \A k \in 1 .. Len(s) : t[k] = s[k]
        /\ DOMAIN t = 1 .. Len(s) + 1 /\ DOMAIN s = 1 .. Len(s)
    BY AppendCall
  <1> HIDE DEF t
  <1>2. Actions(t) = Actions(s)
    BY <1>1 DEF Actions
  <1>3. \A k \in Actions(s) : t[k] = s[k]
    BY <1>1 DEF Actions
  <1>4. {t[k].activity : k \in Actions(t)} = {s[k].activity : k \in Actions(s)}
    BY <1>2, <1>3
  <1>5. {t[k].activity : k \in Actions(t)} = 1 .. i
    BY <1>4 DEF RanUpTo
  <1>6. \A k, l \in Actions(t) : k < l => t[k].activity < t[l].activity
    BY <1>2, <1>3 DEF RanUpTo
  <1>7. RanUpTo(t, i)
    BY <1>5, <1>6 DEF RanUpTo
  <1> QED BY <1>7 DEF t

\* A callback returns: the execution goes on, or has run all there is.
LEMMA CallbackRan ==
    ASSUME SagaInv, RanInv, NEW e \in Executions, NEW i \in DOMAIN activities, NEW j \in Nat,
           j <= activities[i].compensations, NEW r \in Results,
           Awaits(e, i, j), Return(e, i, j, r), GoOn(e, i, j)
    PROVE  /\ RanInv'
           /\ status'[e] = "resolved" => RanUpTo(calls'[e], Len(activities))
           /\ \A f \in Executions \ {e} : status'[f] = status[f]
  <1> DEFINE c == [activity |-> i, compensation |-> j, result |-> r]
  <1>1. /\ \A f \in Executions \ {e} : at'[f] = at[f] /\ status'[f] = status[f]
        /\ \/ /\ status'[e] = "running"
              /\ at'[e] = [activity |-> i, compensation |-> j + 1]
           \/ /\ status'[e] = "running"
              /\ at'[e] = [activity |-> i + 1, compensation |-> 0]
           \/ /\ status'[e] = "resolved" /\ at'[e] = Nowhere
              /\ i = Len(activities)
    BY GoOnEffect
  <1>2. /\ at[e] = [activity |-> i, compensation |-> j] /\ status[e] = "running"
        /\ i \in Nat \ {0}
    BY CompensationsAreNumbers DEF SagaInv, Awaits
  <1>3. /\ calls[e] \in Seq(CallType)
        /\ calls = [f \in Executions |-> calls[f]]
    BY DEF SagaInv, SagaShape, CallsInv
  <1>4. /\ calls'[e] = Append(calls[e], c)
        /\ \A f \in Executions \ {e} : calls'[f] = calls[f]
    BY <1>3 DEF Return
  <1>5. c \in CallType /\ c.activity = i /\ c.compensation = j
    BY <1>2 DEF CallType
  <1> HIDE DEF c
  <1>6. RanUpTo(calls[e], IF j = 0 THEN i - 1 ELSE i)
    BY <1>2 DEF RanInv
  <1>7. RanUpTo(calls'[e], i)
    <2>1. CASE j = 0
      BY <1>2, <1>3, <1>4, <1>5, <1>6, <2>1, ActionAppended
    <2>2. CASE j # 0
      BY <1>2, <1>3, <1>4, <1>5, <1>6, <2>2, CompensationAppended
    <2> QED BY <2>1, <2>2
  <1>8. /\ status'[e] # "idle"
        /\ status'[e] = "running" =>
              i = IF at'[e].compensation = 0 THEN at'[e].activity - 1 ELSE at'[e].activity
    <2>1. CASE at'[e] = [activity |-> i, compensation |-> j + 1] /\ status'[e] = "running"
      BY <2>1
    <2>2. CASE at'[e] = [activity |-> i + 1, compensation |-> 0] /\ status'[e] = "running"
      BY <1>2, <2>2
    <2> QED BY <1>1, <2>1, <2>2
  <1>9. RanInv'
    <2>1. ASSUME NEW f \in Executions \ {e}
          PROVE  /\ status'[f] = "idle" => calls'[f] = <<>>
                 /\ status'[f] = "running" =>
                       RanUpTo(calls'[f], IF at'[f].compensation = 0 THEN at'[f].activity - 1
                                                                     ELSE at'[f].activity)
      BY <1>1, <1>4 DEF RanInv
    <2> QED BY <1>7, <1>8, <2>1 DEF RanInv, RanUpTo, Actions
  <1> QED BY <1>1, <1>7, <1>9

\* Every step keeps the account of what has run, and an execution that resolves
\* in it has run everything.
ResolvedStep ==
    \A e \in Executions :
        status[e] # "resolved" /\ status'[e] = "resolved" =>
            RanUpTo(calls'[e], Len(activities))

LEMMA RanStep ==
    ASSUME SagaInv, RanInv, [SagaNext]_sagaVars
    PROVE  RanInv' /\ ResolvedStep
  <1>1. CASE UNCHANGED sagaVars
    BY <1>1 DEF sagaVars, RanInv, RanUpTo, Actions, ResolvedStep
  <1>2. ASSUME NEW name \in Names, Activity(name) \/ CompensationActivity(name)
        PROVE  RanInv' /\ ResolvedStep
    <2>1. UNCHANGED <<status, at, calls>>
      BY <1>2 DEF Activity, CompensationActivity, Compensate
    <2> QED BY <2>1 DEF RanInv, RanUpTo, Actions, ResolvedStep
  <1>3. ASSUME NEW e \in Executions, Start(e) PROVE RanInv' /\ ResolvedStep
    <2>1. /\ status[e] = "idle" /\ calls' = calls /\ calls[e] = <<>>
          /\ status' = [status EXCEPT ![e] = status'[e]]
          /\ status \in [Executions -> {"idle", "running", "resolved", "rejected"}]
          /\ DOMAIN at = Executions /\ at[e] = Nowhere
      BY <1>3 DEF Start, SagaInv, SagaShape, RanInv
    <2>2. \A f \in Executions \ {e} : status'[f] = status[f]
      BY <2>1
    <2>3. CASE activities = <<>>
      <3>1. status'[e] = "resolved" /\ at' = at /\ Len(activities) = 0
        BY <1>3, <2>1, <2>3 DEF Start
      <3> QED BY <2>1, <2>2, <3>1, NothingRan DEF RanInv, RanUpTo, Actions, ResolvedStep
    <2>4. CASE activities # <<>>
      <3>1. status'[e] = "running" /\ at' = [at EXCEPT ![e].activity = 1]
        BY <1>3, <2>1, <2>4 DEF Start
      <3>2. at'[e].activity = 1 /\ at'[e].compensation = 0
        BY <2>1, <3>1 DEF Nowhere
      <3>3. \A f \in Executions \ {e} : at'[f] = at[f]
        BY <2>1, <3>1
      <3>4. RanUpTo(calls'[e], at'[e].activity - 1)
        BY <2>1, <3>2, NothingRan
      <3> QED BY <2>1, <2>2, <3>1, <3>2, <3>3, <3>4 DEF RanInv, RanUpTo, Actions, ResolvedStep
    <2> QED BY <2>3, <2>4
  <1>4. ASSUME NEW e \in Executions, Throw(e) PROVE RanInv' /\ ResolvedStep
    <2>1. /\ status'[e] = "rejected" /\ calls' = calls
          /\ \A f \in Executions \ {e} : status'[f] = status[f] /\ at'[f] = at[f]
      BY <1>4 DEF Throw, SagaInv, SagaShape
    <2> QED BY <2>1 DEF RanInv, RanUpTo, Actions, ResolvedStep
  <1>5. ASSUME NEW e \in Executions, NEW i \in DOMAIN activities, ActionReturns(e, i)
        PROVE  RanInv' /\ ResolvedStep
    <2>1. PICK r \in Results : Return(e, i, 0, r)
      BY <1>5 DEF ActionReturns
    <2>2. 0 <= activities[i].compensations
      BY CompensationsAreNumbers DEF SagaInv
    <2>3. Awaits(e, i, 0) /\ GoOn(e, i, 0)
      BY <1>5 DEF ActionReturns
    <2> QED BY <2>1, <2>2, <2>3, CallbackRan DEF ResolvedStep
  <1>6. ASSUME NEW e \in Executions, NEW i \in DOMAIN activities,
               NEW j \in 1 .. activities[i].compensations, CompensationReturns(e, i, j)
        PROVE  RanInv' /\ ResolvedStep
    <2>1. j \in Nat /\ j <= activities[i].compensations
      BY CompensationsAreNumbers DEF SagaInv
    <2>2. result[e] \in Results
      BY DEF SagaInv, CallsInv
    <2>3. Awaits(e, i, j) /\ Return(e, i, j, result[e]) /\ GoOn(e, i, j)
      BY <1>6 DEF CompensationReturns
    <2> QED BY <2>1, <2>2, <2>3, CallbackRan DEF ResolvedStep
  <1> QED BY <1>1, <1>2, <1>3, <1>4, <1>5, <1>6 DEF SagaNext, CallbackEnds

\* However many executions share the builder and whatever is added to it
\* meanwhile: an execution that resolves has called every action, once and in the
\* order of the builder.
THEOREM ResolvedRanEverything == SagaSpec => ResolvedMeansAllRan
  <1>1. SagaInv /\ RanInv /\ [SagaNext]_sagaVars => RanInv' /\ ResolvedStep
    BY RanStep
  <1>2. SagaSpec => []RanInv
    BY <1>1, RanInitially, SagaInvariant, PTL DEF SagaSpec
  <1>3. ResolvedStep => [ResolvedStep]_sagaVars
    OBVIOUS
  <1> QED BY <1>1, <1>2, <1>3, SagaInvariant, PTL
            DEF SagaSpec, ResolvedMeansAllRan, ResolvedStep
=============================================================================
