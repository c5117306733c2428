------------------------------- MODULE Tokens -------------------------------
(***************************************************************************)
(* The JSON web tokens of a user: JwtService signs and verifies them,         *)
(* JwtExtendedService signs them in pairs, and the middlewares                *)
(* authenticateJwt and authorizeRole verify the access token of a request,    *)
(* each for itself, while time goes on.                                      *)
(*                                                                          *)
(* A token is what it claims; that nobody else can sign one is the library's  *)
(* business, and so is the clock, the same for all.                           *)
(***************************************************************************)
EXTENDS Naturals

CONSTANTS
    Roles,          \* the roles of users
    Required,       \* the role a route asks authorizeRole for
    Visits,         \* requests to that route
    AccessLife,     \* expiresIn: '1h'
    RefreshLife,    \* expiresIn: '7d'
    MaxTime         \* bound: the last moment of the clock

ASSUME TokensAssumption ==
    /\ Required \in Roles
    /\ {AccessLife, RefreshLife} \subseteq Nat /\ MaxTime \in Nat \ {0}
    /\ AccessLife < RefreshLife

VARIABLES
    now,
    tokens,         \* the tokens signed so far
    decoded,        \* claims that verifying a token gave back
    visit,          \* visit[v]: where the request is
    carries,        \* carries[v]: the token it carries
    lastLogin       \* history: when a pair was last signed for fresh claims

tokenVars == <<now, tokens, decoded, visit, carries, lastLogin>>

\* jwt.sign() adds exp to the claims, jwt.verify() gives it back.
Never == 0
FreshClaims == [role : Roles, exp : {Never}]
Claims == [role : Roles, exp : Nat]
Tokens == [kind : {"access", "refresh"}, role : Roles, exp : Nat]
NoToken == [kind |-> "none"]

TokensInit ==
    /\ now = 1
    /\ tokens = {}
    /\ decoded = {}
    /\ visit = [v \in Visits |-> "new"]
    /\ carries = [v \in Visits |-> NoToken]
    /\ lastLogin = 0

Live(t) == now < t.exp

Tick ==
    /\ now < MaxTime
    /\ now' = now + 1
    /\ UNCHANGED <<tokens, decoded, visit, carries, lastLogin>>

-----------------------------------------------------------------------------
\* JwtService and JwtExtendedService.

\* Variant: exp is taken out of the claims before they are signed.
SignableAlways(c) == TRUE

\* jwt.sign() throws on claims that have an exp when it is told expiresIn.
Signable(c) == c.exp = Never

\* generateTokenAsync() and generateRefreshTokenAsync()
Pair(c) == {[kind |-> "access", role |-> c.role, exp |-> now + AccessLife],
            [kind |-> "refresh", role |-> c.role, exp |-> now + RefreshLife]}

\* generateJwtTokenAsync(): both tokens, or neither and an Err.
GenerateJwtToken(c) ==
    /\ tokens' = IF Signable(c) THEN tokens \cup Pair(c) ELSE tokens
    /\ lastLogin' = IF c \in FreshClaims THEN now ELSE lastLogin
    /\ UNCHANGED <<now, decoded, visit, carries>>

\* getClaimsFromAccessTokenAsync(), getClaimsFromRefreshTokenAsync()
GetClaims(t) ==
    /\ Live(t)
    /\ decoded' = decoded \cup {[role |-> t.role, exp |-> t.exp]}
    /\ UNCHANGED <<now, tokens, visit, carries, lastLogin>>

-----------------------------------------------------------------------------
\* A request to a route behind both middlewares.

Move(v, step) == visit' = [visit EXCEPT ![v] = step]

Present(v, t) ==
    /\ visit[v] = "new"
    /\ Move(v, "presented")
    /\ carries' = [carries EXCEPT ![v] = t]
    /\ UNCHANGED <<now, tokens, decoded, lastLogin>>

\* Signed with SECRET_KEY: a refresh token is not.
Access(t) == t.kind = "access"

\* authenticateJwt: express-jwt answers 401 by next().
AuthenticateJwt(v) ==
    /\ visit[v] = "presented"
    /\ Move(v, IF Access(carries[v]) /\ Live(carries[v]) THEN "authenticated" ELSE "401")
    /\ UNCHANGED <<now, tokens, decoded, carries, lastLogin>>

\* Variant: the claims express-jwt left in the request are trusted.
AuthorizeRoleTrusting(v) ==
    /\ visit[v] = "authenticated"
    /\ Move(v, IF carries[v].role # Required THEN "403" ELSE "handled")
    /\ UNCHANGED <<now, tokens, decoded, carries, lastLogin>>

\* authorizeRole: getUserRole() verifies the token again.  What it throws has
\* no status, so ErrorMiddleware answers 500.
AuthorizeRole(v) ==
    /\ visit[v] = "authenticated"
    /\ Move(v, IF ~ Live(carries[v]) THEN "500"
               ELSE IF carries[v].role # Required THEN "403" ELSE "handled")
    /\ UNCHANGED <<now, tokens, decoded, carries, lastLogin>>

-----------------------------------------------------------------------------
TokensNext ==
    \/ Tick
    \/ \E c \in FreshClaims \cup decoded : GenerateJwtToken(c)
    \/ \E t \in tokens : GetClaims(t)
    \/ \E v \in Visits :
          \/ \E t \in tokens \cup {NoToken} : Present(v, t)
          \/ AuthenticateJwt(v)
          \/ AuthorizeRole(v)

TokensSpec == TokensInit /\ [][TokensNext]_tokenVars

-----------------------------------------------------------------------------
\* Every variable has its type.
TokensTypeOK ==
    /\ now \in 1 .. MaxTime
    /\ tokens \subseteq Tokens
    /\ decoded \subseteq Claims
    /\ visit \in [Visits -> {"new", "presented", "authenticated", "handled",
                             "401", "403", "500"}]
    /\ carries \in [Visits -> Tokens \cup {NoToken}]
    /\ lastLogin \in 0 .. now

\* The handler behind both middlewares starts with a token that is still valid
\* then, however long it is since the first of them looked (auth 17 and
\* userTokenProvider 31-34 verify it again), with the role asked for, and never
\* with a refresh token.
HandledIsAuthorized ==
    [][\A v \in Visits :
          visit[v] # "handled" /\ visit'[v] = "handled" =>
              /\ carries[v] \in [kind : {"access"}, role : {Required}, exp : Nat]
              /\ Live(carries[v])]_tokenVars

\* There is no renewal: whatever is verified and signed again, no token outlives
\* the last login by more than the life of a refresh token, because the claims
\* that verifying gives back are refused by signing (userJwt 41 and 55).
NoRenewal == \A t \in tokens : t.exp <= lastLogin + RefreshLife

\* A session that has an access token has a refresh token to outlive it
\* (userJwt 89-96: the pair is signed together or not at all).
AccessHasRefresh ==
    \A t \in tokens :
        t.kind = "access" =>
            \E u \in tokens : u.kind = "refresh" /\ u.role = t.role /\ u.exp > t.exp
=============================================================================
