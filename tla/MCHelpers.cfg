\* Two executions of a builder with two activities of two compensations each;
\* a table of four rows with five writes, walked in pages of one, two and ten;
\* one request with a token, and a clock that outlives the refresh token of a
\* first login.
SPECIFICATION HelpersSpec
CONSTANTS
    Executions = {e1, e2}
    Names = {n1, n2}
    MaxActivities = 2
    MaxCompensations = 2
    Rows = {r1, r2, r3, r4}
    Parameters <- MCParameters
    MaxWrites = 5
    Roles = {user, admin}
    Required = admin
    Visits = {v1}
    AccessLife = 1
    RefreshLife = 2
    MaxTime = 3
CHECK_DEADLOCK FALSE
INVARIANTS
    CompensatedWithOwnResult
    NamesakeIsNeverCompensated
    QuietWalkIsExact
    OnlyStaleCountsSkip
    NoRenewal
PROPERTIES
    ResolvedMeansAllRan
    HandledIsAuthorized
