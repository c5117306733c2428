\* Two requests over one helper, a healthy server: what they may do and whether they end.
SPECIFICATION SharedSpec
CONSTANTS
    Requests = {r1, r2}
    CreatePool = CreatePool
    VerifyPool = VerifyPool
    Capacity = 2
    Faults <- RedisFaults
    NoClient = NoClient
INVARIANTS
    SoloRequestsSucceed
PROPERTIES
    ImplementsCreateUser
    EveryRequestEnds
