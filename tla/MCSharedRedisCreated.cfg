\* Two requests over one helper, a healthy server: is every answer a 201?
SPECIFICATION SharedSpec
CONSTANTS
    Requests = {r1, r2}
    CreatePool = CreatePool
    VerifyPool = VerifyPool
    Capacity = 2
    Faults <- RedisFaults
    NoClient = NoClient
INVARIANTS
    HealthyAnswersAreCreated
