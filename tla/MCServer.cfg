\* Two workers that may die, two requests, a limit of one request.
SPECIFICATION ServerSpec
CONSTANTS
    w1 = w1
    w2 = w2
    r1 = r1
    r2 = r2
    Workers <- TwoWorkers
    Requests <- TwoRequests
    MaxHits = 1
INVARIANTS
    HandlerIsGuarded
    OneAnswer
    TooManyMeansTooMany
PROPERTIES
    AcceptedIsAnswered
CHECK_DEADLOCK FALSE
