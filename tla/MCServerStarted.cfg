\* Two workers start: are they ready.
SPECIFICATION ServerSpec
CONSTANTS
    w1 = w1
    w2 = w2
    r1 = r1
    r2 = r2
    Workers <- TwoWorkers
    Requests <- TwoRequests
    MaxHits = 2
INVARIANTS
    StartedIsReady
CHECK_DEADLOCK FALSE
