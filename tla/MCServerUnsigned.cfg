\* The request of the integration test, on one worker.
SPECIFICATION ServerSpec
CONSTANTS
    w1 = w1
    w2 = w2
    r1 = r1
    r2 = r2
    Workers <- OneWorker
    Requests <- TwoRequests
    MaxHits = 2
INVARIANTS
    TestRequestIsNotForbidden
CHECK_DEADLOCK FALSE
