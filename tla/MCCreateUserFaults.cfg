\* Two requests that draw both connections from one pool of two, so that
\* both may wait for each other, and every kind of failure.
SPECIFICATION FairSpec
CONSTANTS
    Requests = {r1, r2}
    CreatePool = Pool
    VerifyPool = Pool
    Capacity = 2
    Faults <- AllFaults
INVARIANTS
    CommittedStateLegal
    CreatedMeansDurable
    CacheTruth
    NothingHeldAtRest
    CirclesFillThePool
    IInv
PROPERTIES
    ImplementsLifecycle
    EveryRequestEnds
