\* Three requests over two pools of two connections, nothing fails.
SPECIFICATION FairSpec
CONSTANTS
    Requests = {r1, r2, r3}
    CreatePool = CreatePool
    VerifyPool = VerifyPool
    Capacity = 2
    Faults <- NoFaults
INVARIANTS
    CirclesFillThePool
PROPERTIES
    AllServicesPassed
