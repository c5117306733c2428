\* Two calls, two losses, one failing handler.
SPECIFICATION RequestReplySpec
CONSTANTS
    Calls = {c1, c2}
    MaxLosses = 2
    MaxFailures = 1
INVARIANTS
    RequestReplyTypeOK
    ResolvedMeansAnswered
    WaitingIsAccountedFor
PROPERTIES
    ImplementsAtLeastOnce
    EveryRequestIsHandled
    LoneCallIsAnswered
CHECK_DEADLOCK FALSE
