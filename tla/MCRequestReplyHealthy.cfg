\* Two calls, nothing is lost and no handler fails: is every call answered?
SPECIFICATION RequestReplySpec
CONSTANTS
    Calls = {c1, c2}
    MaxLosses = 0
    MaxFailures = 0
PROPERTIES
    EveryCallIsAnswered
CHECK_DEADLOCK FALSE
