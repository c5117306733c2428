\* Three messages, one loss, two failures.
SPECIFICATION PubSubSpec
CONSTANTS
    m1 = m1
    m2 = m2
    m3 = m3
    Messages <- ThreeMessages
    Orphans <- OneOrphan
    MaxLosses = 1
    MaxFailures = 2
INVARIANTS
    PubSubTypeOK
    PublishedIsKept
PROPERTIES
    ImplementsAtLeastOnce
    EveryCopyIsSettled
CHECK_DEADLOCK FALSE
