\* Three sessions on a server with up to two connection errors.
SPECIFICATION RedisSpec
CONSTANTS
    Sessions = {s1, s2, s3}
    NoClient = NoClient
    MaxCommands = 2
    MaxErrors = 2
INVARIANTS
    RedisTypeOK
    ClientDefined
    ConnectedMeansOpen
    SoloSessionsAreSafe
PROPERTIES
    OnlyOverlapLeaks
    EverySessionEnds
