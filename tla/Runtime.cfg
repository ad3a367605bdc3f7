SPECIFICATION LiveSpec
CONSTANTS
    Sessions = {s1, s2}
    SendQueueSize = 2
    IncomingLimit = 2
CHECK_DEADLOCK FALSE
INVARIANT ResetFirst
PROPERTIES
    SendsReturn
    StopReleases
    ImplementsLink
