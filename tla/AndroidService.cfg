SPECIFICATION LiveSpec
CONSTANTS
    Profiles = {p1}
    NoConfig = NoConfig
    Instances = {1, 2}
    Watchdogs = {1, 2}
    RequestLimit = 2
    KillLimit = 1
    InboxLimit = 2
CHECK_DEADLOCK FALSE
INVARIANTS
    CoreIsWatched
    FlagTellsCore
PROPERTIES
    ImplementsNativeVpn
    StopTakesEffect
    KillIsRecovered
