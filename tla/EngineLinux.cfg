SPECIFICATION FairSpec
CONSTANTS
    Tasks = {t1, t2}
    Profiles = {vless, olc}
    OlcProfiles = {olc}
    LocalPort <- SamePort
    Procs = {p1, p2}
    Platform = "linux"
    CleanupReliable = FALSE
    MayCrash = TRUE
    MaxRuns = 2
    NoTask = NoTask
    NoProc = NoProc
    NoProfile = NoProfile
INVARIANTS
    NoUnownedProcess
    OneEngine
PROPERTIES
    StatusTellsEngine
    CommandsReturn
