SPECIFICATION Spec
CONSTANTS
    Tasks = {t1, t2}
    Profiles = {vless, olc, rtc}
    OlcProfiles = {olc, rtc}
    LocalPort <- OwnPort
    Procs = {p1, p2}
    Platform = "windows"
    CleanupReliable = FALSE
    MayCrash = TRUE
    MaxRuns = 2
    NoTask = NoTask
    NoProc = NoProc
    NoProfile = NoProfile
SYMMETRY EngineSymmetry
INVARIANTS
    OlcFollowsProfile
    EngineAlone
PROPERTY StopLeavesNoEngine
