SPECIFICATION FairSpec
CONSTANTS
    Tasks = {t1, t2}
    Profiles = {vless, olc}
    OlcProfiles = {olc}
    MaxRuns = 2
    NoTask = NoTask
    NoProfile = NoProfile
INVARIANTS
    NoTunnelLeft
    TunnelRunsProfile
    OlcHasTunnel
PROPERTIES
    CommandsReturn
    StatusHeals
