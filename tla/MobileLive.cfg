SPECIFICATION LiveSpec
CONSTANTS
    Tasks = {t1, t2}
    Profiles = {a}
    NoProfile = NoProfile
    NoTask = NoTask
    CommandLimit = 3
    QueueLimit = 2
    RestartLimit = 1
PROPERTIES
    CommandsReturn
    TunnelCanBeStopped
    TunnelCanBeStarted
