SPECIFICATION Spec
CONSTANTS
    Tasks = {t1}
    Profiles = {a}
    NoProfile = NoProfile
    NoTask = NoTask
    CommandLimit = 3
    QueueLimit = 2
    RestartLimit = 0
PROPERTY NotRunningHonest
