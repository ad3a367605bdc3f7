SPECIFICATION FairClientSpec
CONSTANTS
    Callers = {t1}
    SidMod = 3
    SeqMod = 8
    OutOfOrderLimit = 1
    SelfId = 5
    ServerId = 0
    FrameIds = {0}
    ResetIds = {5}
    FrameSids = {1}
    SendLimit = 3
    NotifyIds = {n1, n2}
    NoNotify = NoNotify
    NoCaller = NoCaller
    Refused = {}
CHECK_DEADLOCK FALSE
INVARIANT RelayContiguous
PROPERTIES
    HangUpEndsSession
    CloseEndsSession
    DataIsTaken
