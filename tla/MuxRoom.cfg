SPECIFICATION RoomSpec
CONSTANTS
    Callers = {t1}
    SidMod = 3
    SeqMod = 8
    OutOfOrderLimit = 2
    SelfId = 5
    ServerId = 0
    FrameIds = {0, 7}
    ResetIds = {5, 7}
    FrameSids = {1}
    SendLimit = 4
    NotifyIds = {1, 2, 3}
    NoNotify = NoNotify
    NoCaller = NoCaller
INVARIANTS
    InOrder
    WindowAhead
PROPERTIES
    ReadOnce
    OpenReturns
    DataWakes
