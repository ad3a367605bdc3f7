SPECIFICATION ClientSpec
CONSTANTS
    Callers = {t1, t2}
    SidMod = 3
    SeqMod = 8
    OutOfOrderLimit = 1
    SelfId = 5
    ServerId = 0
    FrameIds = {0}
    ResetIds = {5}
    FrameSids = {1, 2}
    SendLimit = 1
    NotifyIds = {n1, n2, n3, n4}
    NoNotify = NoNotify
    NoCaller = NoCaller
    Refused = {2}
SYMMETRY NotifySymmetry
CHECK_DEADLOCK FALSE
INVARIANTS
    SidExclusive
    NoLostWakeup
    SuccessIsAcknowledged
