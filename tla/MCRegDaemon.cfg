CONSTANTS
    SeqMod = 6
    RetxAfter = 1
    RetxMax = 2
    RemoteNos = {0, 5, 7}
    Ts = {0}
    WindowBound = 2
    Guard = 3
    LostRetry = 1
    RejectRetry = 2
    ArgRefresh = 3
    Grants = {6}
    DaemonFrames <- MCDaemonFrames
SPECIFICATION MCDaemonSpec
CHECK_DEADLOCK FALSE
INVARIANTS DaemonTypeOK SlotIsCurrent AttemptInTime
PROPERTIES  SilenceNoticed
