CONSTANTS
    SeqMod = 8
    RetxAfter = 1
    RetxMax = 1
    RemoteNos = {0, 5}
    Ts = {0}
    WindowBound = 3
    CallBase = 16
    CallTop = 17
    AllocTries = 7
    CallFrames <- MCNoFrames
    NewFrames <- MCOneNew
    MaxCalls = 2
SPECIFICATION MCPoliteSpec
INVARIANT AudioReachesItsCall
