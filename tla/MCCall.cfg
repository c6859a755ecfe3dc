CONSTANTS
    SeqMod = 6
    RetxAfter = 1
    RetxMax = 1
    RemoteNos = {0, 5}
    Ts = {0}
    WindowBound = 2
    CallBase = 16
    CallTop = 16
    AllocTries = 7
    CallFrames <- MCAllFrames
    NewFrames <- MCNew
    MaxCalls = 1
SPECIFICATION CallFairSpec
INVARIANT CallTypeOK
PROPERTIES FramesResolve CallLife
