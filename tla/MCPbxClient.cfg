CONSTANTS
    SeqMod = 6
    RetxAfter = 1
    RetxMax = 0
    RemoteNos = {0, 5}
    Ts = {0}
    WindowBound = 2
    RegGuard = 2
    RegRetry = 1
    KeepaliveEvery = 1
    CfgRefresh = 1
    Refreshes = {1}
    RegFrames <- MCRegFrames
    CallBase = 16
    CallTop = 17
    AllocTries = 7
    CallFrames <- MCCallFrames
    NewFrames <- MCNewFrames
    MaxCalls = 2
    QualifyBase = 18
    QualifySpan = 2
    Probes <- MCProbes
SPECIFICATION PbxSpec
CONSTRAINT ShortLegs
INVARIANTS PbxTypeOK NoTimerMissed RemoteIndexLive
PROPERTIES WindowsIsolated EndedIffDropped FreshCallNo RegSpec CallSpec
