CONSTANTS
    SeqMod = 8
    RetxAfter = 1
    RetxMax = 1
    RemoteNos = {0, 5}
    Ts = {0}
    WindowBound = 3
    RegGuard = 3
    RegRetry = 2
    KeepaliveEvery = 2
    CfgRefresh = 6
    Refreshes = {2, 6}
    RegFrames <- MCRegFrames
    Expiry = 6
    RegistrarNo = 5
    MaxFaults = 1
SPECIFICATION SystemSpec
PROPERTY RecoversByItself
