CONSTANTS
    SeqMod = 6
    RetxAfter = 1
    RetxMax = 1
    RemoteNos = {0, 5}
    Ts = {0, 1, 2, 3, 4, 5, 6, 7, 8}
    WindowBound = 2
    ClientKinds = {"DTMF", "PAIR", "LAGRP"}
    ClientMax = 7
    MixMax = 2
    PbxMax = 1
    MaxLoss = 2
    MaxRepeat = 1
SPECIFICATION LinkFairSpec
INVARIANTS KeptUntilReceived OneLossRepaired
PROPERTY NoFrameLeftUnknown
