CONSTANTS
    TsMod = 64
    Stamps <- MCStamps
    FrameMs = 1
    MinDepth = 3
    MaxDepth = 4
    MaxFrames = 8
    MissThreshold = 4
    MissDecay = 1
    PushMax = 64
    Wrap16 = 16
    FirstTs = {25, 31}
    MaxDelay = 1
    MaxSilence = 1
    MaxLoss = 1
    ClockMax = 37
SPECIFICATION VoiceSpec
CHECK_DEADLOCK FALSE
INVARIANTS NothingDiscarded OneWrap
PROPERTIES HeardInOrder
