CONSTANTS
    TsMod = 16
    Stamps = {0, 2, 3, 4, 6, 7, 12, 15}
    FrameMs = 2
    MinDepth = 2
    MaxDepth = 4
    MaxFrames = 3
    MissThreshold = 2
    MissDecay = 1
    PushMax = 6
SPECIFICATION JitterFairSpec
INVARIANTS JitterTypeOK ConcealBounded
PROPERTY FallsSilent
