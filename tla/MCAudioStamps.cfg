CONSTANTS
    FrameLen = 3
    InChunk = 2
    OutChunk = 2
    CapCap = 6
    PlayCap = 8
    TickMax = 4
SPECIFICATION AudioSpec
INVARIANT StampsDistinct
