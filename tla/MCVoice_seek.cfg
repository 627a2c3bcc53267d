SPECIFICATION MCSpec
CONSTANTS
    Messages = {m1}
    NoMessage = NoMessage
    Totals = {5}
    Capacity = 2
    Buffers = 2
    MaxCalls = 0
    SegmentSize = 2
    PageSegments = 4
    Gather = 2
    NominalFill = 3
    PacketSizes = {1, 2, 7}
    MaxPackets = 1
    MaxDamaged = 0
    OpusFiles <- MCFiles
    DataOffset = 1
    PreRoll = 3
    Near = 4
    Second = 4
    CurTimeThresh = 5
    ChunkSize = 2
    ChunkSizeMax = 4
    ReadSize = 2
INVARIANT BeginsExactly
CHECK_DEADLOCK FALSE
