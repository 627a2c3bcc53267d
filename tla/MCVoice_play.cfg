SPECIFICATION MCFairSpec
CONSTANTS
    Messages = {m1, m2}
    NoMessage = NoMessage
    Totals = {5}
    Capacity = 2
    Buffers = 2
    MaxCalls = 3
    SegmentSize = 2
    PageSegments = 4
    Gather = 2
    NominalFill = 3
    PacketSizes = {1, 2, 7}
    MaxPackets = 5
    MaxDamaged = 2
    OpusFiles <- MCFiles
    DataOffset = 1
    PreRoll = 3
    Near = 4
    Second = 4
    CurTimeThresh = 5
    ChunkSize = 2
    ChunkSizeMax = 4
    ReadSize = 2
INVARIANTS BuffersKept Gapless WholeHeard Whole HolesTold NothingLost Exact Converged
PROPERTIES Finishes Narrows
CHECK_DEADLOCK FALSE
