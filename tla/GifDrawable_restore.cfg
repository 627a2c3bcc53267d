SPECIFICATION GifSpec
CONSTANTS
    Width = 2
    Height = 2
    Disposals = {0, 3}
    Pictures <- MCPictures
    MaxFrames = 3
    LoopCounts = {0}
    MaxGifCalls = 1
INVARIANT RestoresPrevious
CHECK_DEADLOCK FALSE
