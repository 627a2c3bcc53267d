SPECIFICATION GifFairSpec
CONSTANTS
    Width = 2
    Height = 2
    Disposals = {0, 2}
    Pictures <- MCPictures
    MaxFrames = 3
    LoopCounts = {0, 1}
    MaxGifCalls = 2
INVARIANTS InStep CanvasRight
PROPERTY KeepsPlaying
CHECK_DEADLOCK FALSE
