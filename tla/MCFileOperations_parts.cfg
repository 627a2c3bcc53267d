SPECIFICATION MCFairSpec
CONSTANTS
    LoadSizes = {3, 8, 11, 19}
    Block = 2
    LoadChunk = 4
    MaxRequests = 3
    LoadErrors = 2
    MaxMigrations = 2
    MaxTorn = 1
    MaxRenewals = 1
    UploadSizes = {3, 4, 7, 10}
    UploadChunk = 2
    SaveEvery = 2
    SaveUnits = 4
    MaxPosted = 2
    UploadErrors = 1
    MaxDeaths = 2
    Ids = {x, y}
    Observers = {a, b}
    None = None
    MaxDepth = 2
INVARIANTS Settled WholeFile NotedIsSent
PROPERTIES TellsAll Ends
CHECK_DEADLOCK FALSE
