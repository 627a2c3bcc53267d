SPECIFICATION MCFairSpec
CONSTANTS
    Names = {f, g, h}
    MaxForced = 2
    MaxOps = 3
    MaxPosted = 2
    MaxRepeats = 1
    UploadNames = {f, g}
    MaxUploads = 3
INVARIANTS CountIsRight Findable UploadsInTurn
PROPERTY Starts
CHECK_DEADLOCK FALSE
