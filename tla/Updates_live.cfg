SPECIFICATION FairSpec
CONSTANTS
    MaxEvents = 3
    MaxTasks = 0
    MaxCrashes = 0
    MaxErrors = 0
    Kinds = {"msg", "own"}
    Types = {"updateShortMessage"}
    MayMiss = FALSE
PROPERTIES
    DifferenceEnds
    HoleFilled
CHECK_DEADLOCK FALSE
