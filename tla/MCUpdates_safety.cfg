SPECIFICATION Spec
CONSTANTS
    MaxEvents = 2
    MaxTasks = 1
    MaxCrashes = 1
    MaxErrors = 1
    Kinds = {"msg", "enc", "own"}
    Types = {"updateShortMessage", "updateShortChatMessage", "updates", "updatesCombined", "userAction"}
    MayMiss = TRUE
CONSTRAINT Bound
INVARIANTS
    NoGap
    CrashSafe
    AckedIsHanded
    HoleHasTimer
CHECK_DEADLOCK FALSE
