SPECIFICATION FairSpec
CHECK_DEADLOCK FALSE
CONSTANTS
    MaxAttempts = 3
    MaxLost = 2
    MaxRefusals = 2
    MaxEncrypted = 1
    MaxRepeats = 1
    MaxTrouble = 2
    Dcs = {d1, d2}
    First = d1
    Requests = {a, b}
    None = None
    MaxGeneric = 3
    MaxEvents = 3
INVARIANTS KeyAgreed Once InOrder CurrentKnown
PROPERTIES Completes Answered
