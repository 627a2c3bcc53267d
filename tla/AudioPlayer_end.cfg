SPECIFICATION Spec
CONSTANTS
    Messages = {m1}
    NoMessage = NoMessage
    Totals = {4}
    Capacity = 2
    Buffers = 3
    MaxCalls = 2
INVARIANT FinishedIsTheEnd
CHECK_DEADLOCK FALSE
