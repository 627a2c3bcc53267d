SPECIFICATION Spec
CONSTANTS
    Sides = {a, b}
    Started = 1
    HolesLimit = 10
    ExchangeIds = {1}
    MaxSent = 5
    MaxRepeats = 0
    MaxFails = 0
INVARIANT NoMismatch
CHECK_DEADLOCK FALSE
