SPECIFICATION MCFairSpec
CONSTANTS
    Sides = {a, b}
    Started = 1
    HolesLimit = 10
    ExchangeIds = {1, 2}
    MaxSent = 4
    MaxRepeats = 0
    MaxFails = 0
    FaultLimit = 2
    FaultSent = 3
INVARIANTS Readable NoneMissing KeysSettle HeldForAReason
PROPERTIES InOrderBothWays AllArrives
CHECK_DEADLOCK FALSE
