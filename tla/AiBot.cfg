CONSTANTS
    Limit = 2
    Window = 2
    MaxPeriod = 7
    MaxGaps = 0
    MaxRuns = 2
    MaxDays = 1
    MaxSeq = 2
    MaxFails = 0
    Parts = 2
    Cap = 0
    Lookback = 2
SPECIFICATION Spec
INVARIANTS
    TypeOK
    ActedOnce
    AtMostOneBehind
    HeldAgainstPosition
