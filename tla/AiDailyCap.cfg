CONSTANTS
    Limit = 2
    Window = 2
    MaxPeriod = 5
    MaxGaps = 0
    MaxRuns = 2
    MaxDays = 1
    MaxSeq = 2
    MaxFails = 0
    Parts = 1
    Cap = 1
    Lookback = 2
SPECIFICATION Spec
INVARIANTS
    DailyCap
