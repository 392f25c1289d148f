\* A sparse venue and a request that reaches back three periods; a cap of one
\* consult, two runs, two days, failing consults.
CONSTANTS
    Limit = 2
    Window = 3
    MaxPeriod = 4
    MaxGaps = 2
    MaxRuns = 2
    MaxDays = 2
    MaxSeq = 2
    MaxFails = 1
    Parts = 1
    Cap = 1
    Lookback = 2
SPECIFICATION FairSpec
INVARIANTS
    BudgetKept
PROPERTIES
    BarFeed
