SPECIFICATION Spec
CONSTANTS
    k1 = k1
    k2 = k2
    r1 = r1
    r2 = r2
    r3 = r3
    a1 = a1
    a2 = a2
    x1 = x1
    x2 = x2
    None = None
    Checkouts = {k1, k2}
    Requests = {r1, r2, r3}
    Activations = {a1, a2}
    KeyIds = {x1, x2}
    MaxRepairs = 2
    Scenarios <- AllScenarios
    Decimals <- DecimalValues
    PlainTexts <- Plain
    MaxNesting = 2
INVARIANTS
    RowSettles
    StartsSettle
    WarnedOrFaithful
PROPERTIES
    GatesHold
CHECK_DEADLOCK FALSE
