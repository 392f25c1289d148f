\* Nothing fails: does a kill leave an order at the venue?
CONSTANTS
    Orders = {o1, o2}
    Kills = {k1}
    Task = Task
    NoOrder = NoOrder
    Faults = {}
SPECIFICATION Spec
INVARIANTS
    KillLeavesNothing
