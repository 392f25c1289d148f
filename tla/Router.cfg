\* Two orders, two kills, every fault; no symmetry, since one property is temporal.
CONSTANTS
    Orders = {o1, o2}
    Kills = {k1, k2}
    Task = Task
    NoOrder = NoOrder
    Faults = {"venue", "db", "publish"}
SPECIFICATION FairSpec
INVARIANTS
    TypeOK
    PaperTrail
    AuditAgrees
    OneHandPerOrder
    CancelledIsWithdrawn
    RestingIsAccountedFor
PROPERTIES
    CancelOpenReturns
