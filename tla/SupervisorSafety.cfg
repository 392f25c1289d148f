\* Two bots of one user, two starts, two coroutines in flight, companions or none.
CONSTANTS
    b1 = b1
    b2 = b2
    u1 = u1
    Bots = {b1, b2}
    Users = {u1}
    UserOf <- OneUser
    Handles = {h1, h2}
    Reqs = {r1, r2}
    Ops = {"stop", "kill", "kill_all", "shutdown"}
    Plans = {"none", "planned"}
    NoHandle = NoHandle
    NoBot = NoBot
SPECIFICATION Spec
SYMMETRY Symmetry
INVARIANTS
    TypeOK
    NoOrphanCompanion
    KilledIsFinal
    LiveHandleHasWorker
    ShutdownStopsAll
    AtMostOneTrader
    TakedownCovers
PROPERTIES
    EndedStaysEnded
    SlotSpec
