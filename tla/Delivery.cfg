CONSTANTS
    Users = {alice, bob}
    NoUser = NoUser
    Sockets = {s1}
    home <- Home
    Gateways = {g1, g2}
    MaxLen = 1
    MaxBatch = 2
    MaxEvents = 2
    Faults = {"reply", "read", "ack"}
SPECIFICATION FairSpec
INVARIANTS
    TypeOK
    AckedWasHandled
    OpenSocketSeesAll
    OnlyTheRaceLeaks
PROPERTIES
    ChannelSpec
    NothingStalls
