\* Two bots of one user, each with a companion, one coroutine at a time; no symmetry, since the
\* properties are temporal.
CONSTANTS
    b1 = b1
    b2 = b2
    u1 = u1
    Bots = {b1, b2}
    Users = {u1}
    UserOf <- OneUser
    Handles = {h1, h2}
    Reqs = {r1}
    Ops = {"stop", "kill", "kill_all", "shutdown"}
    Plans = {"planned"}
    NoHandle = NoHandle
    NoBot = NoBot
SPECIFICATION FairSpec
PROPERTIES
    RequestsReturn
    ExitsComplete
