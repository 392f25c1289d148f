\* One bot started twice: is there ever a second task for it?
CONSTANTS
    b1 = b1
    b2 = b2
    u1 = u1
    Bots = {b1}
    Users = {u1}
    UserOf <- OneBot
    Handles = {h1, h2}
    Reqs = {r1, r2}
    Ops = {"stop", "kill"}
    Plans = {"none", "planned"}
    NoHandle = NoHandle
    NoBot = NoBot
SPECIFICATION Spec
SYMMETRY Symmetry
INVARIANTS
    AtMostOneWorker
