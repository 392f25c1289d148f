\* Nothing fails: does a refused cancel leave the other orders alone?
CONSTANTS
    Orders = {o1, o2}
    Kills = {k1}
    Task = Task
    NoOrder = NoOrder
    Faults = {}
SPECIFICATION Spec
PROPERTIES
    RejectionDoesNotBlock
