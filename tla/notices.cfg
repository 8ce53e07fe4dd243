SPECIFICATION Spec
CONSTANTS
    None = None
    Users = {u1}
    Orders = {o1, o2}
    Ticks = {}
    Reasons = {1, 2}
    MaxReceive = 2
    Limit = 2
    Retention = 3
    MaxNow = 0
    Second = 2
    Faults = {"read", "extend", "restart"}
CHECK_DEADLOCK FALSE
SYMMETRY Symmetry
INVARIANTS
    NoticeIsCurrent
PROPERTIES
    ImplementsDelivery
