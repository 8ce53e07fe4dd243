SPECIFICATION FairSpec
CONSTANTS
    None = None
    Users = {}
    Orders = {}
    Ticks = {t1, t2}
    Reasons = {}
    MaxReceive = 2
    Limit = 2
    Retention = 1
    MaxNow = 3
    Second = 2
    Faults = {"read", "busy", "extend", "restart"}
CHECK_DEADLOCK FALSE
INVARIANTS
    NoOverlap
PROPERTIES
    RecentRowsKept
    PurgeReaches
    MessageSettles
    JobReleased
