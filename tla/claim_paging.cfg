SPECIFICATION Spec
CHECK_DEADLOCK FALSE
CONSTANTS
    Writers = {1, 2}
    PageSizes = {0, 9}
    DefaultLimit = 1
    MaxLimit = 2
    Retention = 1
    Rows = 3
    MaxClock = 2
    MaxEntries = 2
    MaxMutations = 1
    MaxFailures = 1
INVARIANTS
    NoRowLost
