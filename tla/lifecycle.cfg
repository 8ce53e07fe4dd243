SPECIFICATION FairSpec
CHECK_DEADLOCK FALSE
CONSTANTS
    None = None
    Processes = {p1, p2}
    Requests = {r1}
    Migrations = 2
    Delay = 3
    Timeout = 1
    Interval = 1
    Threshold = 2
    MaxStarts = 2
    Faults = {"boot", "serve", "crash"}
INVARIANTS
    TypeOK
    SchemaWhole
    DatabaseOutlivesRequests
    DatabaseOutlivesCron
    PoolsReturned
    NoRequestRefused
PROPERTIES
    SignalEnds
