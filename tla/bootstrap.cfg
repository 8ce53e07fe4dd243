SPECIFICATION Spec
CONSTANTS
    alice = alice
    bob = bob
    carol = carol
    None = None
    Users = {alice, bob, carol}
    Requests = {r1, r2, r3}
    Emails <- AllEmails
    Reasons <- OneReason
    MaxReason = 500
    Bootstrap <- BossConfigured
    Tokens <- BootstrapTokens
    Operations <- BootstrapOperations
    Databases <- BootstrapDatabases
    Faults = {"tx"}
SYMMETRY Symmetry
CHECK_DEADLOCK FALSE
INVARIANTS
    TypeOK
PROPERTIES
    AdminsGrowByGrant
