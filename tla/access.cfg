SPECIFICATION Spec
CONSTANTS
    alice = alice
    bob = bob
    carol = carol
    None = None
    Users = {alice, bob, carol}
    Requests = {r1, r2, r3}
    Emails <- AllEmails
    Reasons <- OneReason
    MaxReason = 500
    Bootstrap <- BossConfigured
    Tokens <- AccessTokens
    Operations <- AccessOperations
    Databases <- AccessDatabases
    Faults = {}
SYMMETRY Symmetry
CHECK_DEADLOCK FALSE
INVARIANTS
    SoleAdminNotBanned
PROPERTIES
    AdminsNeverEmptied
    NoBannedPromotion
    ImplementsAccess
