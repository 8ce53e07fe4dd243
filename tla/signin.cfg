SPECIFICATION Spec
CONSTANTS
    alice = alice
    bob = bob
    carol = carol
    None = None
    Users = {alice, bob, carol}
    Requests = {r1, r2, r3}
    Emails <- AllEmails
    Reasons <- OneReason
    MaxReason = 500
    Bootstrap <- BossConfigured
    Tokens <- SignInTokens
    Operations <- SignInOperations
    Databases <- SignInDatabases
    Faults = {"tx"}
SYMMETRY Symmetry
CHECK_DEADLOCK FALSE
INVARIANTS
    SignInOnce
PROPERTIES
    SignInNeverRegresses
