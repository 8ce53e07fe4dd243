SPECIFICATION FairSpec
CONSTANTS
    alice = alice
    bob = bob
    carol = carol
    None = None
    Users = {alice, bob, carol}
    Requests = {r1, r2}
    Emails <- AllEmails
    Reasons <- EdgeReasons
    MaxReason = 500
    Bootstrap <- BossConfigured
    Tokens <- CommandsTokens
    Operations <- CommandsOperations
    Databases <- CommandsDatabases
    Faults = {"tx", "audit", "crash"}
CHECK_DEADLOCK FALSE
INVARIANTS
    BansBite
    NoticeIffBan
    AuditComplete
PROPERTIES
    RequestAnswered
