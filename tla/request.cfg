SPECIFICATION MCSpec
CHECK_DEADLOCK FALSE
CONSTANTS
    None = None
    Documents <- AllDocuments
    Requests <- AllRequests
    Identities <- AllIdentities
    Alias <- Aliases
    Trusted = {"gate", "edge"}
    DevMode = TRUE
    ComplexityLimit = 14
    MaxDetail = 4
    MaxActionFields = 2
INVARIANTS
    TypeOK
    NullsAccounted
    NothingBehindDenial
    SiblingsRun
    FailuresNamed
    NothingWithoutIdentity
    AddressIsTheClients
    EveryCrossingAudited
PROPERTIES
    RootsInOrder
    Answered
