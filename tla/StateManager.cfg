SPECIFICATION Spec
CONSTANTS
    o1 = o1
    o2 = o2
    Orders = {o1, o2}
    Cached = {o2}
    Clients = {c1}
    NoOrder = NoOrder
    NoClient = NoClient
    DeadlineOf <- Deadlines
    OutputsOf <- Outputs
    RetentionBlocks = 0
    HostOffset = 5
    MaxTime = 1
    MaxBlock = 1
INVARIANTS
    TypeOK
    FilledIsTruthful
    ExpiredIsTruthful
    SubscribersUpToDate
    InitiationMatches
    FillMatches
PROPERTIES
    TerminalIsFinal
    RevisedByErrorOnly
    ImplementsOrderFeed
CHECK_DEADLOCK FALSE
