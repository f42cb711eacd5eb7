SPECIFICATION FairSpec
CONSTANTS
    o1 = o1
    o2 = o2
    Orders = {o1}
    Cached = {o1}
    Clients = {c1}
    NoOrder = NoOrder
    NoClient = NoClient
    DeadlineOf <- OneDeadline
    OutputsOf <- OneOutputs
    RetentionBlocks = 0
    HostOffset = 5
    MaxTime = 1
    MaxBlock = 1
PROPERTIES
    OrdersConclude
    RequestsAnswered
CHECK_DEADLOCK FALSE
