SPECIFICATION Spec
CONSTANTS
    o1 = o1
    o2 = o2
    Orders = {o1, o2}
    Cached = {o2}
    Clients = {c1}
    NoOrder = NoOrder
    NoClient = NoClient
    DeadlineOf <- Deadlines
    OutputsOf <- TwinOutputs
    RetentionBlocks = 0
    HostOffset = 5
    MaxTime = 1
    MaxBlock = 1
INVARIANT
    InitiationIsOwn
CHECK_DEADLOCK FALSE
