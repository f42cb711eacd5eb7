SPECIFICATION FairSpec
CONSTANTS
    MaxRollup = 2
    MaxHost = 2
    Capacity = 1
    EventCapacity = 1
    MaxLogs = 2
INVARIANTS
    TypeOK
    NewestHeaderShown
    NothingElseLost
    OrderKept
PROPERTIES
    HostAdvances
    ImplementsTipFeed
    HeadersPublished
    BothStop
CHECK_DEADLOCK FALSE
