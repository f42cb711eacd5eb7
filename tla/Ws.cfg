SPECIFICATION FairSpec
CONSTANTS
    o1 = o1
    o2 = o2
    s1 = s1
    Orders = {o1, o2}
    Singles = {s1}
    Alls = {a1}
    Target <- TargetOne
    Filters <- SomeFilters
    Capacity = 2
INVARIANTS
    TypeOK
    SingleViewCurrent
    AllViewCurrent
PROPERTIES
    TerminalEnds
CHECK_DEADLOCK FALSE
