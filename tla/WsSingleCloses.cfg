SPECIFICATION Spec
CONSTANTS
    o1 = o1
    o2 = o2
    s1 = s1
    Orders = {o1, o2}
    Singles = {s1}
    Alls = {}
    Target <- TargetOne
    Filters = {}
    Capacity = 2
INVARIANT
    ClosesOnTerminal
CHECK_DEADLOCK FALSE
