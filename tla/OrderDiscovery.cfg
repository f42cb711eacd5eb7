SPECIFICATION FairSpec
CONSTANTS
    Orders = {o1, o2}
INVARIANTS
    TypeOK
    NoDuplicates
    SeenIsListed
PROPERTIES
    ListedIsForwarded
