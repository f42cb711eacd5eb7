SPECIFICATION FairSpec
CONSTANTS
    Orders = {o1, o2}
PROPERTY
    NewOrdersForwarded
