CONSTANTS
    Orders = {o1, o2}
    Callers = {c1, c2}
    LastDate = 1
    Limit <- Racing
SPECIFICATION Spec
PROPERTIES
    OnlyPendingFills
CHECK_DEADLOCK FALSE
