CONSTANTS
    n1 = n1
    n2 = n2
    s1 = s1
    s2 = s2
    hand = hand
    d1 = d1
    d2 = d2
    u1 = u1
    u2 = u2
    x = x
    y = y
    z = z
    Nodes = {n1, n2}
    Callers = {s1, s2, hand}
    Home <- TwoNodes
    Schedulers = {s1, s2}
    LastDay = 1
    Limit <- Trouble
SPECIFICATION PartsSpec
SYMMETRY Symmetry
INVARIANTS
    PartsTypeOK
    
    OrderedOnce
    OrdersAreAccounted
    NothingUnreviewed
    

    
CHECK_DEADLOCK FALSE
