CONSTANTS
    n1 = n1
    n2 = n2
    s1 = s1
    s2 = s2
    j = j
    r = r
    p = p
    Nodes = {n1, n2}
    Callers = {s1, s2}
    Home <- TwoNodes
    Schedulers = {s1, s2}
    LastDay = 2
    Limit <- NoTrouble
SPECIFICATION ProgressSpec
PROPERTIES
    RunsEnd
    StreamsEnd
CHECK_DEADLOCK FALSE
