CONSTANTS
    Nodes = {n1, n2}
    NTasks = 1
    Runs = {r1, r2}
    NoRun = NoRun
    Husk = Husk
    Slots = {k1, k2}
    Limit <- AnyLimit
    Profiles <- LiveProfiles
SPECIFICATION LiveSpec
PROPERTIES
    Settles
CHECK_DEADLOCK FALSE
