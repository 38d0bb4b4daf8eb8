CONSTANTS
    Nodes = {n1, n2}
    NTasks = 2
    Runs = {r1, r2}
    NoRun = NoRun
    Husk = Husk
    Slots = {k1, k2}
    Limit <- AnyLimit
    Profiles <- SafetyProfiles
SPECIFICATION ProfiledSpec
SYMMETRY Symmetry
INVARIANTS
    TypeOK
    OneWorker
    AnsweredOnce
    Exclusion
PROPERTIES
    ConcludedStays
    CancelNotCompleted
CHECK_DEADLOCK FALSE
