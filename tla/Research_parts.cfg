CONSTANTS
    c1 = c1
    c2 = c2
    k1 = k1
    k2 = k2
    Requests <- MCRequests
    MaxFailing = 1
    none = none
    bad = bad
    original = original
    branch = branch
SPECIFICATION ResearchSpec
INVARIANTS
    PartsTypeOK
    ActsAsAgreed
    ConversationsAreWhole
    RequestsArePlanned
    ContractIsKept
    FilesAreKept
    
SYMMETRY Symmetry
CHECK_DEADLOCK FALSE
