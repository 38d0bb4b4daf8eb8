CONSTANTS
    Pages = {p}
    MaxParts = 2
    Limit <- Quiet
SPECIFICATION Spec
INVARIANTS
    StreamedIsPersisted
CHECK_DEADLOCK FALSE
