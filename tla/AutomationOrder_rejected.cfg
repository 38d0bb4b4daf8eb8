CONSTANTS
    Decisions = {d1, d2}
    Callers = {c1, c2}
    Deployed = TRUE
    Execution = "paper"
    Mode = "confirm"
    FillTime = "next_open"
    MaxOrders = 1
    MaxAttempts = 2
    Limit <- AtOnce
SPECIFICATION Spec
INVARIANTS
    RejectedHasNoOrder
CHECK_DEADLOCK FALSE
