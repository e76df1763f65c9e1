SPECIFICATION Spec
CONSTANTS
    Action = {"a", "b"}
    PayloadLen <- Lengths
    Slot = {1}
    Budgeted = TRUE
    Budgets <- Bounds
    Idle = Idle
INVARIANTS
    
    NothingToldIsLost

    
CHECK_DEADLOCK FALSE
