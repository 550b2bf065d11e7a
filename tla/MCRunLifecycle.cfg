SPECIFICATION Spec
CONSTANTS
    Tasks = {1, 2, 3}
    Deps <- ChainDeps
    Rule <- ChainRule
    Gated = {1}
    MaxRetries = 0
    HasTimeout = TRUE
    Operators = {"cancel", "retry", "mark_task", "hold"}
    MaxOps = 2
    MaxCrash = 0
INVARIANTS RunInv
PROPERTIES DispatchReady
CHECK_DEADLOCK FALSE
