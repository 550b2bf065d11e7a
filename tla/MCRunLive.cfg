SPECIFICATION FairSpec
CONSTANTS
    Tasks = {1, 2, 3}
    Deps <- ChainDeps
    Rule <- ChainRule
    Gated = {}
    MaxRetries = 1
    HasTimeout = FALSE
    Operators = {"hold", "mark_run", "retry", "cancel"}
    MaxOps = 1
    MaxCrash = 1
INVARIANTS NoLostTrigger
PROPERTIES RunEnds TriggerDelivered
CHECK_DEADLOCK FALSE
