SPECIFICATION Spec
CONSTANTS
    Tasks = {1, 2}
    Deps <- PairDeps
    Rule <- PairRule
    Gated = {}
    MaxRetries = 0
    HasTimeout = FALSE
    Operators = {"cancel"}
    MaxOps = 1
    MaxCrash = 0
PROPERTIES CancelNotClobbered
CHECK_DEADLOCK FALSE
