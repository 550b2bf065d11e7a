SPECIFICATION FairSpec
CONSTANTS
    Gor = {g1, g2}
    MaxRetries = 1
    MaxTry = 4
    MaxOps = 2
    MaxCrash = 1
    Durable = TRUE
    Faults = {}
INVARIANTS Attended
PROPERTIES AttemptResolves NoRerunAfterSuccess
CHECK_DEADLOCK FALSE
