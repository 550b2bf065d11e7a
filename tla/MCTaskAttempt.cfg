SPECIFICATION Spec
CONSTANTS
    Gor = {g1, g2}
    MaxRetries = 1
    MaxTry = 3
    MaxOps = 2
    MaxCrash = 1
    Durable = FALSE
    Faults = {"no_worker", "launch_error", "lost_reply", "probe_error", "store_error", "eviction"}
SYMMETRY Symmetry
INVARIANTS FreshRef RetryBudget
PROPERTIES TerminalSticky GenuineOutcome ImplementsLifecycle
CHECK_DEADLOCK FALSE
