SPECIFICATION FairSpec
CONSTANTS
    Dags = {"a", "b"}
    Scheduled = {"a"}
    Catchup = {"a"}
    Downstream = {"a"}
    Subdags = {"b"}
    MaxActiveRuns <- MCMaxActiveRuns
    Policies <- MCPolicies
    Events = {0}
    Subs <- MCSubs
    Every = 1
    MaxTime = 2
    Retention = 1
    MaxQueuedRunsGlobal = 2
    MaxManualQueuePerDAG = 2
    MaxManualQueueGlobal = 2
    MaxActiveRunsGlobal = 2
    Window = 3
    Prios = {1}
    Outcomes = {"failed"}
    Ops = {"event", "trigger", "backfill", "dependency", "subdag", "pause", "hold", "cancel", "retry", "delete"}
    MaxOps = 1
    MaxCrash = 1
INVARIANTS QueueInv
PROPERTIES InOrder NoReplay QueuedStarts DueIsCreated EventServed
CHECK_DEADLOCK FALSE
