--------------------------- MODULE TaskLifecycle ---------------------------
(***************************************************************************)
(* What a task instance promises to whoever reads its row (the trigger     *)
(* rules, run finalization, the console): the transitions its state and    *)
(* attempt number really go through, and which of them need an operator.   *)
(* TaskAttempt implements this specification.                              *)
(***************************************************************************)
EXTENDS States

CONSTANT MaxRetries

VARIABLES
    state, try,
    override   \* an operator's cancel, mark or retry is under way

vars == <<state, try, override>>

Live == TaskState \ TerminalTask

Init == state = "scheduled" /\ try = 0 /\ override = FALSE

\* dispatch opens the next attempt; operators hold it off.
Dispatched ==
    ~override /\ state = "scheduled" /\ state' = "queued" /\ try' = try + 1

\* runTask after Launch, or Recover finding a queued row's process alive.
Started == state = "queued" /\ state' = "running" /\ try' = try

\* An attempt ends; a failure is retried while at most MaxRetries were made.
Resolved ==
    /\ state \in {"queued", "running"}
    /\ state' \in {"success", "skipped", IF try <= MaxRetries THEN "up_for_retry" ELSE "failed"}
    /\ try' = try

\* processRun puts a failed attempt back once its delay has elapsed.
Requeued == ~override /\ state = "up_for_retry" /\ state' = "scheduled" /\ try' = try

\* An attempt that never started is returned, its number with it.
GivenBack == state = "queued" /\ state' = "scheduled" /\ try' = try - 1

\* The run's deadline takes every live task.
TimedOut == ~override /\ state \in Live /\ state' = "timed_out" /\ try' = try

\* CancelRun and MarkTask overwrite the row from the snapshot they took, and
\* RetryTask clears it.  The snapshot can predate a GivenBack.
Overridden ==
    /\ override /\ ~override'
    /\ state' \in {"cancelled", "success", "failed", "skipped", "scheduled"}
    /\ try' \in {try, try + 1}

\* An operator begins, or dies with the scheduler before writing.
OverrideBegins == ~override /\ override' /\ UNCHANGED <<state, try>>
OverrideLost   == override /\ ~override' /\ UNCHANGED <<state, try>>

Natural ==
    /\ UNCHANGED override
    /\ Dispatched \/ Started \/ Resolved \/ Requeued \/ GivenBack \/ TimedOut

Next == Natural \/ Overridden \/ OverrideBegins \/ OverrideLost

Spec == Init /\ [][Next]_vars
=============================================================================
