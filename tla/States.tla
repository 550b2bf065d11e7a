------------------------------- MODULE States -------------------------------
(***************************************************************************)
(* The vocabulary of internal/model: run and task states, which of them    *)
(* are terminal, the run transitions the store accepts, and the trigger    *)
(* rules that gate a task on the states of its dependencies.  No state of  *)
(* its own: every other module of the scheduler extends it.                *)
(***************************************************************************)
EXTENDS Naturals

RunState == {"queued", "running", "success", "failed", "cancelled", "timed_out"}

ActiveRun == {"queued", "running"}

TerminalRun == {"success", "failed", "cancelled", "timed_out"}

TaskState == {"scheduled", "queued", "running", "success", "failed",
              "up_for_retry", "upstream_failed", "skipped", "cancelled",
              "timed_out"}

TerminalTask == {"success", "failed", "upstream_failed", "skipped",
                 "cancelled", "timed_out"}

\* The states a run may move to `target` from; UpdateDagRunState applies its
\* write only when the row is in one of them.
LegalPriorRunStates(target) ==
    CASE target = "running"   -> {"queued"} \cup TerminalRun
      [] target = "success"   -> {"queued", "running", "success", "failed"}
      [] target = "failed"    -> {"queued", "running", "success", "failed"}
      [] target = "cancelled" -> {"queued", "running"}
      [] target = "timed_out" -> {"running"}
      [] OTHER                -> {}

\* UpdateDagRunState: the run row after a guarded write of `target`.
UpdateDagRunState(cur, target) ==
    IF cur \in LegalPriorRunStates(target) THEN target ELSE cur

-----------------------------------------------------------------------------
(***************************************************************************)
(* Trigger rules.  D is the set of a task's dependencies and st their      *)
(* states; "none" is the state of a dependency not yet expanded.           *)
(***************************************************************************)
TriggerRule == {"all_success", "all_done", "one_success", "one_failed",
                "all_failed", "none_failed"}

DepState == TaskState \cup {"none"}

\* The terminal non-successes EvalTriggerRule counts as `fail`.
FailedDep == {"failed", "upstream_failed", "timed_out", "cancelled"}

AllIn(D, st, S)  == \A d \in D : st[d] \in S
SomeIn(D, st, S) == \E d \in D : st[d] \in S

\* Mutant: none_failed does not wait for the dependencies to finish.
ReadyEarly(rule, D, st) ==
    \/ D = {}
    \/ rule = "all_success" /\ AllIn(D, st, {"success"})
    \/ rule = "all_done"    /\ AllIn(D, st, TerminalTask)
    \/ rule = "one_success" /\ SomeIn(D, st, {"success"})
    \/ rule = "one_failed"  /\ SomeIn(D, st, FailedDep)
    \/ rule = "all_failed"  /\ AllIn(D, st, FailedDep)
    \/ rule = "none_failed" /\ ~SomeIn(D, st, FailedDep)

Ready(rule, D, st) ==
    \/ D = {}
    \/ rule = "all_success" /\ AllIn(D, st, {"success"})
    \/ rule = "all_done"    /\ AllIn(D, st, TerminalTask)
    \/ rule = "one_success" /\ SomeIn(D, st, {"success"})
    \/ rule = "one_failed"  /\ SomeIn(D, st, FailedDep)
    \/ rule = "all_failed"  /\ AllIn(D, st, FailedDep)
    \/ rule = "none_failed" /\ AllIn(D, st, {"success", "skipped"})

\* Mutant: a skipped dependency does not block all_success.
BlockedByFailure(rule, D, st) ==
    /\ D # {}
    /\ \/ rule = "all_success" /\ SomeIn(D, st, FailedDep)
       \/ rule = "one_success" /\ AllIn(D, st, TerminalTask \ {"success"})
       \/ rule = "one_failed"  /\ AllIn(D, st, TerminalTask \ FailedDep)
       \/ rule = "all_failed"  /\ SomeIn(D, st, {"success", "skipped"})
       \/ rule = "none_failed" /\ SomeIn(D, st, FailedDep)

Blocked(rule, D, st) ==
    /\ D # {}
    /\ \/ rule = "all_success" /\ SomeIn(D, st, FailedDep \cup {"skipped"})
       \/ rule = "one_success" /\ AllIn(D, st, TerminalTask \ {"success"})
       \/ rule = "one_failed"  /\ AllIn(D, st, TerminalTask \ FailedDep)
       \/ rule = "all_failed"  /\ SomeIn(D, st, {"success", "skipped"})
       \/ rule = "none_failed" /\ SomeIn(D, st, FailedDep)
=============================================================================
