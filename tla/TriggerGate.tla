---------------------------- MODULE TriggerGate ----------------------------
(***************************************************************************)
(* The gate of one task: EvalTriggerRule over the states of its            *)
(* dependencies while these make their way to a terminal state.  The code  *)
(* counts; the run model uses the quantifier forms Ready and Blocked of    *)
(* States.  This module relates the two and states what the tick relies    *)
(* on when it collects a ready task in one pass and dispatches it later.   *)
(***************************************************************************)
EXTENDS States, FiniteSets

CONSTANT Dep   \* the task's dependencies

ASSUME DepFinite == IsFiniteSet(Dep)

VARIABLES rule, deps

gateVars == <<rule, deps>>

GateTypeOK == rule \in TriggerRule /\ deps \in [Dep -> DepState]

GateInit == rule \in TriggerRule /\ deps = [d \in Dep |-> "none"]

\* A dependency is expanded, dispatched, retried or resolved.  What is
\* terminal stays so while no operator interferes.
Advance(d) ==
    /\ deps[d] \notin TerminalTask
    /\ \E s \in TaskState : deps' = [deps EXCEPT ![d] = s]
    /\ UNCHANGED rule

GateNext == \E d \in Dep : Advance(d)

GateSpec == GateInit /\ [][GateNext]_gateVars

-----------------------------------------------------------------------------
Count(S) == Cardinality({d \in Dep : deps[d] \in S})

\* EvalTriggerRule returns <<ready, blocked>> from the number of dependencies
\* in each class.
Eval(fail) ==
    LET n == Cardinality(Dep)
        succ == Count({"success"})
        skip == Count({"skipped"})
        allDone == Count(TerminalTask) = n
    IN
    IF n = 0 THEN <<TRUE, FALSE>>
    ELSE CASE rule = "all_done"    -> <<allDone, FALSE>>
           [] rule = "one_success" -> <<succ >= 1, allDone /\ succ = 0>>
           [] rule = "one_failed"  -> <<fail >= 1, allDone /\ fail = 0>>
           [] rule = "all_failed"  -> <<allDone /\ fail = n, succ > 0 \/ skip > 0>>
           [] rule = "none_failed" -> <<allDone /\ fail = 0, fail > 0>>
           [] OTHER                -> <<succ = n, fail > 0 \/ skip > 0>>

\* Mutant: a timed out or cancelled dependency is done but not failed.
EvalForgetsTimeout == Eval(Count({"failed", "upstream_failed"}))

EvalTriggerRule == Eval(Count(FailedDep))

GateReady   == Ready(rule, Dep, deps)
GateBlocked == Blocked(rule, Dep, deps)

-----------------------------------------------------------------------------
\* The counting code of EvalTriggerRule computes exactly Ready and Blocked.
EvalIsReadyBlocked == EvalTriggerRule = <<GateReady, GateBlocked>>

\* "ready and blocked are mutually exclusive", and once every dependency is
\* terminal the task is one of the two: otherwise it stays scheduled and the
\* run is stuck in running.
GateDecides ==
    /\ ~(GateReady /\ GateBlocked)
    /\ AllIn(Dep, deps, TerminalTask) => GateReady \/ GateBlocked

\* A task that is ready or blocked stays so whatever the dependencies do
\* next: a task collected by one pass is still ready at admitReady, and one
\* marked upstream_failed was not marked too early.
GateStable ==
    [][(GateReady => GateReady') /\ (GateBlocked => GateBlocked')]_gateVars
=============================================================================
