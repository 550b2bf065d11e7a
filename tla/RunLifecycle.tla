---------------------------- MODULE RunLifecycle ----------------------------
(***************************************************************************)
(* One run and all its tasks: the tick's pass over it (processActiveRuns,  *)
(* processRun, admitReady), the operators' CancelRun, RetryTask, RetryRun, *)
(* MarkTask, MarkRun, hold and release, the run deadline, and the durable  *)
(* dependency event that starts the downstream DAG.                        *)
(*                                                                         *)
(* The tick lists active runs without finalizeMu and works from that copy  *)
(* afterwards; every pass and every operation then holds finalizeMu while  *)
(* it writes one row after the other, so a crash can fall between any two  *)
(* writes.  What happens inside an attempt is TaskAttempt's subject: here  *)
(* a live row simply moves the way TaskLifecycle allows.                   *)
(***************************************************************************)
EXTENDS States

CONSTANTS
    Tasks,       \* positions of the tasks in the DAG definition, from 1; a run of a DAG
                 \* emptied after it was queued fails before any of this
    Deps, Rule,  \* dependencies and trigger rule of each task
    Gated,       \* tasks with a when: or depends_on_dag gate
    MaxRetries,
    HasTimeout,  \* whether the DAG sets dagrun_timeout
    Operators,   \* operations offered to operators, a subset of Operation
    MaxOps, MaxCrash

Operation == {"cancel", "retry", "mark_task", "mark_run", "hold"}

ASSUME RunConstants ==
    /\ Tasks \subseteq Nat \ {0} /\ Tasks # {}
    /\ Deps \in [Tasks -> SUBSET Tasks]
    /\ Rule \in [Tasks -> TriggerRule]
    /\ Gated \subseteq Tasks
    /\ MaxRetries \in Nat /\ MaxOps \in Nat /\ MaxCrash \in Nat
    /\ HasTimeout \in BOOLEAN
    /\ Operators \subseteq Operation

\* The parser refuses a cycle; a dependency may come later in the definition.
ASSUME DepsAcyclic ==
    \A S \in SUBSET Tasks : S # {} => \E t \in S : Deps[t] \cap S = {}

VARIABLES
    run, held, \* dag_runs: state and operator hold
    late,      \* dagrun_timeout has passed since started_at
    rows,      \* task_instances: state of each task, "none" before expansion
    tries,     \* attempts made
    tick,      \* the tick and the copy of the run it listed
    ready,     \* tasks collected for admitReady
    mu,        \* holder of finalizeMu and the rows it has still to write
    suppress,  \* notifySuppress
    event,     \* dependency event of the run
    reader,    \* processPendingDependencyEvents in the tick
    down,      \* the downstream run of this period exists
    ops, crashes,
    redone     \* history: tasks a retry or a mark has written since the harvest

vars == <<run, held, late, rows, tries, tick, ready, mu, suppress,
          event, reader, down, ops, crashes, redone>>

RowState == TaskState \cup {"none"}
LiveRow  == RowState \ (TerminalTask \cup {"none"})
TickPC   == {"idle", "listed", "expand", "final", "admit"}
Holder   == {"none", "tick", "cancel", "timeout", "retry", "mark"}
Markable == {"success", "failed", "skipped"}

\* What a when: or depends_on_dag gate makes of a ready task.
Gate == {"open", "wait", "skipped", "failed"}

IdleTick == [pc |-> "idle", as |-> "running", held |-> FALSE, stale |-> FALSE]

\* todo: rows still to write; ref: those that carried an executor ref when
\* the operation read them; task and to: what MarkTask was asked for.
Free == [op |-> "none", todo |-> {}, ref |-> {}, task |-> 0, to |-> "success"]
Lock(op, S) == [op |-> op, todo |-> S, ref |-> {t \in S : rows[t] # "scheduled"},
                task |-> 0, to |-> "success"]
Unlocked == mu.op = "none"

TypeOK ==
    /\ run \in RunState
    /\ held \in BOOLEAN /\ late \in BOOLEAN /\ suppress \in BOOLEAN /\ down \in BOOLEAN
    /\ rows \in [Tasks -> RowState]
    /\ tries \in [Tasks -> 0..(MaxRetries + 1 + MaxOps)]
    /\ tick \in [pc : TickPC, as : ActiveRun, held : BOOLEAN, stale : BOOLEAN]
    /\ ready \in SUBSET Tasks
    /\ mu \in [op : Holder, todo : SUBSET Tasks, ref : SUBSET Tasks,
               task : Tasks \cup {0}, to : Markable]
    /\ event \in {"none", "pending", "consumed"}
    /\ reader \in {"idle", "success", "consume"}
    /\ ops \in 0..MaxOps /\ crashes \in 0..MaxCrash /\ redone \in SUBSET Tasks

\* The run was just created, or a pass expanded it and failed to start it.
Init ==
    /\ run = "queued" /\ held = FALSE /\ late = FALSE
    /\ \E s \in {"none", "scheduled"} : rows = [t \in Tasks |-> s]
    /\ tries = [t \in Tasks |-> 0]
    /\ tick = IdleTick /\ ready = {} /\ mu = Free
    /\ suppress = FALSE
    /\ event = "none" /\ reader = "idle" /\ down = FALSE
    /\ ops = 0 /\ crashes = 0 /\ redone = {}

-----------------------------------------------------------------------------
(* The dependency graph.                                                   *)

\* downstreamClosure: t and everything transitively downstream of it.
Downstream(t) ==
    {u \in Tasks : \A S \in SUBSET Tasks :
        (t \in S /\ \A v \in Tasks : Deps[v] \cap S # {} => v \in S) => u \in S}

Set(st, S, state) == [t \in Tasks |-> IF t \in S THEN state ELSE st[t]]
InState(st, state) == {t \in Tasks : st[t] = state}

\* taskGate says ready.
IsReady(t, st) == st[t] = "scheduled" /\ Ready(Rule[t], Deps[t], st)

\* Step 1 of processRun repeats until nothing changes; the graph is acyclic,
\* so B is the one set of scheduled tasks that are blocked once B is.
Propagates(st, B) ==
    B = {t \in InState(st, "scheduled") :
           Blocked(Rule[t], Deps[t], Set(st, B, "upstream_failed"))}

\* Step 3 goes over the tasks in order and resolves gates in place, so a task
\* sees what the pass decided for the tasks before it.
SeenBy(t, st, new) == [d \in Tasks |-> IF d < t THEN new[d] ELSE st[d]]

-----------------------------------------------------------------------------
(* The tick.                                                               *)

ListRuns ==
    /\ tick.pc = "idle" /\ reader = "idle" /\ run \in ActiveRun
    /\ tick' = [pc |-> "listed", as |-> run, held |-> held, stale |-> FALSE]
    /\ UNCHANGED <<run, held, late, rows, tries, ready, mu, suppress,
                   event, reader, down, ops, crashes, redone>>

\* A queued run waits for a slot, or because the listed copy is held.
StayQueued ==
    /\ tick.pc = "listed" /\ tick.as = "queued"
    /\ tick' = IdleTick
    /\ UNCHANGED <<run, held, late, rows, tries, ready, mu, suppress,
                   event, reader, down, ops, crashes, redone>>

BeginPass ==
    /\ tick.pc = "listed" /\ Unlocked
    /\ ~(tick.as = "queued" /\ tick.held)
    /\ mu' = Lock("tick", {})
    /\ tick' = [tick EXCEPT !.pc = "expand"]
    /\ UNCHANGED <<run, held, late, rows, tries, ready, suppress,
                   event, reader, down, ops, crashes, redone>>

\* expandRun creates the missing instances one by one.
ExpandRun(t) ==
    /\ tick.pc = "expand" /\ rows[t] = "none"
    /\ \A d \in Tasks : d < t => rows[d] # "none"
    /\ rows' = [rows EXCEPT ![t] = "scheduled"]
    /\ UNCHANGED <<run, held, late, tries, tick, ready, mu, suppress,
                   event, reader, down, ops, crashes, redone>>

\* The body of processRun up to step 3.  The listed copy decides whether the
\* run is started and whether it is held.
ProcessRun ==
    /\ tick.pc = "expand" /\ InState(rows, "none") = {}
    /\ tick.as = "queued" => run \in LegalPriorRunStates("running")
    /\ run' = IF tick.as = "queued" THEN "running" ELSE run
    /\ late' = IF tick.as = "queued" THEN FALSE ELSE late
    /\ \E B \in SUBSET InState(rows, "scheduled") : \E Q \in SUBSET InState(rows, "up_for_retry") :
         /\ Propagates(rows, B)
         /\ LET st == Set(Set(rows, B, "upstream_failed"), Q, "scheduled") IN
            IF tick.held
            THEN /\ rows' = st
                 /\ tick' = [tick EXCEPT !.pc = "admit"] /\ mu' = Free
                 /\ UNCHANGED ready
            ELSE \E gate \in [Gated -> Gate] :
                   /\ rows' = [t \in Tasks |-> IF t \in Gated /\ gate[t] \in {"skipped", "failed"}
                                               THEN gate[t] ELSE st[t]]
                   /\ \A t \in Gated : gate[t] # "open" => IsReady(t, SeenBy(t, st, rows'))
                   /\ ready' = {t \in InState(rows', "scheduled") :
                                  /\ IsReady(t, SeenBy(t, st, rows'))
                                  /\ t \in Gated => gate[t] = "open"}
                   /\ tick' = [tick EXCEPT !.pc = "final"] /\ UNCHANGED mu
    /\ UNCHANGED <<held, tries, suppress, event, reader, down, ops, crashes, redone>>

\* The store refuses to start a run that is already running.
StartRefused ==
    /\ tick.pc = "expand" /\ InState(rows, "none") = {}
    /\ tick.as = "queued" /\ run \notin LegalPriorRunStates("running")
    /\ tick' = [tick EXCEPT !.pc = "admit"] /\ mu' = Free
    /\ UNCHANGED <<run, held, late, rows, tries, ready, suppress,
                   event, reader, down, ops, crashes, redone>>

\* Step 4: what a run whose tasks are all terminal amounts to.
Outcome(st) ==
    IF \E t \in Tasks : st[t] \in {"failed", "upstream_failed", "timed_out"} THEN "failed"
    ELSE IF \E t \in Tasks : st[t] = "cancelled" THEN "cancelled" ELSE "success"

AllTerminal == \A t \in Tasks : rows[t] \in TerminalTask

\* Mutant: a key that exists already is left as it is.
PublishOnce == IF event = "none" THEN "pending" ELSE event

\* UpdateDagRunSuccess publishes the event in the same transaction, re-arming
\* a consumed one; it looks at no prior state.
Publish == "pending"

\* UpdateDagRunState errors out, before anything else, on an illegal move.
FinalizeRun ==
    /\ tick.pc = "final" /\ mu.op = "tick" /\ AllTerminal
    /\ LET final == Outcome(rows) IN
       IF final = "success"
       THEN run' = "success" /\ event' = Publish /\ suppress' = FALSE
       ELSE /\ run' = UpdateDagRunState(run, final)
            /\ suppress' = (suppress /\ run \notin LegalPriorRunStates(final))
            /\ UNCHANGED event
    /\ tick' = [tick EXCEPT !.pc = "admit"] /\ mu' = Free
    /\ UNCHANGED <<held, late, rows, tries, ready, reader, down, ops, crashes, redone>>

\* enforceDeadlines measures from the started_at of the listed copy.
Overdue == tick.as = "running" /\ (late \/ (tick.stale /\ HasTimeout))

NotOverdue ==
    /\ tick.pc = "final" /\ mu.op = "tick" /\ ~AllTerminal
    /\ ~(tick.as = "running" /\ late)
    /\ tick' = [tick EXCEPT !.pc = "admit"] /\ mu' = Free
    /\ UNCHANGED <<run, held, late, rows, tries, ready, suppress,
                   event, reader, down, ops, crashes, redone>>

TimeoutRun ==
    /\ tick.pc = "final" /\ mu.op = "tick" /\ ~AllTerminal /\ Overdue
    /\ run' = UpdateDagRunState(run, "timed_out")
    /\ mu' = IF run = "running" THEN Lock("timeout", {t \in Tasks : rows[t] \in LiveRow})
                                ELSE Free
    /\ tick' = [tick EXCEPT !.pc = "admit"]
    /\ UNCHANGED <<held, late, rows, tries, ready, suppress,
                   event, reader, down, ops, crashes, redone>>

\* Mutant: the candidates are not read again.
AdmissibleUnread == ready

\* admitReady re-reads each candidate; budgets may leave any of them out.
Admissible == {t \in ready : rows[t] = "scheduled"}
AdmitReady ==
    /\ tick.pc = "admit" /\ Unlocked
    /\ \E S \in SUBSET Admissible :
         /\ rows' = Set(rows, S, "queued")
         /\ tries' = [t \in Tasks |-> IF t \in S THEN tries[t] + 1 ELSE tries[t]]
    /\ ready' = {} /\ redone' = {}
    /\ tick' = IdleTick
    /\ UNCHANGED <<run, held, late, mu, suppress, event, reader, down, ops, crashes>>

\* dagrun_timeout elapses.
Deadline ==
    /\ HasTimeout /\ run = "running" /\ ~late
    /\ late' = TRUE
    /\ UNCHANGED <<run, held, rows, tries, tick, ready, mu, suppress,
                   event, reader, down, ops, crashes, redone>>

-----------------------------------------------------------------------------
(* Attempts, as TaskLifecycle promises them.  They never take finalizeMu.  *)

Start(t) ==
    /\ rows[t] = "queued"
    /\ rows' = [rows EXCEPT ![t] = "running"]
    /\ UNCHANGED <<run, held, late, tries, tick, ready, mu, suppress,
                   event, reader, down, ops, crashes, redone>>

Resolve(t) ==
    /\ rows[t] \in {"queued", "running"}
    /\ \E s \in {"success", "skipped", IF tries[t] <= MaxRetries THEN "up_for_retry" ELSE "failed"} :
         rows' = [rows EXCEPT ![t] = s]
    /\ UNCHANGED <<run, held, late, tries, tick, ready, mu, suppress,
                   event, reader, down, ops, crashes, redone>>

GiveBack(t) ==
    /\ rows[t] = "queued"
    /\ rows' = [rows EXCEPT ![t] = "scheduled"]
    /\ tries' = [tries EXCEPT ![t] = @ - 1]
    /\ UNCHANGED <<run, held, late, tick, ready, mu, suppress,
                   event, reader, down, ops, crashes, redone>>

-----------------------------------------------------------------------------
(* Operators.                                                              *)

Offered(op) == op \in Operators /\ ops < MaxOps /\ ops' = ops + 1

\* Mutant: attempts that have not started yet are left alone.
ToCancelStarted == {t \in Tasks : rows[t] \in LiveRow \ {"queued"}}

ToCancel == {t \in Tasks : rows[t] \in LiveRow}
CancelRun ==
    /\ Offered("cancel") /\ Unlocked /\ run \in ActiveRun
    /\ run' = "cancelled"
    /\ mu' = Lock("cancel", ToCancel)
    /\ UNCHANGED <<held, late, rows, tries, tick, ready, suppress,
                   event, reader, down, crashes, redone>>

\* retryContext, prepareRetryDefinition (which adds missing instances) and
\* the set of tasks clearAndReactivate will clear.
Retry(ids) ==
    /\ Offered("retry") /\ Unlocked /\ run \in TerminalRun
    /\ ids # {}
    /\ rows' = Set(rows, InState(rows, "none"), "scheduled")
    /\ mu' = Lock("retry", ids)
    /\ UNCHANGED <<run, held, late, tries, tick, ready, suppress,
                   event, reader, down, crashes, redone>>

RetryTask(t) == rows[t] # "none" /\ Retry(Downstream(t))

RetryRun ==
    Retry(UNION {Downstream(t) : t \in {u \in Tasks :
            rows[u] \in {"failed", "upstream_failed", "cancelled", "timed_out"}}})

\* A mark that does not block releases what was blocked downstream of it.
MarkTask(t, target) ==
    /\ Offered("mark_task") /\ Unlocked /\ rows[t] # "none"
    /\ mu' = [op |-> "mark",
              todo |-> IF target = "failed" THEN {}
                       ELSE {u \in Downstream(t) \ {t} : rows[u] = "upstream_failed"},
              ref |-> {}, task |-> t, to |-> target]
    /\ UNCHANGED <<run, held, late, rows, tries, tick, ready, suppress,
                   event, reader, down, crashes, redone>>

\* The row written for t by the operation holding the lock.  timeoutRun goes
\* through the guard: an attempt resolved or given back since is left alone.
Written(t) ==
    CASE mu.op = "cancel" -> "cancelled"
      [] mu.op = "timeout" -> IF rows[t] \in LiveRow /\ (t \in mu.ref => rows[t] # "scheduled")
                              THEN "timed_out" ELSE rows[t]
      [] OTHER -> "scheduled"

\* An operator's write that a harvest not yet admitted does not know of.
Redo(t) == redone' = IF mu.op \in {"retry", "mark"} /\ ready # {} THEN redone \cup {t} ELSE redone

WriteRow(t) ==
    /\ t \in mu.todo
    /\ rows' = [rows EXCEPT ![t] = Written(t)]
    /\ mu' = [mu EXCEPT !.todo = @ \ {t}]
    /\ Redo(t)
    /\ UNCHANGED <<run, held, late, tries, tick, ready, suppress,
                   event, reader, down, ops, crashes>>

MarkSelf ==
    /\ mu.op = "mark" /\ mu.todo = {} /\ mu.task # 0
    /\ rows' = [rows EXCEPT ![mu.task] = mu.to]
    /\ mu' = [mu EXCEPT !.task = 0]
    /\ Redo(mu.task)
    /\ UNCHANGED <<run, held, late, tries, tick, ready, suppress,
                   event, reader, down, ops, crashes>>

\* clearSLAKeys, the last thing CancelRun and timeoutRun do.
ClearSLAKeys == FALSE
StopDone ==
    /\ mu.op \in {"cancel", "timeout"} /\ mu.todo = {}
    /\ mu' = Free
    /\ suppress' = ClearSLAKeys
    /\ UNCHANGED <<run, held, late, rows, tries, tick, ready,
                   event, reader, down, ops, crashes, redone>>

\* A run made active again gets a fresh deadline; a copy listed before that
\* still has the old started_at.
Reactivate ==
    /\ run' = UpdateDagRunState(run, "running")
    /\ late' = FALSE
    /\ tick' = [tick EXCEPT !.stale = tick.pc # "idle" /\ tick.as = "running"]

RetryDone ==
    /\ mu.op = "retry" /\ mu.todo = {}
    /\ Reactivate
    /\ mu' = Free
    /\ UNCHANGED <<held, rows, tries, ready, suppress, event, reader, down, ops, crashes, redone>>

MarkDone ==
    /\ mu.op = "mark" /\ mu.todo = {} /\ mu.task = 0
    /\ IF run \in TerminalRun
       THEN Reactivate /\ suppress' = TRUE
       ELSE UNCHANGED <<run, late, tick, suppress>>
    /\ mu' = Free
    /\ UNCHANGED <<held, rows, tries, ready, event, reader, down, ops, crashes, redone>>

\* MarkRun delivers the event at once when the queue has room.
MarkRun(target) ==
    /\ Offered("mark_run") /\ Unlocked /\ run \in TerminalRun /\ run # target
    /\ IF target = "success"
       THEN /\ run' = "success"
            /\ \/ event' = "consumed" /\ down' = TRUE
               \/ ~down /\ event' = Publish /\ UNCHANGED down
       ELSE run' = UpdateDagRunState(run, target) /\ UNCHANGED <<event, down>>
    /\ UNCHANGED <<held, late, rows, tries, tick, ready, mu, suppress, reader, crashes, redone>>

\* SetDagRunHeld is a guarded update of its own, outside finalizeMu.
SetDagRunHeld ==
    /\ Offered("hold") /\ run \in ActiveRun
    /\ held' = ~held
    /\ UNCHANGED <<run, late, rows, tries, tick, ready, mu, suppress,
                   event, reader, down, crashes, redone>>

-----------------------------------------------------------------------------
(* processPendingDependencyEvents in the tick, without finalizeMu.         *)

\* GetDagRun: a pending event of a run still active is left for later.
ReadEvent ==
    /\ tick.pc = "idle" /\ reader = "idle" /\ event = "pending" /\ run \in TerminalRun
    /\ reader' = IF run = "success" THEN "success" ELSE "consume"
    /\ UNCHANGED <<run, held, late, rows, tries, tick, ready, mu, suppress,
                   event, down, ops, crashes, redone>>

\* Mutant: a deferred event is consumed as well.
TriggerAndForget ==
    /\ reader = "success"
    /\ reader' = "consume"
    /\ down' = (down \/ run = "success") \/ UNCHANGED down
    /\ UNCHANGED <<run, held, late, rows, tries, tick, ready, mu, suppress,
                   event, ops, crashes, redone>>

\* triggerDownstreams reads the upstream run again.  A full queue defers.
TriggerDownstreams ==
    /\ reader = "success"
    /\ \/ reader' = "consume" /\ down' = (down \/ run = "success")
       \/ run = "success" /\ ~down /\ reader' = "idle" /\ UNCHANGED down
    /\ UNCHANGED <<run, held, late, rows, tries, tick, ready, mu, suppress,
                   event, ops, crashes, redone>>

ConsumeEvent ==
    /\ reader = "consume"
    /\ event' = "consumed" /\ reader' = "idle"
    /\ UNCHANGED <<run, held, late, rows, tries, tick, ready, mu, suppress,
                   down, ops, crashes, redone>>

-----------------------------------------------------------------------------
\* Crash and restart: the database survives.  Recover leaves every live row
\* attended again (TaskAttempt), so attempts simply go on.
Crash ==
    /\ crashes < MaxCrash /\ crashes' = crashes + 1
    /\ tick' = IdleTick /\ ready' = {} /\ mu' = Free /\ suppress' = FALSE
    /\ reader' = "idle" /\ redone' = {}
    /\ UNCHANGED <<run, held, late, rows, tries, event, down, ops>>

Decide == FinalizeRun \/ NotOverdue \/ TimeoutRun

Tick ==
    \/ ListRuns \/ StayQueued \/ BeginPass \/ \E t \in Tasks : ExpandRun(t)
    \/ ProcessRun \/ StartRefused \/ Decide \/ AdmitReady

Attempt(t) == Start(t) \/ Resolve(t) \/ GiveBack(t)

Operate ==
    \/ CancelRun \/ RetryRun \/ SetDagRunHeld
    \/ \E t \in Tasks : RetryTask(t) \/ \E target \in Markable : MarkTask(t, target)
    \/ \E target \in {"success", "failed"} : MarkRun(target)

Complete == (\E t \in Tasks : WriteRow(t)) \/ MarkSelf \/ StopDone \/ RetryDone \/ MarkDone

Events == ReadEvent \/ TriggerDownstreams \/ ConsumeEvent

Next ==
    \/ Tick \/ Operate \/ Complete \/ Events \/ Deadline \/ Crash
    \/ \E t \in Tasks : Attempt(t)

Spec == Init /\ [][Next]_vars

\* A pass that finds every retry delay elapsed and every gate decided, and an
\* admission that finds room for all it collected.
FullPass ==
    /\ ProcessRun
    /\ InState(rows', "up_for_retry") = {}
    /\ ~tick.held => \A t \in Tasks : IsReady(t, rows') => t \in ready'
FullAdmission == AdmitReady /\ rows' = Set(rows, Admissible, "queued")

\* The tick keeps running and an operation, once begun, finishes.  A slot,
\* budgets, room in the queue, elapsed delays and open gates come up at some
\* tick, not at every one; an attempt that keeps being dispatched ends.
\* Nothing is assumed of operators, deadlines and crashes.
Fairness ==
    /\ WF_vars(ListRuns) /\ SF_vars(BeginPass) /\ WF_vars(\E t \in Tasks : ExpandRun(t))
    /\ WF_vars(ProcessRun \/ StartRefused) /\ SF_vars(FullPass)
    /\ WF_vars(Decide) /\ WF_vars(AdmitReady)
    /\ SF_vars(Admissible # {} /\ FullAdmission)
    /\ WF_vars(Complete)
    /\ WF_vars(Events) /\ SF_vars(TriggerDownstreams /\ down')
    /\ \A t \in Tasks : SF_vars(Resolve(t))

FairSpec == Spec /\ Fairness

-----------------------------------------------------------------------------
(* Properties.                                                             *)

\* A run that ended has nothing left in flight: cancel, deadline and finalize
\* leave no attempt queued or running behind, so a retry starts from rest.
RunSettled ==
    run \in TerminalRun /\ Unlocked => \A t \in Tasks : rows[t] \notin {"queued", "running"}

\* A run recorded as success has only succeeded or skipped tasks, however it
\* was marked, retried, cancelled and timed out before.
SuccessHonest ==
    run = "success" /\ Unlocked => \A t \in Tasks : rows[t] \in {"success", "skipped"}

\* The notification of a re-finalize is suppressed only while the marked run
\* is being driven again: it never leaks into a later outcome.
SuppressScoped == suppress /\ Unlocked => run = "running"

\* What every step of the tick, of an operation and of an attempt keeps: the
\* types and, between operations, the three promises about an ended run.
RunInv == TypeOK /\ RunSettled /\ SuccessHonest /\ SuppressScoped

\* A success signal is pending until the downstream run exists: neither a
\* restart nor a full queue loses the trigger.
NoLostTrigger == run = "success" => down \/ event = "pending"

\* A task is dispatched only in a running run, and only when its trigger rule
\* holds at that moment, although admitReady works from an earlier harvest and
\* cancels, deadlines, retries and marks come in between. It checks the row of
\* the task alone, so a dependency that a retry or a mark has rewritten since
\* the harvest is the one exception.
DispatchReady ==
    [][\A t \in Tasks : rows[t] # "queued" /\ rows'[t] = "queued"
         => /\ run = "running"
            /\ Ready(Rule[t], Deps[t], rows) \/ Deps[t] \cap redone # {}]_vars

\* A run that is not held ends, whatever its tasks' outcomes and rules.
RunEnds == run \in ActiveRun /\ ~held ~> run \in TerminalRun \/ held

\* The downstream DAG of a successful run is started.
TriggerDelivered == run = "success" ~> down \/ run # "success"

-----------------------------------------------------------------------------
(* Statements of the source's comments and documents that the code breaks. *)

\* CancelRun "stops an active run" and a pass over a stale copy never clobbers
\* it: a cancelled run moves again only by a retry or a mark.
CancelNotClobbered ==
    [][run = "cancelled" /\ run' # run => mu.op \in {"retry", "mark"} \/ ops' # ops]_vars
=============================================================================
