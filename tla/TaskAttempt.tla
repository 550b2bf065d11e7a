---------------------------- MODULE TaskAttempt ----------------------------
(***************************************************************************)
(* One task instance of one run, and everything that writes its row: the   *)
(* tick (processRun, admitReady), the goroutine of each attempt (runTask,  *)
(* awaitCompletion), the operator's CancelRun, RetryTask, MarkTask and     *)
(* MarkRun, the run deadline, and Recover after a scheduler restart; with  *)
(* the executor that owns the processes.                                   *)
(*                                                                         *)
(* The tick and the operators serialise on finalizeMu; attempt goroutines  *)
(* and Recover never take it.  An operation that reads the row, talks to   *)
(* the executor and writes the row back is therefore several steps: `mu`   *)
(* holds the operation in progress and the snapshot it read.               *)
(*                                                                         *)
(* An attempt's executor ref is run/task/try, so a ref is represented by   *)
(* its try number and NoRef is the empty string.                           *)
(***************************************************************************)
EXTENDS States

CONSTANTS
    Gor,         \* slots for attempt goroutines
    MaxRetries,  \* the task's retries
    MaxTry,      \* bound on attempts
    MaxOps,      \* bound on operator calls and run deadlines
    MaxCrash,    \* bound on scheduler crashes
    Durable,     \* TRUE: standalone executor; FALSE: embedded in the scheduler
    Faults       \* which environment faults may happen, a subset of FaultKind

FaultKind == {"no_worker", "launch_error", "lost_reply", "probe_error",
              "store_error", "eviction"}

ASSUME AttemptConstants ==
    /\ MaxRetries \in Nat
    /\ MaxTry \in Nat
    /\ MaxOps \in Nat
    /\ MaxCrash \in Nat
    /\ Durable \in BOOLEAN
    /\ Faults \subseteq FaultKind

VARIABLES
    run,    \* dag_runs.state
    row,    \* the task_instances row
    gor,    \* attempt goroutines
    proc,   \* operating-system process of each ref
    rec,    \* refs in the executor's registry
    mu,     \* operation holding finalizeMu across executor calls
    tick,   \* progress of processActiveRuns over this run
    sched,  \* scheduler process: up, down or recovering
    rcv,    \* progress of Recover
    base,   \* history: row.try when an operator last cleared the task
    ops, crashes

vars == <<run, row, gor, proc, rec, mu, tick, sched, rcv, base, ops, crashes>>

Ref == 1..MaxTry
NoRef == 0
Row == [state : TaskState, try : 0..MaxTry, ref : 0..MaxTry]
SetState(r, s) == [state |-> s, try |-> r.try, ref |-> r.ref]
Unref(r)       == [state |-> "scheduled", try |-> r.try, ref |-> NoRef]

\* What a goroutine will write: the exit verdicts, or "failure" for every way
\* an attempt ends in recordFailure.
Verdict == {"success", "skipped", "failure"}
Exited  == {"ok", "skip", "bad"}
GorPC   == {"idle", "check", "launch", "noworker", "mark", "poll", "finish"}
GorRec  == [pc : GorPC, try : 0..MaxTry, out : Verdict]
RcvPC   == {"none", "listq", "probeq", "writeq", "listr", "prober", "writer"}
Phase   == Verdict \cup {"running", "unknown"}
MarkOp  == {"mark_success", "mark_failed", "mark_skipped"}
Op      == {"none", "cancel", "retry", "timeout"} \cup MarkOp
Idle    == [pc |-> "idle", try |-> 0, out |-> "failure"]
NoRow   == [state |-> "scheduled", try |-> 0, ref |-> NoRef]
Free    == [op |-> "none", step |-> "kill", snap |-> NoRow]
RcvAt(pc) == [pc |-> pc, snap |-> NoRow, phase |-> "unknown"]
NoRcv   == RcvAt("none")

TypeOK ==
    /\ run \in RunState \ {"queued"}
    /\ row \in Row
    /\ gor \in [Gor -> GorRec]
    /\ proc \in [Ref -> Exited \cup {"none", "running"}]
    /\ rec \in SUBSET Ref
    /\ mu \in [op : Op, step : {"kill", "write"}, snap : Row]
    /\ tick \in {"idle", "listed", "ready"}
    /\ sched \in {"up", "down", "recovering"}
    /\ rcv \in [pc : RcvPC, snap : Row, phase : Phase]
    /\ base \in 0..MaxTry
    /\ ops \in 0..MaxOps
    /\ crashes \in 0..MaxCrash

Init ==
    /\ run = "running"
    /\ row = NoRow
    /\ gor = [g \in Gor |-> Idle]
    /\ proc = [k \in Ref |-> "none"]
    /\ rec = {}
    /\ mu = Free
    /\ tick = "idle"
    /\ sched = "up"
    /\ rcv = NoRcv
    /\ base = 0
    /\ ops = 0
    /\ crashes = 0

-----------------------------------------------------------------------------
(* The store and the executor.                                             *)

Locked   == mu.op # "none"
Terminal == row.state \in TerminalTask

\* Mutants: the guard without its terminal test, and without its ref test.
AppliesToTerminal(expectRef) == row.ref = expectRef
AppliesToAnyRef(expectRef)   == row.state \notin TerminalTask

\* UpdateTaskInstanceGuarded applies only to a live row carrying expectRef.
Applies(expectRef) == row.ref = expectRef /\ row.state \notin TerminalTask

\* Its callers only log an error of the store.
UpdateTaskInstanceGuarded(new, expectRef) ==
    \/ row' = IF Applies(expectRef) THEN new ELSE row
    \/ "store_error" \in Faults /\ row' = row

\* Mutant: one retry too many.
FailureStateOffByOne(k) == IF k <= MaxRetries + 1 THEN "up_for_retry" ELSE "failed"

\* The row recordFailure writes for attempt k: TryNumber counts attempts made.
FailureState(k) == IF k <= MaxRetries THEN "up_for_retry" ELSE "failed"

VerdictState(out, k) == IF out = "failure" THEN FailureState(k) ELSE out

\* Exit code 0, SkipExitCode, anything else.
VerdictOf(p) == CASE p = "ok" -> "success" [] p = "skip" -> "skipped" [] OTHER -> "failure"

\* Mutant: finished attempts are forgotten at once.
ProbeLiveOnly(k) == IF k \in rec /\ proc[k] = "running" THEN "running" ELSE "unknown"

\* Runner.Probe.
Probe(k) ==
    IF k \notin rec THEN "unknown"
    ELSE IF proc[k] = "running" THEN "running" ELSE VerdictOf(proc[k])

\* Runner.Launch is idempotent per ref: a known ref starts nothing.
Launched(k) == IF k \in rec THEN proc ELSE [proc EXCEPT ![k] = "running"]

\* Runner.Cancel kills the group of a registered, still running attempt.
Killed(k) ==
    IF k \in rec /\ proc[k] = "running" THEN [proc EXCEPT ![k] = "bad"] ELSE proc

\* The task exits by itself, or on its own timeout.
Exit(k) ==
    /\ proc[k] = "running"
    /\ \E code \in Exited : proc' = [proc EXCEPT ![k] = code]
    /\ UNCHANGED <<run, row, gor, rec, mu, tick, sched, rcv, base, ops, crashes>>

\* sweepFinishedLocked drops a result an hour old; a live poller would have
\* read it long before, so only unwatched results are at risk.
Evict(k) ==
    /\ "eviction" \in Faults
    /\ k \in rec /\ proc[k] \in Exited
    /\ \A g \in Gor : gor[g].pc = "idle" \/ gor[g].try # k
    /\ rec' = rec \ {k}
    /\ UNCHANGED <<run, row, gor, proc, mu, tick, sched, rcv, base, ops, crashes>>

-----------------------------------------------------------------------------
(* The tick.  processActiveRuns lists the running runs without the lock,   *)
(* then processes the listed run whatever became of it since.              *)

ListRuns ==
    /\ sched = "up" /\ tick = "idle" /\ run = "running"
    /\ tick' = "listed"
    /\ UNCHANGED <<run, row, gor, proc, rec, mu, sched, rcv, base, ops, crashes>>

\* Step 4 of processRun: UpdateDagRunSuccess has no prior-state guard,
\* UpdateDagRunState has one.
FinalState(s) ==
    CASE s \in {"failed", "upstream_failed", "timed_out"} -> "failed"
      [] s = "cancelled" -> "cancelled"
      [] OTHER -> "success"

FinalizeRun(cur, s) ==
    IF FinalState(s) = "success" THEN "success" ELSE UpdateDagRunState(cur, FinalState(s))

\* processRun: requeue an attempt whose retry delay has elapsed, collect the
\* task when ready, finalize the run, or start timeoutRun.
Requeued == Unref(row)
Requeue ==
    /\ \/ row' = row
       \/ row.state = "up_for_retry" /\ row' = Requeued
    /\ tick' = IF row'.state = "scheduled" THEN "ready" ELSE "idle"

ProcessRun ==
    /\ sched = "up" /\ tick = "listed" /\ ~Locked
    /\ Requeue
    /\ run' = IF Terminal THEN FinalizeRun(run, row.state) ELSE run
    /\ UNCHANGED <<gor, proc, rec, mu, sched, rcv, base, ops, crashes>>

\* The same pass past the deadline of a run whose task is not done.
ProcessRunTimeout ==
    /\ sched = "up" /\ tick = "listed" /\ ~Locked
    /\ ~Terminal /\ ops < MaxOps
    /\ run \in LegalPriorRunStates("timed_out")
    /\ Requeue
    /\ run' = "timed_out"
    /\ mu' = [op |-> "timeout", step |-> "kill", snap |-> row']
    /\ ops' = ops + 1
    /\ UNCHANGED <<gor, proc, rec, sched, rcv, base, crashes>>

\* admitReady re-reads the row, and dispatch writes queued before it starts
\* the goroutine.
Dispatch(g) ==
    /\ sched = "up" /\ tick = "ready" /\ ~Locked
    /\ row.state = "scheduled" /\ row.try < MaxTry
    /\ gor[g].pc = "idle"
    /\ row' = [state |-> "queued", try |-> row.try + 1, ref |-> row.try + 1]
    /\ gor' = [gor EXCEPT ![g] = [pc |-> "check", try |-> row.try + 1, out |-> "failure"]]
    /\ tick' = "idle"
    /\ UNCHANGED <<run, proc, rec, mu, sched, rcv, base, ops, crashes>>

\* The candidate is no longer scheduled, or no budget is left for it.
AdmitSkip ==
    /\ sched = "up" /\ tick = "ready" /\ ~Locked
    /\ tick' = "idle"
    /\ UNCHANGED <<run, row, gor, proc, rec, mu, sched, rcv, base, ops, crashes>>

-----------------------------------------------------------------------------
(* runTask and awaitCompletion: the goroutine of one attempt.              *)

Go(g, pc)        == gor' = [gor EXCEPT ![g] = [pc |-> pc, try |-> gor[g].try, out |-> "failure"]]
Conclude(g, out) == gor' = [gor EXCEPT ![g] = [pc |-> "finish", try |-> gor[g].try, out |-> out]]
Stop(g)          == gor' = [gor EXCEPT ![g] = Idle]

\* Staging or an invalid definition fails the attempt before any launch.
PrepareFails(g) ==
    /\ gor[g].pc = "check" /\ "launch_error" \in Faults
    /\ Conclude(g, "failure")
    /\ UNCHANGED <<run, row, proc, rec, mu, tick, sched, rcv, base, ops, crashes>>

TaskCancelled(g) ==
    /\ gor[g].pc = "check"
    /\ IF row.state = "cancelled" THEN Stop(g) ELSE Go(g, "launch")
    /\ UNCHANGED <<run, row, proc, rec, mu, tick, sched, rcv, base, ops, crashes>>

Launch(g) ==
    /\ gor[g].pc = "launch"
    /\ \/ /\ proc' = Launched(gor[g].try)
          /\ rec' = rec \cup {gor[g].try}
          /\ \/ Go(g, "mark")
             \/ "lost_reply" \in Faults /\ Conclude(g, "failure")
       \/ /\ "launch_error" \in Faults /\ Conclude(g, "failure")
          /\ UNCHANGED <<proc, rec>>
       \/ /\ "no_worker" \in Faults /\ Go(g, "noworker")
          /\ UNCHANGED <<proc, rec>>
    /\ UNCHANGED <<run, row, mu, tick, sched, rcv, base, ops, crashes>>

\* Mutants: the attempt number is kept, or decremented twice.
GiveBackTo(g, n) ==
    /\ gor[g].pc = "noworker"
    /\ UpdateTaskInstanceGuarded([state |-> "scheduled", try |-> n, ref |-> NoRef], gor[g].try)
    /\ Stop(g)
    /\ UNCHANGED <<run, proc, rec, mu, tick, sched, rcv, base, ops, crashes>>
GiveBackKeepsTry(g) == GiveBackTo(g, gor[g].try)

\* ErrNoWorker: hand the attempt back instead of consuming a retry.
GiveBack(g) ==
    /\ gor[g].pc = "noworker"
    /\ UpdateTaskInstanceGuarded(
         [state |-> "scheduled", try |-> gor[g].try - 1, ref |-> NoRef], gor[g].try)
    /\ Stop(g)
    /\ UNCHANGED <<run, proc, rec, mu, tick, sched, rcv, base, ops, crashes>>

\* The guarded queued -> running write; when it does not apply, the process
\* that was just launched is killed.
MarkRunning(g) ==
    LET k == gor[g].try IN
    /\ gor[g].pc = "mark"
    /\ \/ /\ Applies(k)
          /\ row' = [state |-> "running", try |-> k, ref |-> k]
          /\ Go(g, "poll")
          /\ UNCHANGED proc
       \/ /\ ~Applies(k)
          /\ proc' = Killed(k)
          /\ Stop(g)
          /\ UNCHANGED row
       \/ /\ "store_error" \in Faults
          /\ Stop(g)
          /\ UNCHANGED <<row, proc>>
    /\ UNCHANGED <<run, rec, mu, tick, sched, rcv, base, ops, crashes>>

Poll(g) ==
    /\ gor[g].pc = "poll"
    /\ Probe(gor[g].try) # "running"
    /\ Conclude(g, IF Probe(gor[g].try) = "unknown" THEN "failure" ELSE Probe(gor[g].try))
    /\ UNCHANGED <<run, row, proc, rec, mu, tick, sched, rcv, base, ops, crashes>>

\* finalizeTask / recordFailure: the outcome goes through the guarded write.
Finalize(g) ==
    LET k == gor[g].try IN
    /\ gor[g].pc = "finish"
    /\ UpdateTaskInstanceGuarded(
         [state |-> VerdictState(gor[g].out, k), try |-> k, ref |-> k], k)
    /\ Stop(g)
    /\ UNCHANGED <<run, proc, rec, mu, tick, sched, rcv, base, ops, crashes>>

-----------------------------------------------------------------------------
(* Operators.  The API answers while the scheduler is up or recovering.    *)

Serving == sched # "down" /\ ~Locked /\ ops < MaxOps

Begin(op) ==
    /\ mu' = [op |-> op, step |-> IF Terminal THEN "write" ELSE "kill", snap |-> row]
    /\ ops' = ops + 1

\* cancelRunLocked: the run row first, then each live task.
CancelRun ==
    /\ Serving /\ run \in ActiveRun
    /\ run' = "cancelled"
    /\ IF Terminal
       THEN ops' = ops + 1 /\ UNCHANGED mu
       ELSE Begin("cancel")
    /\ UNCHANGED <<row, gor, proc, rec, tick, sched, rcv, base, crashes>>

\* RetryTask, and RetryRun when the task failed: terminal runs only.
RetryTask ==
    /\ Serving /\ run \in TerminalRun
    /\ mu' = [op |-> "retry", step |-> "write", snap |-> row]
    /\ ops' = ops + 1
    /\ UNCHANGED <<run, row, gor, proc, rec, tick, sched, rcv, base, crashes>>

MarkTask(op) ==
    /\ Serving
    /\ Begin(op)
    /\ UNCHANGED <<run, row, gor, proc, rec, tick, sched, rcv, base, crashes>>

MarkRun(target) ==
    /\ Serving /\ run \in TerminalRun /\ run # target
    /\ run' = IF target = "success" THEN "success" ELSE UpdateDagRunState(run, target)
    /\ ops' = ops + 1
    /\ UNCHANGED <<row, gor, proc, rec, mu, tick, sched, rcv, base, crashes>>

\* cancelAttempt, best effort, on the ref of the snapshot.
CancelAttempt ==
    /\ sched # "down" /\ Locked /\ mu.step = "kill"
    /\ proc' = IF mu.snap.ref # NoRef THEN Killed(mu.snap.ref) ELSE proc
    /\ mu' = [op |-> mu.op, step |-> "write", snap |-> mu.snap]
    /\ UNCHANGED <<run, row, gor, rec, tick, sched, rcv, base, ops, crashes>>

\* Mutant: a manual retry starts counting attempts from zero again.
ClearedRowFromZero(r) == [state |-> "scheduled", try |-> 0, ref |-> NoRef]

\* clearAndReactivate keeps the attempt number, so that the next ref is new.
ClearedRow(r) == Unref(r)

MarkTarget(op) ==
    CASE op = "mark_success" -> "success" [] op = "mark_failed" -> "failed" [] OTHER -> "skipped"

\* The write that ends the operation, and frees the lock.
Writing(op) ==
    /\ sched # "down" /\ mu.op = op /\ mu.step = "write"
    /\ mu' = Free
    /\ UNCHANGED <<gor, proc, rec, tick, sched, rcv, ops, crashes>>

\* cancelRunLocked and MarkTask write their snapshot back unguarded.
CancelWrite ==
    /\ Writing("cancel")
    /\ row' = SetState(mu.snap, "cancelled")
    /\ UNCHANGED <<run, base>>

\* timeoutRun writes through the guard.
TimeoutWrite ==
    /\ Writing("timeout")
    /\ UpdateTaskInstanceGuarded(SetState(mu.snap, "timed_out"), mu.snap.ref)
    /\ UNCHANGED <<run, base>>

RetryWrite ==
    /\ Writing("retry")
    /\ row' = ClearedRow(mu.snap)
    /\ run' = UpdateDagRunState(run, "running")
    /\ base' = mu.snap.try

\* A mark on a finished run reactivates it for the tick to finalize again.
MarkWrite(op) ==
    /\ Writing(op)
    /\ row' = SetState(mu.snap, MarkTarget(op))
    /\ run' = IF run \in TerminalRun THEN UpdateDagRunState(run, "running") ELSE run
    /\ UNCHANGED base

-----------------------------------------------------------------------------
(* Crash, restart and Recover.                                             *)

\* Only the database survives; a standalone executor and its processes do
\* too.  With the embedded executor the registry is lost and each process is
\* either reaped with the scheduler or left behind.
Crash ==
    /\ sched # "down" /\ crashes < MaxCrash
    /\ sched' = "down"
    /\ crashes' = crashes + 1
    /\ gor' = [g \in Gor |-> Idle]
    /\ mu' = Free
    /\ tick' = "idle"
    /\ rcv' = NoRcv
    /\ IF Durable
       THEN UNCHANGED <<proc, rec>>
       ELSE /\ rec' = {}
            /\ \E dead \in SUBSET Ref :
                 proc' = [k \in Ref |-> IF proc[k] = "running" /\ k \in dead THEN "bad" ELSE proc[k]]
    /\ UNCHANGED <<run, row, base, ops>>

Restart ==
    /\ sched = "down"
    /\ sched' = "recovering"
    /\ rcv' = RcvAt("listq")
    /\ UNCHANGED <<run, row, gor, proc, rec, mu, tick, base, ops, crashes>>

\* Recover goes over the queued rows, then over the running ones.
ToRunning   == rcv' = RcvAt("listr") /\ UNCHANGED sched
RecoverDone == rcv' = NoRcv /\ sched' = "up"
RecoverSkip == IF rcv.pc \in {"listq", "probeq", "writeq"} THEN ToRunning ELSE RecoverDone

RecoverList ==
    /\ \/ /\ rcv.pc = "listq" /\ row.state = "queued"
          /\ rcv' = [pc |-> "probeq", snap |-> row, phase |-> "unknown"]
          /\ UNCHANGED sched
       \/ /\ rcv.pc = "listr" /\ row.state = "running"
          /\ rcv' = [pc |-> "prober", snap |-> row, phase |-> "unknown"]
          /\ UNCHANGED sched
       \/ rcv.pc = "listq" /\ row.state # "queued" /\ RecoverSkip
       \/ rcv.pc = "listr" /\ row.state # "running" /\ RecoverSkip
    /\ UNCHANGED <<run, row, gor, proc, rec, mu, tick, base, ops, crashes>>

\* A failed Probe skips the task for good.
RecoverProbe ==
    /\ \/ /\ rcv.pc = "probeq"
          /\ rcv' = [pc |-> "writeq", snap |-> rcv.snap, phase |-> Probe(rcv.snap.ref)]
          /\ UNCHANGED sched
       \/ /\ rcv.pc = "prober"
          /\ rcv' = [pc |-> "writer", snap |-> rcv.snap, phase |-> Probe(rcv.snap.ref)]
          /\ UNCHANGED sched
       \/ "probe_error" \in Faults /\ rcv.pc \in {"probeq", "prober"} /\ RecoverSkip
    /\ UNCHANGED <<run, row, gor, proc, rec, mu, tick, base, ops, crashes>>

\* Mutant: nobody polls the adopted attempt.
ReattachNobody(g, k) == UNCHANGED gor

Reattach(g, k) ==
    /\ gor[g].pc = "idle"
    /\ gor' = [gor EXCEPT ![g] = [pc |-> "poll", try |-> k, out |-> "failure"]]

\* A queued row: finalize what exited, adopt what runs (or kill it when the
\* row was taken meanwhile), reset what was never launched.
RecoverQueued(g) ==
    LET k == rcv.snap.ref IN
    /\ rcv.pc = "writeq"
    /\ \/ /\ rcv.phase = "running" /\ Applies(k)
          /\ row' = SetState(rcv.snap, "running")
          /\ Reattach(g, k) /\ UNCHANGED proc
       \/ /\ rcv.phase = "running" /\ ~Applies(k)
          /\ proc' = Killed(k) /\ UNCHANGED <<row, gor>>
       \/ /\ rcv.phase = "running" /\ "store_error" \in Faults
          /\ UNCHANGED <<row, gor, proc>>
       \/ /\ rcv.phase = "unknown"
          /\ UpdateTaskInstanceGuarded(
               [state |-> "scheduled", try |-> rcv.snap.try - 1, ref |-> NoRef], k)
          /\ UNCHANGED <<gor, proc>>
       \/ /\ rcv.phase \in Verdict
          /\ UpdateTaskInstanceGuarded(SetState(rcv.snap, VerdictState(rcv.phase, k)), k)
          /\ UNCHANGED <<gor, proc>>
    /\ ToRunning
    /\ UNCHANGED <<run, rec, mu, tick, base, ops, crashes>>

\* A running row: re-attach, finalize, or declare lost.
RecoverRunning(g) ==
    LET k == rcv.snap.ref
        out == IF rcv.phase \in Verdict THEN rcv.phase ELSE "failure" IN
    /\ rcv.pc = "writer"
    /\ \/ rcv.phase = "running" /\ Reattach(g, k) /\ UNCHANGED row
       \/ /\ rcv.phase # "running"
          /\ UpdateTaskInstanceGuarded(SetState(rcv.snap, VerdictState(out, k)), k)
          /\ UNCHANGED gor
    /\ RecoverDone
    /\ UNCHANGED <<run, proc, rec, mu, tick, base, ops, crashes>>

-----------------------------------------------------------------------------
Tick == ListRuns \/ ProcessRun \/ ProcessRunTimeout \/ AdmitSkip \/ \E g \in Gor : Dispatch(g)

Goroutine(g) ==
    \/ PrepareFails(g) \/ TaskCancelled(g) \/ Launch(g) \/ GiveBack(g)
    \/ MarkRunning(g) \/ Poll(g) \/ Finalize(g)

Operator ==
    \/ CancelRun \/ RetryTask
    \/ \E op \in MarkOp : MarkTask(op)
    \/ \E target \in {"success", "failed"} : MarkRun(target)

WriteBack ==
    \/ CancelWrite \/ TimeoutWrite \/ RetryWrite
    \/ \E op \in MarkOp : MarkWrite(op)

Recover == RecoverList \/ RecoverProbe \/ \E g \in Gor : RecoverQueued(g) \/ RecoverRunning(g)

Next ==
    \/ Tick \/ Operator \/ CancelAttempt \/ WriteBack
    \/ \E g \in Gor : Goroutine(g)
    \/ Crash \/ Restart \/ Recover
    \/ \E k \in Ref : Exit(k) \/ Evict(k)

Spec == Init /\ [][Next]_vars

\* The retry delay of a failed attempt has elapsed.
RetryDue == ProcessRun /\ row' = Requeued /\ row.state = "up_for_retry"

\* The tick loop, the goroutines and Recover keep running; processes end;
\* a crashed scheduler is restarted; a retry delay elapses and a budget is
\* granted at some later tick, though not at every tick.  Nothing is assumed
\* of operators, deadlines, crashes and faults.
Fairness ==
    /\ WF_vars(ListRuns) /\ WF_vars(ProcessRun) /\ WF_vars(AdmitSkip)
    /\ SF_vars(RetryDue) /\ SF_vars(\E g \in Gor : Dispatch(g))
    /\ \A g \in Gor : WF_vars(Goroutine(g))
    /\ WF_vars(CancelAttempt) /\ WF_vars(WriteBack)
    /\ WF_vars(Restart) /\ WF_vars(Recover)
    /\ \A k \in Ref : WF_vars(Exit(k))

FairSpec == Spec /\ Fairness

-----------------------------------------------------------------------------
(* Properties.                                                             *)

\* dispatch derives the ref from the attempt number and Launch is idempotent
\* per ref, so a task about to be dispatched must never be about to reuse a
\* ref the executor still knows: it would be answered with an old result.
FreshRef == row.state = "scheduled" => row.try + 1 \notin rec

\* A queued or running row always has a goroutine that will resolve it once
\* the scheduler has recovered, whatever cancels, marks, retries, deadlines
\* and crashes happened: without one the run stays active for ever.
Attended ==
    sched = "up" /\ row.state \in {"queued", "running"}
      => \E g \in Gor : gor[g].pc # "idle" /\ gor[g].try = row.ref

\* Retries the task takes by itself stop at MaxRetries + 1 attempts: a task
\* waits for one more attempt only within its budget, or because an operator
\* cleared it.
RetryBudget == row.state = "scheduled" => row.try <= MaxRetries \/ row.try = base

\* An operator's cancel, mark or retry is in progress.
Override == mu.op \notin {"none", "timeout"}

\* A terminal row is changed by an operator only: never by the goroutine of
\* an older attempt, by Recover, by the tick or by the run deadline.
TerminalSticky ==
    [][Terminal /\ row' # row => Override]_vars

\* Success and skipped come from the very attempt the row names: a goroutine
\* of an earlier, cancelled and retried attempt never decides the new one.
GenuineOutcome ==
    [][row'.state \in {"success", "skipped"} /\ row'.state # row.state
         => \/ mu.op \in {"mark_success", "mark_skipped"}
            \/ row.ref \in Ref /\ VerdictOf(proc[row.ref]) = row'.state]_vars

\* An attempt that succeeded is never followed by another one unless an
\* operator asked for it, across scheduler crashes and restarts.
NoRerunAfterSuccess ==
    [][row.state = "scheduled" /\ row'.state = "queued" /\ row.try > base
         => proc[row.try] # "ok"]_vars

\* The row goes through the lifecycle TaskLifecycle promises, and no other.
Lifecycle == INSTANCE TaskLifecycle WITH state <- row.state, try <- row.try, override <- Override
ImplementsLifecycle == Lifecycle!Spec

\* Every attempt is resolved, if processes end.
AttemptResolves == row.state \in {"queued", "running"} ~> row.state \notin {"queued", "running"}

-----------------------------------------------------------------------------
(* The inductive invariant behind FreshRef and RetryBudget.                *)

Busy(g)   == gor[g].pc # "idle"
PreLaunch == {"check", "launch", "noworker"}

\* A row names its last attempt or none; only a live attempt needs its ref.
RowRef ==
    /\ row.ref \in {NoRef, row.try}
    /\ row.state \in {"queued", "running", "up_for_retry"} => row.ref # NoRef
    /\ row.state = "scheduled" => row.ref = NoRef

\* The snapshot an operation will write back is never behind the row.
SnapRef == Locked => mu.snap.ref \in {NoRef, mu.snap.try} /\ row.try <= mu.snap.try

\* No attempt beyond the row's number is known to the executor or running here.
AttemptBound ==
    /\ \A k \in rec : k <= row.try
    /\ \A g \in Gor : Busy(g) => gor[g].try \in 1..row.try

\* An attempt not yet launched has one goroutine and no executor record.
PreLaunchUnique ==
    \A g \in Gor : gor[g].pc \in PreLaunch =>
        /\ gor[g].try \notin rec
        /\ \A h \in Gor : h # g /\ Busy(h) => gor[h].try # gor[g].try

\* Until Recover is done nothing is dispatched, hence nothing launched.
RecoverQuiet ==
    /\ rcv.pc # "none" <=> sched = "recovering"
    /\ sched # "up" => \A g \in Gor : gor[g].pc \notin PreLaunch
    /\ sched = "down" \/ rcv.pc \in {"listq", "probeq", "writeq"} => \A g \in Gor : ~Busy(g)
    /\ rcv.pc \in {"probeq", "writeq", "prober", "writer"} =>
         rcv.snap.ref = rcv.snap.try /\ rcv.snap.try \in 1..row.try
    /\ rcv.pc = "writeq" /\ rcv.phase = "unknown" => rcv.snap.ref \notin rec

\* Where the attempt number stands against the retry budget in each state.
Budget(n) == n <= MaxRetries \/ n = base
RetryInv ==
    /\ row.state = "scheduled" => Budget(row.try)
    /\ row.state = "up_for_retry" => row.try <= MaxRetries
    /\ row.state \in {"queued", "running"} => Budget(row.try - 1)

\* Together they are preserved by every step, with every fault.
AttemptInv ==
    /\ TypeOK /\ RowRef /\ SnapRef /\ AttemptBound /\ PreLaunchUnique
    /\ RecoverQuiet /\ RetryInv
=============================================================================
