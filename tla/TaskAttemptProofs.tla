------------------------- MODULE TaskAttemptProofs -------------------------
(***************************************************************************)
(* AttemptInv is inductive: it holds initially and every action of         *)
(* TaskAttempt preserves it, whatever the faults, bounds and executor.     *)
(* FreshRef, RetryBudget and TerminalSticky follow from it.                *)
(*                                                                         *)
(* One lemma per action, in the order of the specification.  An action     *)
(* that leaves the row, the goroutines or the registry almost untouched is *)
(* a single leaf; the steps that move a goroutine and the row together go  *)
(* through GorStep and ReattachStep, which settle the goroutine half once. *)
(***************************************************************************)
EXTENDS TaskAttempt, TLAPS

USE AttemptConstants

\* An idle slot is a goroutine record.
LEMMA IdleType == Idle \in GorRec
BY DEF Idle, GorRec, GorPC, Verdict

\* A goroutine that advances, or ends, keeps what is known of goroutines: it
\* stays on its attempt and never becomes pre-launch again.
LEMMA GorStep ==
    ASSUME AttemptInv, NEW g \in Gor, Busy(g),
           NEW r \in GorRec, gor' = [gor EXCEPT ![g] = r],
           \/ r = Idle
           \/ r.try = gor[g].try /\ (r.pc \in PreLaunch => gor[g].pc \in PreLaunch),
           \/ rec' = rec
           \/ rec' = rec \cup {gor[g].try} /\ r.pc \notin PreLaunch,
           row'.try = row.try, UNCHANGED <<sched, rcv>>
    PROVE  gor' \in [Gor -> GorRec] /\ AttemptBound' /\ PreLaunchUnique' /\ RecoverQuiet'
<1> USE DEF AttemptInv
<1>1. /\ gor' \in [Gor -> GorRec]
      /\ gor'[g] = r
      /\ \A h \in Gor \ {g} : gor'[h] = gor[h]
  BY DEF TypeOK
<1>2. gor[g].try \in 1..row.try
  BY DEF AttemptBound
<1>3. \/ r.pc = "idle"
      \/ r.try = gor[g].try /\ (r.pc \in PreLaunch => gor[g].pc \in PreLaunch)
  BY DEF Idle
<1>4. AttemptBound'
  BY <1>1, <1>2, <1>3 DEF AttemptBound, Busy
<1>5. PreLaunchUnique'
  BY <1>1, <1>2, <1>3 DEF PreLaunchUnique, PreLaunch, Busy
<1>6. sched # "down" /\ rcv.pc \notin {"listq", "probeq", "writeq"}
  BY DEF RecoverQuiet
<1>7. RecoverQuiet'
  BY <1>1, <1>3, <1>6 DEF RecoverQuiet, PreLaunch, Busy
<1> QED BY <1>1, <1>4, <1>5, <1>7

\* A failed attempt is either retried or final.
LEMMA FailureStateRange == \A k : FailureState(k) \in {"up_for_retry", "failed"}
BY DEF FailureState

\* The initial state satisfies the invariant.
LEMMA InitInv == Init => AttemptInv
BY DEF Init, AttemptInv, TypeOK, RowRef, SnapRef, AttemptBound, PreLaunchUnique,
       RecoverQuiet, RetryInv, Budget, Busy, PreLaunch, Locked, Row, Ref, NoRef, Idle,
       Free, NoRcv, NoRow, RcvAt, Exited, GorPC, GorRec, RcvPC, Phase, Verdict, Op,
       MarkOp, RunState, TaskState, TerminalTask

-----------------------------------------------------------------------------
(* The executor: a process ends, or the result of one is dropped. *)

\* Exit: a process exits.
LEMMA ExitInv == ASSUME NEW k \in Ref, AttemptInv, Exit(k) PROVE AttemptInv'
BY DEF Exit, Exited, AttemptInv, TypeOK, RowRef, SnapRef, AttemptBound,
       PreLaunchUnique, RecoverQuiet, RetryInv, Budget, Busy, Locked

\* Evict: an old result is dropped.
LEMMA EvictInv == ASSUME NEW k \in Ref, AttemptInv, Evict(k) PROVE AttemptInv'
BY DEF Evict, Exited, AttemptInv, TypeOK, RowRef, SnapRef, AttemptBound,
       PreLaunchUnique, RecoverQuiet, RetryInv, Budget, Busy, Locked

-----------------------------------------------------------------------------
(* The tick: processActiveRuns, processRun, admitReady and dispatch. *)

\* ListRuns: the run is listed.
LEMMA ListRunsInv == ASSUME AttemptInv, ListRuns PROVE AttemptInv'
BY DEF ListRuns, AttemptInv, TypeOK, RowRef, SnapRef, AttemptBound, PreLaunchUnique,
       RecoverQuiet, RetryInv, Budget, Busy, Locked

\* AdmitSkip: the candidate is passed over.
LEMMA AdmitSkipInv == ASSUME AttemptInv, AdmitSkip PROVE AttemptInv'
BY DEF AdmitSkip, AttemptInv, TypeOK, RowRef, SnapRef, AttemptBound,
       PreLaunchUnique, RecoverQuiet, RetryInv, Budget, Busy, Locked

\* ProcessRun: processRun requeues, collects or finalizes.
LEMMA ProcessRunInv == ASSUME AttemptInv, ProcessRun PROVE AttemptInv'
BY DEF ProcessRun, Requeue, Requeued, Unref, FinalizeRun, FinalState,
       UpdateDagRunState, Terminal, RunState, AttemptInv, TypeOK, RowRef, SnapRef,
       AttemptBound, PreLaunchUnique, RecoverQuiet, RetryInv, Budget, Busy, Locked,
       Row, NoRef, TaskState

\* ProcessRunTimeout: the run deadline starts timeoutRun.
LEMMA ProcessRunTimeoutInv == ASSUME AttemptInv, ProcessRunTimeout PROVE AttemptInv'
BY DEF ProcessRunTimeout, Requeue, Requeued, Unref, Terminal, Op, RunState,
       AttemptInv, TypeOK, RowRef, SnapRef, AttemptBound, PreLaunchUnique,
       RecoverQuiet, RetryInv, Budget, Busy, Row, NoRef, TaskState

\* Dispatch: a new attempt, with the next ref, gets its goroutine.
LEMMA DispatchInv == ASSUME NEW g \in Gor, AttemptInv, Dispatch(g) PROVE AttemptInv'
BY DEF Dispatch, GorPC, Verdict, AttemptInv, TypeOK, RowRef, SnapRef, AttemptBound,
       PreLaunchUnique, RecoverQuiet, RetryInv, Budget, Busy, PreLaunch, Locked,
       Row, Ref, NoRef, TaskState, GorRec

-----------------------------------------------------------------------------
(* The goroutine of an attempt: runTask and awaitCompletion. *)

\* PrepareFails: staging fails before the launch.
LEMMA PrepareFailsInv == ASSUME NEW g \in Gor, AttemptInv, PrepareFails(g)
                   PROVE AttemptInv'
BY DEF PrepareFails, Conclude, GorPC, Verdict, AttemptInv, TypeOK, RowRef, SnapRef,
       AttemptBound, PreLaunchUnique, RecoverQuiet, RetryInv, Budget, Busy,
       PreLaunch, Locked, GorRec

\* TaskCancelled: the last look before the launch.
LEMMA TaskCancelledInv == ASSUME NEW g \in Gor, AttemptInv, TaskCancelled(g)
                   PROVE AttemptInv'
<1> DEFINE r == IF row.state = "cancelled" THEN Idle
                ELSE [pc |-> "launch", try |-> gor[g].try, out |-> "failure"]
<1>1. gor[g].pc = "check" /\ gor[g].try \in 0..MaxTry
  BY DEF TaskCancelled, TypeOK, GorRec, AttemptInv
<1>2. r \in GorRec /\ gor' = [gor EXCEPT ![g] = r]
  BY <1>1, IdleType DEF TaskCancelled, GorRec, GorPC, Verdict, Go, Stop
<1>3. UNCHANGED <<run, row, proc, rec, mu, tick, sched, rcv, base, ops, crashes>>
  BY DEF TaskCancelled
<1>4. r = Idle \/ (r.try = gor[g].try /\ gor[g].pc \in PreLaunch)
  BY <1>1 DEF PreLaunch
<1>5. Busy(g)
  BY <1>1 DEF Busy
<1> HIDE DEF r
<1>6. gor' \in [Gor -> GorRec] /\ AttemptBound' /\ PreLaunchUnique' /\ RecoverQuiet'
  BY <1>2, <1>3, <1>4, <1>5, GorStep
<1>7. TypeOK' /\ RowRef' /\ SnapRef' /\ RetryInv'
  BY <1>3, <1>6 DEF AttemptInv, TypeOK, RowRef, SnapRef, RetryInv, Budget, Locked
<1> QED BY <1>6, <1>7 DEF AttemptInv

\* Launch: the attempt becomes known to the executor.
LEMMA LaunchInv == ASSUME NEW g \in Gor, AttemptInv, Launch(g) PROVE AttemptInv'
<1>1. gor[g].pc = "launch" /\ Busy(g) /\ gor[g].pc \in PreLaunch
  BY DEF Launch, PreLaunch, Busy
<1>2. gor[g].try \in 0..MaxTry
  BY DEF AttemptInv, TypeOK, GorRec
<1>a. gor[g].try \in Ref
  BY <1>1, <1>2 DEF AttemptInv, AttemptBound, Ref, TypeOK, Row
<1>3. PICK r \in GorRec : /\ gor' = [gor EXCEPT ![g] = r]
                          /\ r.try = gor[g].try
                          /\ rec' = rec \/ (rec' = rec \cup {gor[g].try} /\ r.pc \notin PreLaunch)
  <2>1. [pc |-> "mark", try |-> gor[g].try, out |-> "failure"] \in GorRec
    BY <1>2 DEF GorRec, GorPC, Verdict
  <2>2. [pc |-> "finish", try |-> gor[g].try, out |-> "failure"] \in GorRec
    BY <1>2 DEF GorRec, GorPC, Verdict
  <2>3. [pc |-> "noworker", try |-> gor[g].try, out |-> "failure"] \in GorRec
    BY <1>2 DEF GorRec, GorPC, Verdict
  <2> QED BY <2>1, <2>2, <2>3 DEF Launch, Go, Conclude, PreLaunch
<1>4. UNCHANGED <<run, row, mu, tick, sched, rcv, base, ops, crashes>>
  BY DEF Launch
<1>5. gor' \in [Gor -> GorRec] /\ AttemptBound' /\ PreLaunchUnique' /\ RecoverQuiet'
  BY <1>1, <1>3, <1>4, GorStep
<1>6. proc' \in [Ref -> Exited \cup {"none", "running"}] /\ rec' \in SUBSET Ref
  BY <1>a DEF Launch, Launched, AttemptInv, TypeOK
<1>7. TypeOK' /\ RowRef' /\ SnapRef' /\ RetryInv'
  BY <1>4, <1>5, <1>6 DEF AttemptInv, TypeOK, RowRef, SnapRef, RetryInv, Budget, Locked
<1> QED BY <1>5, <1>7 DEF AttemptInv

\* GiveBack: no worker: the attempt number goes back.
LEMMA GiveBackInv == ASSUME NEW g \in Gor, AttemptInv, GiveBack(g) PROVE AttemptInv'
BY DEF GiveBack, UpdateTaskInstanceGuarded, Applies, Stop, Idle, GorPC, Verdict,
       AttemptInv, TypeOK, RowRef, SnapRef, AttemptBound, PreLaunchUnique,
       RecoverQuiet, RetryInv, Budget, Busy, PreLaunch, Locked, Row, Ref, NoRef,
       TaskState, TerminalTask, GorRec

\* MarkRunning: the guarded queued -> running write.
LEMMA MarkRunningInv == ASSUME NEW g \in Gor, AttemptInv, MarkRunning(g)
                   PROVE AttemptInv'
<1>1. gor[g].pc = "mark" /\ Busy(g)
  BY DEF MarkRunning, Busy
<1>2. gor[g].try \in 1..row.try /\ gor[g].try \in 0..MaxTry /\ gor[g].try \in Ref
  BY <1>1 DEF AttemptInv, AttemptBound, Ref, TypeOK, Row, GorRec
<1>3. UNCHANGED <<run, rec, mu, tick, sched, rcv, base, ops, crashes>>
  BY DEF MarkRunning
<1>4. PICK r \in GorRec : /\ gor' = [gor EXCEPT ![g] = r]
                          /\ r = Idle \/ (r.try = gor[g].try /\ r.pc \notin PreLaunch)
  <2>1. [pc |-> "poll", try |-> gor[g].try, out |-> "failure"] \in GorRec
    BY <1>2 DEF GorRec, GorPC, Verdict
  <2> QED BY <2>1, IdleType DEF MarkRunning, Go, Stop, PreLaunch
<1>5. row'.try = row.try /\ row' \in Row /\ RowRef' /\ RetryInv' /\ row.try = row'.try
  <2>1. CASE Applies(gor[g].try) /\ row' = [state |-> "running", try |-> gor[g].try, ref |-> gor[g].try]
    <3>1. row.ref = gor[g].try /\ row.try = gor[g].try /\ row.state \in {"queued", "running", "up_for_retry"}
      BY <1>2, <2>1
         DEF Applies, AttemptInv, RowRef, NoRef, TypeOK, Row, TaskState,
             TerminalTask
    <3>2. Budget(row.try - 1)
      BY <1>2, <3>1 DEF AttemptInv, RetryInv, Budget
    <3> QED BY <1>2, <1>3, <2>1, <3>1, <3>2
       DEF Row, RowRef, NoRef, RetryInv, Budget, TaskState
  <2>2. CASE row' = row
    BY <1>3, <2>2 DEF AttemptInv, TypeOK, RowRef, RetryInv, Budget
  <2> QED BY <2>1, <2>2 DEF MarkRunning
<1>6. gor' \in [Gor -> GorRec] /\ AttemptBound' /\ PreLaunchUnique' /\ RecoverQuiet'
  BY <1>1, <1>3, <1>4, <1>5, GorStep
<1>7. proc' \in [Ref -> Exited \cup {"none", "running"}]
  BY <1>2 DEF MarkRunning, Killed, Exited, AttemptInv, TypeOK
<1>8. TypeOK' /\ SnapRef'
  BY <1>3, <1>5, <1>6, <1>7 DEF AttemptInv, TypeOK, SnapRef, Locked
<1> QED BY <1>5, <1>6, <1>8 DEF AttemptInv

\* Poll: the poll sees the end of the attempt.
LEMMA PollInv == ASSUME NEW g \in Gor, AttemptInv, Poll(g) PROVE AttemptInv'
BY DEF Poll, Conclude, Probe, VerdictOf, GorPC, Verdict, AttemptInv, TypeOK, RowRef,
       SnapRef, AttemptBound, PreLaunchUnique, RecoverQuiet, RetryInv, Budget, Busy,
       PreLaunch, Locked, GorRec

\* Finalize: the outcome is written through the guard.
LEMMA FinalizeInv == ASSUME NEW g \in Gor, AttemptInv, Finalize(g) PROVE AttemptInv'
<1>1. gor[g].pc = "finish" /\ Busy(g)
  BY DEF Finalize, Busy
<1>2. gor[g].try \in 1..row.try /\ gor[g].try \in Ref /\ gor[g].out \in Verdict
  BY <1>1 DEF AttemptInv, AttemptBound, Ref, TypeOK, Row, GorRec
<1>3. UNCHANGED <<run, proc, rec, mu, tick, sched, rcv, base, ops, crashes>>
  BY DEF Finalize
<1>4. gor' = [gor EXCEPT ![g] = Idle]
  BY DEF Finalize, Stop
<1>5. row'.try = row.try /\ row' \in Row /\ RowRef' /\ RetryInv'
  <2>1. CASE row' = row
    BY <1>3, <2>1 DEF AttemptInv, TypeOK, RowRef, RetryInv, Budget
  <2>2. CASE /\ row.ref = gor[g].try
             /\ row' = [state |-> VerdictState(gor[g].out, gor[g].try), try |-> gor[g].try, ref |-> gor[g].try]
    <3>1. row.try = gor[g].try /\ gor[g].try \in 1..MaxTry
      BY <1>2, <2>2 DEF AttemptInv, RowRef, NoRef, TypeOK, Row, Ref
    <3>2. row'.state \in {"success", "skipped", "up_for_retry", "failed"}
      BY <1>2, <2>2, FailureStateRange DEF VerdictState, Verdict
    <3>3. row'.state = "up_for_retry" => gor[g].try <= MaxRetries
      BY <1>2, <2>2 DEF VerdictState, Verdict, FailureState
    <3> QED BY <2>2, <3>1, <3>2, <3>3 DEF Row, RowRef, NoRef, RetryInv, TaskState
  <2> QED BY <2>1, <2>2 DEF Finalize, UpdateTaskInstanceGuarded, Applies
<1>6. gor' \in [Gor -> GorRec] /\ AttemptBound' /\ PreLaunchUnique' /\ RecoverQuiet'
  BY <1>1, <1>3, <1>4, <1>5, IdleType, GorStep
<1>7. TypeOK' /\ SnapRef'
  BY <1>3, <1>5, <1>6 DEF AttemptInv, TypeOK, SnapRef, Locked
<1> QED BY <1>5, <1>6, <1>7 DEF AttemptInv

-----------------------------------------------------------------------------
(* Operators, and the operations that hold finalizeMu. *)

\* CancelRun: the run row is cancelled.
LEMMA CancelRunInv == ASSUME AttemptInv, CancelRun PROVE AttemptInv'
BY DEF CancelRun, Begin, Serving, Terminal, Op, RunState, AttemptInv, TypeOK,
       RowRef, SnapRef, AttemptBound, PreLaunchUnique, RecoverQuiet, RetryInv,
       Budget, Busy, Locked, Row

\* RetryTask: a retry takes its snapshot.
LEMMA RetryTaskInv == ASSUME AttemptInv, RetryTask PROVE AttemptInv'
BY DEF RetryTask, Serving, Op, AttemptInv, TypeOK, RowRef, SnapRef, AttemptBound,
       PreLaunchUnique, RecoverQuiet, RetryInv, Budget, Busy, Row

\* MarkTask: a mark takes its snapshot.
LEMMA MarkTaskInv == ASSUME NEW op \in MarkOp, AttemptInv, MarkTask(op)
                   PROVE AttemptInv'
BY DEF MarkTask, Serving, Begin, Terminal, Op, MarkOp, AttemptInv, TypeOK, RowRef,
       SnapRef, AttemptBound, PreLaunchUnique, RecoverQuiet, RetryInv, Budget, Busy,
       Row

\* MarkRun: the run row is overridden.
LEMMA MarkRunInv == ASSUME NEW target \in {"success", "failed"}, AttemptInv, MarkRun(target)
                   PROVE AttemptInv'
BY DEF MarkRun, Serving, UpdateDagRunState, RunState, AttemptInv, TypeOK, RowRef,
       SnapRef, AttemptBound, PreLaunchUnique, RecoverQuiet, RetryInv, Budget, Busy,
       Locked

\* CancelAttempt: the kill, best effort.
LEMMA CancelAttemptInv == ASSUME AttemptInv, CancelAttempt PROVE AttemptInv'
BY DEF CancelAttempt, Killed, Exited, Op, AttemptInv, TypeOK, RowRef, SnapRef,
       AttemptBound, PreLaunchUnique, RecoverQuiet, RetryInv, Budget, Busy

\* CancelWrite: the unguarded write of a cancel.
LEMMA CancelWriteInv == ASSUME AttemptInv, CancelWrite PROVE AttemptInv'
BY DEF CancelWrite, Writing, SetState, Free, NoRow, Op, AttemptInv, TypeOK, RowRef,
       SnapRef, AttemptBound, PreLaunchUnique, RecoverQuiet, RetryInv, Busy, Locked,
       Row, Ref, NoRef, TaskState

\* TimeoutWrite: the guarded write of a deadline.
LEMMA TimeoutWriteInv == ASSUME AttemptInv, TimeoutWrite PROVE AttemptInv'
BY DEF TimeoutWrite, Writing, SetState, Free, NoRow, Op, UpdateTaskInstanceGuarded,
       Applies, AttemptInv, TypeOK, RowRef, SnapRef, AttemptBound, PreLaunchUnique,
       RecoverQuiet, RetryInv, Budget, Busy, Locked, Row, Ref, NoRef, TaskState

\* RetryWrite: the cleared row keeps its attempt number.
LEMMA RetryWriteInv == ASSUME AttemptInv, RetryWrite PROVE AttemptInv'
BY DEF RetryWrite, Writing, ClearedRow, Unref, Free, NoRow, Op, UpdateDagRunState,
       RunState, AttemptInv, TypeOK, RowRef, SnapRef, AttemptBound, PreLaunchUnique,
       RecoverQuiet, RetryInv, Budget, Busy, Locked, Row, Ref, NoRef, TaskState

\* MarkWrite: the unguarded write of a mark.
LEMMA MarkWriteInv == ASSUME NEW op \in MarkOp, AttemptInv, MarkWrite(op)
                   PROVE AttemptInv'
BY DEF MarkWrite, Writing, SetState, Free, NoRow, Op, MarkOp, MarkTarget,
       UpdateDagRunState, RunState, AttemptInv, TypeOK, RowRef, SnapRef,
       AttemptBound, PreLaunchUnique, RecoverQuiet, RetryInv, Busy, Locked, Row,
       Ref, NoRef, TaskState

-----------------------------------------------------------------------------
(* Crash, restart and Recover. *)

\* Crash: goroutines, lock and tick are gone, refs at most forgotten.
LEMMA CrashInv == AttemptInv /\ Crash => AttemptInv'
<1> SUFFICES ASSUME AttemptInv, Crash PROVE AttemptInv'
  OBVIOUS
<1>1. gor' \in [Gor -> GorRec] /\ \A g \in Gor : gor'[g].pc = "idle"
  BY IdleType DEF Crash, Idle
<1>2. NoRow \in Row
  BY DEF NoRow, Row, TaskState, NoRef
<1>3. mu' \in [op : Op, step : {"kill", "write"}, snap : Row] /\ ~Locked'
  BY <1>2 DEF Crash, Free, Op, Locked
<1>4. rcv' \in [pc : RcvPC, snap : Row, phase : Phase] /\ rcv'.pc = "none"
  BY <1>2 DEF Crash, NoRcv, RcvAt, RcvPC, Phase
<1>5. proc' \in [Ref -> Exited \cup {"none", "running"}] /\ rec' \in SUBSET rec
  BY DEF Crash, AttemptInv, TypeOK, Exited
<1>6. TypeOK'
  BY <1>1, <1>3, <1>4, <1>5 DEF Crash, AttemptInv, TypeOK
<1>7. RowRef' /\ SnapRef' /\ RetryInv'
  BY <1>3 DEF Crash, AttemptInv, RowRef, SnapRef, RetryInv, Budget
<1>8. AttemptBound' /\ PreLaunchUnique' /\ RecoverQuiet'
  BY <1>1, <1>4, <1>5
     DEF Crash, AttemptInv, AttemptBound, PreLaunchUnique, RecoverQuiet, Busy,
         PreLaunch
<1> QED BY <1>6, <1>7, <1>8 DEF AttemptInv

\* Restart: Recover begins.
LEMMA RestartInv == AttemptInv /\ Restart => AttemptInv'
BY DEF Restart, RcvAt, NoRow, AttemptInv, TypeOK, RowRef, SnapRef, AttemptBound,
       PreLaunchUnique,
       RecoverQuiet, RetryInv, Budget, Busy, PreLaunch, Locked, Row, NoRef, TaskState, RcvPC, Phase

\* RecoverList: Recover reads the row.
LEMMA RecoverListInv == ASSUME AttemptInv, RecoverList PROVE AttemptInv'
BY DEF RecoverList, RecoverSkip, RecoverDone, ToRunning, NoRcv, RcvAt, NoRow, RcvPC,
       Phase, AttemptInv, TypeOK, RowRef, SnapRef, AttemptBound, PreLaunchUnique,
       RecoverQuiet, RetryInv, Budget, Busy, Locked, Row, NoRef, TaskState

\* RecoverProbe: Recover asks the executor.
LEMMA RecoverProbeInv == ASSUME AttemptInv, RecoverProbe PROVE AttemptInv'
BY DEF RecoverProbe, RecoverSkip, RecoverDone, ToRunning, NoRcv, RcvAt, NoRow,
       Probe, VerdictOf, Phase, Verdict, RcvPC, AttemptInv, TypeOK, RowRef, SnapRef,
       AttemptBound, PreLaunchUnique, RecoverQuiet, RetryInv, Budget, Busy, Locked,
       Row, NoRef, TaskState

\* Adopting an attempt of the row while nothing is about to be launched.
LEMMA ReattachStep ==
    ASSUME AttemptInv, NEW g \in Gor, NEW k \in Ref, Reattach(g, k), k <= row.try,
           rec' = rec, row'.try = row.try, sched = "recovering"
    PROVE  /\ gor' \in [Gor -> GorRec] /\ AttemptBound' /\ PreLaunchUnique'
           /\ \A h \in Gor : gor'[h].pc \notin PreLaunch
<1> DEFINE r == [pc |-> "poll", try |-> k, out |-> "failure"]
<1>1. r \in GorRec /\ r.pc = "poll" /\ r.try = k
  BY DEF GorRec, GorPC, Verdict, Ref
<1>2. gor' = [gor EXCEPT ![g] = r]
  BY DEF Reattach
<1> HIDE DEF r
<1>3. /\ gor' \in [Gor -> GorRec]
      /\ gor'[g] = r
      /\ \A h \in Gor \ {g} : gor'[h] = gor[h]
  BY <1>1, <1>2 DEF AttemptInv, TypeOK
<1>4. \A h \in Gor : gor'[h].pc \notin PreLaunch
  BY <1>1, <1>3 DEF AttemptInv, RecoverQuiet, PreLaunch
<1>5. AttemptBound'
  BY <1>1, <1>3 DEF AttemptInv, AttemptBound, Busy, Ref
<1> QED BY <1>3, <1>4, <1>5 DEF PreLaunchUnique

\* RecoverQueued: a queued row is adopted, finalized or reset.
LEMMA RecoverQueuedInv == ASSUME NEW g \in Gor, AttemptInv, RecoverQueued(g)
                   PROVE AttemptInv'
<1> DEFINE k == rcv.snap.ref
<1>1. /\ sched = "recovering" /\ rcv.pc = "writeq"
      /\ k = rcv.snap.try /\ k \in 1..row.try /\ k \in Ref
      /\ rcv.snap \in Row /\ rcv.phase \in Phase
      /\ \A h \in Gor : ~Busy(h)
  BY DEF RecoverQueued, AttemptInv, RecoverQuiet, TypeOK, Row, Ref
<1>2. rcv' = RcvAt("listr") /\ UNCHANGED <<run, rec, mu, tick, sched, base, ops, crashes>>
  BY DEF RecoverQueued, ToRunning
<1>3. rcv' \in [pc : RcvPC, snap : Row, phase : Phase] /\ rcv'.pc = "listr"
  BY <1>2 DEF RcvAt, RcvPC, Phase, NoRow, Row, NoRef, TaskState
<1>4. proc' \in [Ref -> Exited \cup {"none", "running"}]
  BY <1>1 DEF RecoverQueued, Killed, Exited, AttemptInv, TypeOK
<1>5. Applies(k) => row.ref = k /\ row.try = k /\ k # NoRef
  BY <1>1 DEF Applies, AttemptInv, RowRef, NoRef, Ref
<1>6. CASE row' = row /\ gor' = gor
  <2>1. TypeOK' /\ RowRef' /\ SnapRef' /\ RetryInv'
    BY <1>2, <1>3, <1>4, <1>6
       DEF AttemptInv, TypeOK, RowRef, SnapRef, RetryInv, Budget, Locked
  <2>2. AttemptBound' /\ PreLaunchUnique' /\ RecoverQuiet'
    BY <1>1, <1>2, <1>3, <1>6
       DEF AttemptInv, AttemptBound, PreLaunchUnique, RecoverQuiet, PreLaunch, Busy
  <2> QED BY <2>1, <2>2 DEF AttemptInv
<1>7. CASE Applies(k) /\ row' = SetState(rcv.snap, "running") /\ Reattach(g, k)
  <2>1. row' = [state |-> "running", try |-> k, ref |-> k] /\ row'.try = row.try
    BY <1>1, <1>5, <1>7 DEF SetState
  <2>2. gor' \in [Gor -> GorRec] /\ AttemptBound' /\ PreLaunchUnique' /\ \A h \in Gor : gor'[h].pc \notin PreLaunch
    BY <1>1, <1>2, <1>5, <1>7, <2>1, ReattachStep DEF Ref
  <2>3. row.state \in {"queued", "running", "up_for_retry"} /\ Budget(k - 1)
    BY <1>1, <1>5, <1>7
       DEF Applies, AttemptInv, RowRef, NoRef, TypeOK, Row, TaskState, TerminalTask,
           RetryInv, Budget
  <2>4. TypeOK' /\ RowRef' /\ RetryInv'
    BY <1>1, <1>2, <1>3, <1>4, <2>1, <2>2, <2>3
       DEF AttemptInv, TypeOK, Row, Ref, RowRef, NoRef, RetryInv, Budget, TaskState
  <2>5. SnapRef' /\ RecoverQuiet'
    BY <1>1, <1>2, <1>3, <2>1, <2>2
       DEF AttemptInv, SnapRef, Locked, RecoverQuiet, PreLaunch
  <2> QED BY <2>2, <2>4, <2>5 DEF AttemptInv
<1>8. CASE /\ Applies(k) /\ rcv.phase = "unknown" /\ gor' = gor
           /\ row' = [state |-> "scheduled", try |-> rcv.snap.try - 1, ref |-> NoRef]
  <2>1. k \notin rec /\ row.state \in {"queued", "running", "up_for_retry"} /\ Budget(k - 1)
    BY <1>1, <1>5, <1>8
       DEF RecoverQuiet, Applies, AttemptInv, RowRef, NoRef, TypeOK, Row, TaskState,
           TerminalTask, RetryInv, Budget
  <2>2. row' = [state |-> "scheduled", try |-> k - 1, ref |-> NoRef] /\ k - 1 \in 0..MaxTry
    BY <1>1, <1>8 DEF Ref
  <2>3. TypeOK' /\ RowRef' /\ RetryInv'
    BY <1>1, <1>2, <1>3, <1>4, <1>8, <2>1, <2>2
       DEF AttemptInv, TypeOK, Row, RowRef, NoRef, RetryInv, Budget, TaskState
  <2>4. SnapRef'
    BY <1>1, <1>2, <1>5, <1>8, <2>2 DEF AttemptInv, SnapRef, Locked, TypeOK, Row, Ref
  <2>5. AttemptBound'
    BY <1>1, <1>2, <1>5, <1>8, <2>1, <2>2 DEF AttemptInv, AttemptBound, TypeOK, Ref, Busy
  <2>6. PreLaunchUnique' /\ RecoverQuiet'
    BY <1>1, <1>2, <1>3, <1>8
       DEF AttemptInv, PreLaunchUnique, RecoverQuiet, PreLaunch, Busy
  <2> QED BY <2>3, <2>4, <2>5, <2>6 DEF AttemptInv
<1>9. CASE /\ Applies(k) /\ rcv.phase \in Verdict /\ gor' = gor
           /\ row' = SetState(rcv.snap, VerdictState(rcv.phase, k))
  <2>1. row'.try = k /\ row'.ref = k /\ row'.state = VerdictState(rcv.phase, k)
    BY <1>1, <1>9 DEF SetState
  <2>2. row'.state \in {"success", "skipped", "up_for_retry", "failed"}
    BY <1>9, <2>1, FailureStateRange DEF VerdictState, Verdict
  <2>3. row'.state = "up_for_retry" => k <= MaxRetries
    BY <1>9, <2>1 DEF VerdictState, Verdict, FailureState
  <2>4. row' \in Row
    BY <1>1, <1>9, <2>2 DEF SetState, Row, TaskState
  <2>5. TypeOK' /\ RowRef' /\ SnapRef' /\ RetryInv'
    BY <1>1, <1>2, <1>3, <1>4, <1>5, <1>9, <2>1, <2>2, <2>3, <2>4
       DEF AttemptInv, TypeOK, RowRef, NoRef, Ref, SnapRef, RetryInv, Locked
  <2>6. AttemptBound' /\ PreLaunchUnique' /\ RecoverQuiet'
    BY <1>1, <1>2, <1>3, <1>5, <1>9, <2>1
       DEF AttemptInv, AttemptBound, PreLaunchUnique, RecoverQuiet, PreLaunch, Busy
  <2> QED BY <2>5, <2>6 DEF AttemptInv
<1> QED BY <1>6, <1>7, <1>8, <1>9 DEF RecoverQueued, UpdateTaskInstanceGuarded

\* RecoverRunning: a running row is re-attached, finalized or lost.
LEMMA RecoverRunningInv == ASSUME NEW g \in Gor, AttemptInv, RecoverRunning(g)
                   PROVE AttemptInv'
<1> DEFINE k == rcv.snap.ref
           out == IF rcv.phase \in Verdict THEN rcv.phase ELSE "failure"
<1>1. /\ sched = "recovering" /\ rcv.pc = "writer"
      /\ k = rcv.snap.try /\ k \in 1..row.try /\ k \in Ref
      /\ rcv.snap \in Row
  BY DEF RecoverRunning, AttemptInv, RecoverQuiet, TypeOK, Row, Ref
<1>2. rcv' = NoRcv /\ sched' = "up" /\ UNCHANGED <<run, proc, rec, mu, tick, base, ops, crashes>>
  BY DEF RecoverRunning, RecoverDone
<1>3. rcv' \in [pc : RcvPC, snap : Row, phase : Phase] /\ rcv'.pc = "none"
  BY <1>2 DEF NoRcv, RcvAt, RcvPC, Phase, NoRow, Row, NoRef, TaskState
<1>4. RecoverQuiet'
  BY <1>2, <1>3 DEF RecoverQuiet
<1>5. CASE row' = row /\ gor' = gor
  <2>1. TypeOK' /\ RowRef' /\ SnapRef' /\ RetryInv'
    BY <1>2, <1>3, <1>5 DEF AttemptInv, TypeOK, RowRef, SnapRef, RetryInv, Budget, Locked
  <2>2. AttemptBound' /\ PreLaunchUnique'
    BY <1>2, <1>5 DEF AttemptInv, AttemptBound, PreLaunchUnique, PreLaunch, Busy
  <2> QED BY <1>4, <2>1, <2>2 DEF AttemptInv
<1>6. CASE row' = row /\ Reattach(g, k)
  <2>1. gor' \in [Gor -> GorRec] /\ AttemptBound' /\ PreLaunchUnique'
    BY <1>1, <1>2, <1>6, ReattachStep DEF Ref
  <2>2. TypeOK' /\ RowRef' /\ SnapRef' /\ RetryInv'
    BY <1>2, <1>3, <1>6, <2>1
       DEF AttemptInv, TypeOK, RowRef, SnapRef, RetryInv, Budget, Locked
  <2> QED BY <1>4, <2>1, <2>2 DEF AttemptInv
<1>7. CASE Applies(k) /\ gor' = gor /\ row' = SetState(rcv.snap, VerdictState(out, k))
  <2>0. row.ref = k /\ row.try = k
    BY <1>1, <1>7 DEF Applies, AttemptInv, RowRef, NoRef, Ref
  <2>1. row'.try = k /\ row'.ref = k /\ row'.state = VerdictState(out, k)
    BY <1>1, <1>7 DEF SetState
  <2>2. row'.state \in {"success", "skipped", "up_for_retry", "failed"}
    BY <1>7, <2>1, FailureStateRange DEF VerdictState, Verdict
  <2>3. row'.state = "up_for_retry" => k <= MaxRetries
    BY <1>7, <2>1 DEF VerdictState, Verdict, FailureState
  <2>4. row' \in Row
    BY <1>1, <1>7, <2>1, <2>2 DEF SetState, Row, TaskState
  <2>5. TypeOK' /\ RowRef' /\ SnapRef' /\ RetryInv'
    BY <1>1, <1>2, <1>3, <1>7, <2>0, <2>1, <2>2, <2>3, <2>4
       DEF AttemptInv, TypeOK, RowRef, NoRef, Ref, SnapRef, RetryInv, Locked
  <2>6. AttemptBound' /\ PreLaunchUnique'
    BY <1>1, <1>2, <1>7, <2>0, <2>1
       DEF AttemptInv, AttemptBound, PreLaunchUnique, PreLaunch, Busy
  <2> QED BY <1>4, <2>5, <2>6 DEF AttemptInv
<1> QED BY <1>5, <1>6, <1>7 DEF RecoverRunning, UpdateTaskInstanceGuarded

-----------------------------------------------------------------------------
(* The theorems. *)

\* Every step, and stuttering, preserves the invariant.
LEMMA NextInv == AttemptInv /\ [Next]_vars => AttemptInv'
<1> SUFFICES ASSUME AttemptInv, [Next]_vars PROVE AttemptInv'
  OBVIOUS
<1>1. CASE Tick
  BY <1>1, ListRunsInv, ProcessRunInv, ProcessRunTimeoutInv, AdmitSkipInv, DispatchInv DEF Tick
<1>2. CASE Operator
  BY <1>2, CancelRunInv, RetryTaskInv, MarkTaskInv, MarkRunInv DEF Operator
<1>3. CASE CancelAttempt
  BY <1>3, CancelAttemptInv
<1>4. CASE WriteBack
  BY <1>4, CancelWriteInv, TimeoutWriteInv, RetryWriteInv, MarkWriteInv DEF WriteBack
<1>5. CASE \E g \in Gor : Goroutine(g)
  BY <1>5, PrepareFailsInv, TaskCancelledInv, LaunchInv, GiveBackInv, MarkRunningInv,
     PollInv, FinalizeInv DEF Goroutine
<1>6. CASE Crash \/ Restart
  BY <1>6, CrashInv, RestartInv
<1>7. CASE Recover
  BY <1>7, RecoverListInv, RecoverProbeInv, RecoverQueuedInv, RecoverRunningInv DEF Recover
<1>8. CASE \E k \in Ref : Exit(k) \/ Evict(k)
  BY <1>8, ExitInv, EvictInv
<1>9. CASE UNCHANGED vars
  BY <1>9 DEF vars, AttemptInv, TypeOK, RowRef, SnapRef, AttemptBound, PreLaunchUnique,
              RecoverQuiet, RetryInv, Budget, Busy, Locked
<1> QED BY <1>1, <1>2, <1>3, <1>4, <1>5, <1>6, <1>7, <1>8, <1>9 DEF Next

\* The inductive invariant holds in every reachable state, for any number of
\* goroutines, attempts, operator calls and crashes, and any set of faults.
THEOREM AttemptInvariant == Spec => []AttemptInv
BY InitInv, NextInv, PTL DEF Spec

\* The row, the goroutines and the executor registry keep their types: no
\* attempt number ever drops below zero or passes the last dispatched one.
THEOREM TypeCorrect == Spec => []TypeOK
<1>1. AttemptInv => TypeOK
  BY DEF AttemptInv
<1> QED BY <1>1, AttemptInvariant, PTL

\* A task waiting for dispatch never reuses a ref the executor still knows,
\* although GiveBack and Recover hand attempt numbers back and operators
\* write stale snapshots of the row.
THEOREM RefsAreFresh == Spec => []FreshRef
<1>1. AttemptInv => FreshRef
  BY DEF AttemptInv, FreshRef, AttemptBound, TypeOK, Row
<1> QED BY <1>1, AttemptInvariant, PTL

\* Automatic retries stop at the task's budget.
THEOREM RetriesBounded == Spec => []RetryBudget
<1>1. AttemptInv => RetryBudget
  BY DEF AttemptInv, RetryInv, Budget, RetryBudget
<1> QED BY <1>1, AttemptInvariant, PTL

\* A terminal row changes only while an operator's write is in progress: the
\* guard stops goroutines, Recover and the deadline, and the tick touches
\* live rows only.
LEMMA StickyStep == ASSUME [Next]_vars, Terminal, row' # row PROVE Override
<1>0. row.state \notin {"scheduled", "queued", "up_for_retry"} /\ \A k : ~Applies(k)
  BY DEF Terminal, TerminalTask, Applies
<1>1. \A new, k : UpdateTaskInstanceGuarded(new, k) => row' = row
  BY <1>0 DEF UpdateTaskInstanceGuarded
<1>2. ~Tick
  BY <1>0 DEF Tick, ListRuns, ProcessRun, ProcessRunTimeout, Requeue, AdmitSkip, Dispatch
<1>3. ~Operator /\ ~CancelAttempt /\ ~Crash /\ ~Restart
  BY DEF Operator, CancelRun, RetryTask, MarkTask, MarkRun, CancelAttempt, Crash, Restart
<1>4. ASSUME NEW g \in Gor PROVE ~Goroutine(g)
  BY <1>0, <1>1 DEF Goroutine, PrepareFails, TaskCancelled, Launch, GiveBack, MarkRunning,
                    Poll, Finalize
<1>5. ~Recover
  BY <1>0, <1>1 DEF Recover, RecoverList, RecoverProbe, RecoverQueued, RecoverRunning
<1>6. ASSUME NEW k \in Ref PROVE ~Exit(k) /\ ~Evict(k)
  BY DEF Exit, Evict
<1>7. WriteBack
  BY <1>2, <1>3, <1>4, <1>5, <1>6 DEF Next, vars
<1> QED BY <1>1, <1>7 DEF WriteBack, CancelWrite, TimeoutWrite, RetryWrite, MarkWrite,
                          Writing, Override, MarkOp

\* No goroutine of an older attempt, no Recover and no deadline ever changes a
\* finished task.
THEOREM TerminalRowsStick == Spec => TerminalSticky
<1>1. [Next]_vars => [Terminal /\ row' # row => Override]_vars
  BY StickyStep
<1> QED BY <1>1, PTL DEF Spec, TerminalSticky
-----------------------------------------------------------------------------
(***************************************************************************)
(* Where a success comes from, and the refinement of TaskLifecycle.  The   *)
(* guard compares refs only, so that it applies to a row in the right      *)
(* state has to be known of every goroutine, of Recover and of the         *)
(* operations, also after Recover has adopted one attempt twice.           *)
(***************************************************************************)
Resumed == {"poll", "finish"}

\* What a poll concludes from the executor at this moment.
Seen(k) == IF Probe(k) = "unknown" THEN "failure" ELSE Probe(k)

\* A success or a skip that is about to be written is that of the process.
OutcomeInv ==
    /\ \A g \in Gor : gor[g].pc = "finish" /\ gor[g].out \in {"success", "skipped"} =>
         VerdictOf(proc[gor[g].try]) = gor[g].out
    /\ rcv.pc \in {"writeq", "writer"} /\ rcv.phase \in {"success", "skipped"} =>
         VerdictOf(proc[rcv.snap.ref]) = rcv.phase

\* A goroutine that has not marked its attempt finds the row queued.
QueuedUntilMarked ==
    \A g \in Gor : gor[g].pc \in PreLaunch \cup {"mark"} /\ row.ref = gor[g].try /\ ~Terminal
                     => row.state = "queued"

\* Two goroutines on one attempt come from Recover, and end alike.
Twins ==
    /\ sched # "up" => \A g \in Gor : Busy(g) => gor[g].pc \in Resumed
    /\ sched = "recovering" =>
         \A g \in Gor : gor[g].pc = "finish" => gor[g].out = Seen(gor[g].try)
    /\ \A g, h \in Gor : g # h /\ Busy(g) /\ Busy(h) /\ gor[g].try = gor[h].try =>
         /\ gor[g].pc \in Resumed
         /\ gor[g].pc = "finish" => gor[g].out = Seen(gor[g].try)

\* Once an attempt is to be retried, whoever is still on it sees a failure.
RetryAgreed ==
    row.state = "up_for_retry" =>
      \A g \in Gor : Busy(g) /\ row.ref = gor[g].try =>
        /\ gor[g].pc \in Resumed /\ Seen(gor[g].try) = "failure"
        /\ gor[g].pc = "finish" => gor[g].out = "failure"

\* What Recover's snapshot still says about a live row with its ref.
RecoverAgreed ==
    /\ rcv.pc \in {"probeq", "writeq"} /\ row.ref = rcv.snap.ref /\ ~Terminal
         => row.state = "queued"
    /\ rcv.pc \in {"prober", "writer"} /\ row.ref = rcv.snap.ref /\ ~Terminal
         => row.state \in {"running", "up_for_retry"}
    /\ rcv.pc \in {"prober", "writer"} /\ row.ref = rcv.snap.ref /\ row.state = "up_for_retry"
         => /\ Seen(rcv.snap.ref) = "failure"
            /\ rcv.pc = "writer" => rcv.phase \in {"failure", "unknown", "running"}

\* What Recover has probed is what a goroutine on the same attempt will see.
RecoverSees ==
    rcv.pc = "writer" /\ rcv.phase # "running" =>
      \A g \in Gor : Busy(g) /\ gor[g].try = rcv.snap.ref =>
        Seen(rcv.snap.ref) = IF rcv.phase = "unknown" THEN "failure" ELSE rcv.phase

\* An operation's snapshot is the row's attempt, or one ahead of a row that
\* was given back meanwhile.
SnapAgreed ==
    Locked => /\ mu.snap.ref = NoRef => row = mu.snap
              /\ mu.snap.try = row.try \/ (mu.snap.try = row.try + 1 /\ row.ref = NoRef)

Agreed ==
    /\ QueuedUntilMarked /\ Twins /\ RetryAgreed
    /\ RecoverAgreed /\ RecoverSees /\ SnapAgreed
LifecycleInv == AttemptInv /\ Agreed

-----------------------------------------------------------------------------
(* The executor, seen from one attempt. *)

\* Nobody is about to launch attempt k.
Unlaunched(k) == \A g \in Gor : gor[g].pc = "launch" => gor[g].try # k

\* While nobody launches it, an attempt that is not running stays as it is,
\* and its record goes only in a crash, or once it has exited unwatched.
LEMMA ExecutorStep ==
    ASSUME AttemptInv, [Next]_vars, NEW k \in Ref, Unlaunched(k)
    PROVE  /\ proc[k] # "running" => proc'[k] = proc[k]
           /\ k \notin rec => k \notin rec'
           /\ k \in rec /\ k \notin rec' =>
                Crash \/ (proc[k] \in Exited /\ \A g \in Gor : Busy(g) => gor[g].try # k)
<1> DEFINE Same == UNCHANGED <<proc, rec>>
           Kill == rec' = rec /\ \E j : proc' = Killed(j)
<1>0. proc \in [Ref -> Exited \cup {"none", "running"}] /\ rec \subseteq Ref
  BY DEF AttemptInv, TypeOK
<1>1. CASE Same
  BY <1>1
<1>2. CASE Kill
  <2>1. PICK j : proc' = Killed(j)
    BY <1>2
  <2> QED BY <1>0, <1>2, <2>1 DEF Killed
<1>3. CASE Tick
  BY <1>1, <1>3 DEF Tick, ListRuns, ProcessRun, ProcessRunTimeout, AdmitSkip, Dispatch
<1>4. CASE Operator
  BY <1>1, <1>4 DEF Operator, CancelRun, RetryTask, MarkTask, MarkRun
<1>5. CASE CancelAttempt
  BY <1>1, <1>2, <1>5 DEF CancelAttempt
<1>6. CASE WriteBack
  BY <1>1, <1>6 DEF WriteBack, CancelWrite, TimeoutWrite, RetryWrite, MarkWrite, Writing
<1>7. ASSUME NEW g \in Gor, Goroutine(g)
      PROVE  Same \/ Kill \/ Launch(g)
  BY <1>7 DEF Goroutine, PrepareFails, TaskCancelled, GiveBack, MarkRunning, Poll, Finalize
<1>8. ASSUME NEW g \in Gor, Launch(g), ~Same
      PROVE  gor[g].try # k /\ rec' = rec \cup {gor[g].try} /\ proc' = Launched(gor[g].try)
  BY <1>8 DEF Launch, Unlaunched
<1>9. ASSUME NEW g \in Gor, Launch(g), ~Same
      PROVE  proc'[k] = proc[k] /\ (k \in rec' <=> k \in rec)
  BY <1>0, <1>8, <1>9 DEF Launched
<1>10. CASE \E g \in Gor : Goroutine(g)
  BY <1>1, <1>2, <1>7, <1>9, <1>10
<1>11. CASE Crash
  BY <1>0, <1>11 DEF Crash
<1>12. CASE Restart
  BY <1>1, <1>12 DEF Restart
<1>13. CASE Recover
  BY <1>1, <1>2, <1>13 DEF Recover, RecoverList, RecoverProbe, RecoverQueued, RecoverRunning
<1>14. ASSUME NEW j \in Ref, Exit(j)
       PROVE  rec' = rec /\ (proc[k] # "running" => proc'[k] = proc[k])
  BY <1>0, <1>14 DEF Exit
<1>15. ASSUME NEW j \in Ref, Evict(j)
       PROVE  /\ proc' = proc /\ rec' = rec \ {j}
              /\ proc[j] \in Exited /\ \A g \in Gor : Busy(g) => gor[g].try # j
  BY <1>15 DEF Evict, Busy
<1>16. CASE \E j \in Ref : Exit(j) \/ Evict(j)
  BY <1>14, <1>15, <1>16
<1>17. CASE UNCHANGED vars
  BY <1>1, <1>17 DEF vars
<1> QED BY <1>3, <1>4, <1>5, <1>6, <1>10, <1>11, <1>12, <1>13, <1>16, <1>17 DEF Next

\* An attempt a goroutine has launched, or that Recover looks at, is not about
\* to be launched.
LEMMA WatchedUnlaunched ==
    ASSUME AttemptInv, NEW k \in Ref,
           sched # "up" \/ \E g \in Gor : Busy(g) /\ gor[g].pc \notin PreLaunch /\ gor[g].try = k
    PROVE  Unlaunched(k)
BY DEF AttemptInv, PreLaunchUnique, RecoverQuiet, Unlaunched, PreLaunch, Busy

\* A process that exited with 0, or with the skip code, and the two verdicts.
LEMMA VerdictOfRange ==
    \A p : /\ VerdictOf(p) \in Verdict
           /\ VerdictOf(p) = "success" <=> p = "ok"
           /\ VerdictOf(p) = "skipped" <=> p = "skip"
BY DEF VerdictOf, Verdict

\* Probe's answers.
LEMMA ProbeRange ==
    \A k : /\ Probe(k) \in Phase
           /\ Probe(k) \in {"success", "skipped"} => VerdictOf(proc[k]) = Probe(k)
           /\ Seen(k) \in Verdict \cup {"running"}
BY VerdictOfRange DEF Probe, Phase, Seen, Verdict

\* An attempt seen to have failed is never seen otherwise again.
LEMMA FailureStays ==
    ASSUME AttemptInv, [Next]_vars, NEW k \in Ref, Unlaunched(k), Seen(k) = "failure"
    PROVE  Seen(k)' = "failure"
<1>1. k \notin rec \/ proc[k] # "running"
  BY DEF Seen, Probe
<1>2. k \notin rec => k \notin rec'
  BY ExecutorStep
<1>3. CASE k \notin rec'
  BY <1>3 DEF Seen, Probe
<1>4. CASE k \in rec'
  <2>1. k \in rec /\ proc[k] # "running" /\ proc'[k] = proc[k]
    BY <1>1, <1>2, <1>4, ExecutorStep
  <2> QED BY <1>4, <2>1 DEF Seen, Probe
<1> QED BY <1>3, <1>4

\* What a goroutine sees of an attempt that has ended stays, but for a crash.
LEMMA SeenStays ==
    ASSUME AttemptInv, [Next]_vars, ~Crash, NEW k \in Ref, Unlaunched(k),
           Seen(k) # "running", NEW g \in Gor, Busy(g), gor[g].try = k
    PROVE  Seen(k)' = Seen(k)
<1>1. k \notin rec \/ proc[k] # "running"
  BY DEF Seen, Probe
<1>2. (k \notin rec => k \notin rec') /\ (k \in rec => k \in rec')
  BY ExecutorStep
<1>3. CASE k \notin rec
  BY <1>2, <1>3 DEF Seen, Probe
<1>4. CASE k \in rec
  <2>1. k \in rec' /\ proc'[k] = proc[k]
    BY <1>1, <1>2, <1>4, ExecutorStep
  <2> QED BY <1>4, <2>1 DEF Seen, Probe
<1> QED BY <1>3, <1>4

-----------------------------------------------------------------------------
(* Where a success comes from. *)

\* A verdict a goroutine holds afterwards, and did not hold before, is what it
\* has just polled.
LEMMA FinishStep ==
    ASSUME AttemptInv, [Next]_vars, NEW g \in Gor,
           gor'[g].pc = "finish", gor'[g].out \in {"success", "skipped"}
    PROVE  \/ gor[g] = gor'[g]
           \/ gor[g].pc = "poll" /\ gor'[g].try = gor[g].try /\ gor'[g].out = Probe(gor[g].try)
<1> DEFINE Done == gor'[g].pc = "finish" /\ gor'[g].out \in {"success", "skipped"}
           Old == gor'[g] = gor[g]
           Set(h, r) == gor' = [gor EXCEPT ![h] = r]
<1>0. gor \in [Gor -> GorRec]
  BY DEF AttemptInv, TypeOK
<1>a. Done
  OBVIOUS
<1>b. ASSUME NEW h \in Gor, NEW r, Set(h, r), h # g \/ r.pc # "finish" \/ r.out = "failure"
      PROVE  Old
  BY <1>0, <1>a, <1>b
<1>1. CASE gor' = gor
  BY <1>1
<1>2. CASE Tick
  BY <1>1, <1>2, <1>b DEF Tick, ListRuns, ProcessRun, ProcessRunTimeout, AdmitSkip, Dispatch
<1>3. CASE Operator \/ CancelAttempt \/ WriteBack \/ Restart
  BY <1>1, <1>3 DEF Operator, CancelRun, RetryTask, MarkTask, MarkRun, CancelAttempt, WriteBack,
                    CancelWrite, TimeoutWrite, RetryWrite, MarkWrite, Writing, Restart
<1>4. ASSUME NEW h \in Gor, Goroutine(h), ~Poll(h)
      PROVE  Old
  <2>1. CASE PrepareFails(h)
    BY <1>b, <2>1 DEF PrepareFails, Conclude
  <2>2. CASE TaskCancelled(h)
    BY <1>b, <2>2 DEF TaskCancelled, Stop, Go, Idle
  <2>3. CASE Launch(h)
    BY <1>b, <2>3 DEF Launch, Conclude, Go
  <2>4. CASE GiveBack(h) \/ MarkRunning(h) \/ Finalize(h)
    BY <1>b, <2>4 DEF GiveBack, MarkRunning, Finalize, Stop, Go, Idle
  <2> QED BY <1>4, <2>1, <2>2, <2>3, <2>4 DEF Goroutine
<1>5. ASSUME NEW h \in Gor, Poll(h)
      PROVE  Old \/ (gor[g].pc = "poll" /\ gor'[g].try = gor[g].try /\ gor'[g].out = Probe(gor[g].try))
  <2>1. CASE h # g
    BY <1>0, <1>5, <2>1 DEF Poll, Conclude
  <2>2. CASE h = g
    BY <1>0, <1>5, <1>a, <2>2 DEF Poll, Conclude
  <2> QED BY <2>1, <2>2
<1>6. CASE \E h \in Gor : Goroutine(h)
  BY <1>4, <1>5, <1>6
<1>7. CASE Crash
  BY <1>7, <1>a DEF Crash, Idle
<1>8. CASE Recover
  <2>1. ASSUME NEW h \in Gor, NEW k, Reattach(h, k) PROVE Old
    BY <1>b, <2>1 DEF Reattach
  <2> QED BY <1>1, <1>8, <2>1 DEF Recover, RecoverList, RecoverProbe, RecoverQueued, RecoverRunning
<1>9. CASE \E k \in Ref : Exit(k) \/ Evict(k)
  BY <1>1, <1>9 DEF Exit, Evict
<1>10. CASE UNCHANGED vars
  BY <1>1, <1>10 DEF vars
<1> QED BY <1>2, <1>3, <1>6, <1>7, <1>8, <1>9, <1>10 DEF Next

\* What Recover is about to write is what it has just probed.
LEMMA RecoverStep ==
    ASSUME AttemptInv, [Next]_vars, rcv'.pc \in {"writeq", "writer"}
    PROVE  \/ rcv' = rcv
           \/ /\ rcv.pc \in {"probeq", "prober"} /\ rcv'.snap = rcv.snap
              /\ rcv'.phase = Probe(rcv.snap.ref)
<1>1. \A pc : RcvAt(pc).pc = pc
  BY DEF RcvAt
<1>2. CASE Tick \/ Operator \/ CancelAttempt \/ WriteBack
  BY <1>2 DEF Tick, ListRuns, ProcessRun, ProcessRunTimeout, AdmitSkip, Dispatch, Operator,
              CancelRun, RetryTask, MarkTask, MarkRun, CancelAttempt, WriteBack,
              CancelWrite, TimeoutWrite, RetryWrite, MarkWrite, Writing
<1>3. CASE \E g \in Gor : Goroutine(g)
  BY <1>3 DEF Goroutine, PrepareFails, TaskCancelled, Launch, GiveBack, MarkRunning, Poll, Finalize
<1>4. CASE Crash \/ Restart
  BY <1>1, <1>4 DEF Crash, Restart, NoRcv
<1>5. CASE RecoverList
  BY <1>1, <1>5 DEF RecoverList, RecoverSkip, RecoverDone, ToRunning, NoRcv
<1>6. CASE RecoverProbe
  BY <1>1, <1>6 DEF RecoverProbe, RecoverSkip, RecoverDone, ToRunning, NoRcv
<1>7. CASE \E g \in Gor : RecoverQueued(g) \/ RecoverRunning(g)
  BY <1>1, <1>7 DEF RecoverQueued, RecoverRunning, RecoverDone, ToRunning, NoRcv
<1>8. CASE UNCHANGED vars \/ \E k \in Ref : Exit(k) \/ Evict(k)
  BY <1>8 DEF vars, Exit, Evict
<1> QED BY <1>2, <1>3, <1>4, <1>5, <1>6, <1>7, <1>8 DEF Next, Recover

\* The attempts somebody is about to report on.
LEMMA ReportedRefs ==
    ASSUME AttemptInv
    PROVE  /\ \A g \in Gor : Busy(g) => gor[g].try \in Ref
           /\ rcv.pc \in {"probeq", "writeq", "prober", "writer"} =>
                rcv.snap.ref \in Ref /\ Unlaunched(rcv.snap.ref)
           /\ \A g \in Gor : Busy(g) /\ gor[g].pc \notin PreLaunch => Unlaunched(gor[g].try)
<1>1. \A g \in Gor : Busy(g) => gor[g].try \in Ref
  BY DEF AttemptInv, AttemptBound, TypeOK, Row, Ref
<1>2. ASSUME rcv.pc \in {"probeq", "writeq", "prober", "writer"}
      PROVE  rcv.snap.ref \in Ref /\ sched # "up"
  BY <1>2 DEF AttemptInv, RecoverQuiet, TypeOK, Row, Ref
<1> QED BY <1>1, <1>2, WatchedUnlaunched

\* No step takes back the exit code behind a success somebody will report.
LEMMA OutcomeStep == ASSUME AttemptInv, OutcomeInv, [Next]_vars PROVE OutcomeInv'
<1>0. ASSUME NEW k \in Ref, Unlaunched(k), VerdictOf(proc[k]) \in {"success", "skipped"}
      PROVE  VerdictOf(proc'[k]) = VerdictOf(proc[k])
  BY <1>0, VerdictOfRange, ExecutorStep
<1>1. ASSUME NEW g \in Gor, gor'[g].pc = "finish", gor'[g].out \in {"success", "skipped"}
      PROVE  VerdictOf(proc'[gor'[g].try]) = gor'[g].out
  <2> DEFINE k == gor[g].try
  <2>1. gor[g].pc \in {"poll", "finish"} /\ gor'[g].try = k /\ VerdictOf(proc[k]) = gor'[g].out
    BY <1>1, FinishStep, ProbeRange DEF OutcomeInv
  <2>2. k \in Ref /\ Unlaunched(k)
    BY <2>1, ReportedRefs DEF Busy, PreLaunch
  <2> QED BY <1>0, <1>1, <2>1, <2>2
<1>2. ASSUME rcv'.pc \in {"writeq", "writer"}, rcv'.phase \in {"success", "skipped"}
      PROVE  VerdictOf(proc'[rcv'.snap.ref]) = rcv'.phase
  <2>1. /\ rcv.pc \in {"probeq", "writeq", "prober", "writer"}
        /\ rcv'.snap = rcv.snap /\ VerdictOf(proc[rcv.snap.ref]) = rcv'.phase
    BY <1>2, RecoverStep, ProbeRange DEF OutcomeInv
  <2> QED BY <1>0, <1>2, <2>1, ReportedRefs
<1> QED BY <1>1, <1>2 DEF OutcomeInv

\* A guarded write of a verdict that takes effect meets its own ref.
LEMMA GuardedVerdict ==
    ASSUME NEW k, NEW out \in Verdict, NEW new,
           UpdateTaskInstanceGuarded(new, k), new.state = VerdictState(out, k),
           row'.state \in {"success", "skipped"}, row'.state # row.state
    PROVE  row.ref = k /\ out = row'.state
<1>1. row' = new /\ row.ref = k
  BY DEF UpdateTaskInstanceGuarded, Applies
<1> QED BY <1>1, FailureStateRange DEF VerdictState

\* A success or a skip that is not marked is that of the row's own process.
LEMMA GenuineStep ==
    ASSUME AttemptInv, OutcomeInv, [Next]_vars,
           row'.state \in {"success", "skipped"}, row'.state # row.state,
           mu.op \notin {"mark_success", "mark_skipped"}
    PROVE  row.ref \in Ref /\ VerdictOf(proc[row.ref]) = row'.state
<1> DEFINE Wins == row'.state \in {"success", "skipped"} /\ row'.state # row.state
<1>0. Wins
  OBVIOUS
<1>1. ~Tick /\ ~Operator /\ ~CancelAttempt /\ ~Crash /\ ~Restart
  BY <1>0 DEF Tick, ListRuns, ProcessRun, ProcessRunTimeout, AdmitSkip, Dispatch, Requeue, Requeued,
              Unref, Operator, CancelRun, RetryTask, MarkTask, MarkRun, CancelAttempt, Crash, Restart
<1>2. ~WriteBack
  <2>1. ~CancelWrite /\ ~RetryWrite
    BY <1>0 DEF CancelWrite, RetryWrite, ClearedRow, Unref, SetState
  <2>2. ~TimeoutWrite
    BY <1>0 DEF TimeoutWrite, UpdateTaskInstanceGuarded, SetState
  <2>3. ASSUME NEW op \in MarkOp PROVE ~MarkWrite(op)
    BY <1>0 DEF MarkWrite, Writing, MarkOp, MarkTarget, SetState
  <2> QED BY <2>1, <2>2, <2>3 DEF WriteBack
<1>3. ASSUME NEW g \in Gor, Goroutine(g) PROVE Finalize(g)
  <2>1. ~PrepareFails(g) /\ ~TaskCancelled(g) /\ ~Launch(g) /\ ~Poll(g)
    BY <1>0 DEF PrepareFails, TaskCancelled, Launch, Poll
  <2>2. ~GiveBack(g)
    BY <1>0 DEF GiveBack, UpdateTaskInstanceGuarded
  <2>3. ~MarkRunning(g)
    BY <1>0 DEF MarkRunning
  <2> QED BY <1>3, <2>1, <2>2, <2>3 DEF Goroutine
<1>4. ASSUME NEW g \in Gor, Finalize(g)
      PROVE  row.ref \in Ref /\ VerdictOf(proc[row.ref]) = row'.state
  <2>1. gor[g].pc = "finish" /\ gor[g].out \in Verdict
    BY <1>4 DEF Finalize, AttemptInv, TypeOK, GorRec
  <2>2. row.ref = gor[g].try /\ gor[g].out = row'.state
    <3> DEFINE new == [state |-> VerdictState(gor[g].out, gor[g].try), try |-> gor[g].try, ref |-> gor[g].try]
    <3>1. UpdateTaskInstanceGuarded(new, gor[g].try) /\ new.state = VerdictState(gor[g].out, gor[g].try)
      BY <1>4 DEF Finalize
    <3> HIDE DEF new
    <3> QED BY <1>0, <2>1, <3>1, GuardedVerdict
  <2> QED BY <1>0, <2>1, <2>2, ReportedRefs DEF OutcomeInv, Busy
<1>5. ~RecoverList /\ ~RecoverProbe
  BY <1>0 DEF RecoverList, RecoverProbe
<1>6. ASSUME NEW g \in Gor, RecoverQueued(g)
      PROVE  row.ref \in Ref /\ VerdictOf(proc[row.ref]) = row'.state
  <2> DEFINE k == rcv.snap.ref
             new == SetState(rcv.snap, VerdictState(rcv.phase, k))
  <2>1. rcv.pc = "writeq" /\ k \in Ref
    BY <1>6, ReportedRefs DEF RecoverQueued
  <2>2. rcv.phase \in Verdict /\ UpdateTaskInstanceGuarded(new, k)
    BY <1>0, <1>6 DEF RecoverQueued, UpdateTaskInstanceGuarded, SetState
  <2>3. new.state = VerdictState(rcv.phase, k)
    BY DEF SetState
  <2> HIDE DEF new
  <2>4. row.ref = k /\ rcv.phase = row'.state
    BY <1>0, <2>2, <2>3, GuardedVerdict
  <2> QED BY <1>0, <2>1, <2>4 DEF OutcomeInv
<1>7. ASSUME NEW g \in Gor, RecoverRunning(g)
      PROVE  row.ref \in Ref /\ VerdictOf(proc[row.ref]) = row'.state
  <2> DEFINE k == rcv.snap.ref
             out == IF rcv.phase \in Verdict THEN rcv.phase ELSE "failure"
             new == SetState(rcv.snap, VerdictState(out, k))
  <2>1. rcv.pc = "writer" /\ k \in Ref
    BY <1>7, ReportedRefs DEF RecoverRunning
  <2>2. out \in Verdict /\ UpdateTaskInstanceGuarded(new, k)
    BY <1>0, <1>7 DEF RecoverRunning, Verdict
  <2>3. new.state = VerdictState(out, k)
    BY DEF SetState
  <2>a. out \in {"success", "skipped"} => out = rcv.phase
    OBVIOUS
  <2> HIDE DEF new, out
  <2>4. row.ref = k /\ out = row'.state
    BY <1>0, <2>2, <2>3, GuardedVerdict
  <2> QED BY <1>0, <2>1, <2>4, <2>a DEF OutcomeInv
<1>8. ~UNCHANGED vars /\ \A k \in Ref : ~Exit(k) /\ ~Evict(k)
  BY <1>0 DEF vars, Exit, Evict
<1> QED BY <1>1, <1>2, <1>3, <1>4, <1>5, <1>6, <1>7, <1>8 DEF Next, Recover

\* A task shows success, or skipped, only when the process of the attempt its
\* row names exited so, or an operator marked it: a goroutine of an earlier,
\* cancelled and retried attempt never decides the new one, with any number of
\* crashes, lost replies and adopted attempts.
THEOREM OutcomesAreGenuine == Spec => GenuineOutcome
<1>1. Init => OutcomeInv
  BY DEF Init, OutcomeInv, Idle, NoRcv, RcvAt
<1>2. AttemptInv /\ OutcomeInv /\ [Next]_vars => OutcomeInv'
  BY OutcomeStep
<1>3. AttemptInv /\ OutcomeInv /\ [Next]_vars =>
        [row'.state \in {"success", "skipped"} /\ row'.state # row.state
           => \/ mu.op \in {"mark_success", "mark_skipped"}
              \/ row.ref \in Ref /\ VerdictOf(proc[row.ref]) = row'.state]_vars
  BY GenuineStep
<1> QED BY <1>1, <1>2, <1>3, AttemptInvariant, PTL DEF Spec, GenuineOutcome

-----------------------------------------------------------------------------
(* The refinement: Agreed is preserved, with AttemptInv. *)

\* A row without a ref, or a finished one, disagrees with nobody.
LEMMA QuietRow ==
    ASSUME AttemptInv, Terminal \/ row.ref = NoRef
    PROVE  QueuedUntilMarked /\ RetryAgreed /\ RecoverAgreed
<1>1. \A g \in Gor : Busy(g) => gor[g].try # NoRef
  BY ReportedRefs DEF Ref, NoRef
<1>2. rcv.pc \in {"probeq", "writeq", "prober", "writer"} => rcv.snap.ref # NoRef
  BY ReportedRefs DEF Ref, NoRef
<1>3. row.state = "up_for_retry" => ~Terminal
  BY DEF Terminal, TerminalTask
<1>4. QueuedUntilMarked /\ RetryAgreed
  BY <1>1, <1>3 DEF QueuedUntilMarked, RetryAgreed, Busy, PreLaunch
<1> QED BY <1>2, <1>3, <1>4 DEF RecoverAgreed

\* The same of the state a step leads to.
LEMMA QuietRowNext ==
    AttemptInv' /\ (Terminal \/ row.ref = NoRef)'
      => (QueuedUntilMarked /\ RetryAgreed /\ RecoverAgreed)'
<1> DEFINE Quiet == Terminal \/ row.ref = NoRef
           Calm  == QueuedUntilMarked /\ RetryAgreed /\ RecoverAgreed
<1>1. AttemptInv /\ Quiet => Calm
  BY QuietRow
<1> HIDE DEF Quiet, Calm
<1>2. AttemptInv' /\ Quiet' => Calm'
  BY <1>1, PTL
<1> QED BY <1>2 DEF Quiet, Calm

\* Steps that leave goroutines, Recover and the scheduler alone cannot part two
\* goroutines on one attempt, nor a goroutine and Recover.
LEMMA QuietTwins ==
    ASSUME LifecycleInv, [Next]_vars, UNCHANGED <<gor, rcv, sched>>
    PROVE  Twins' /\ RecoverSees'
<1>0. ~Crash
  BY DEF Crash
<1>1. ASSUME NEW g \in Gor, gor[g].pc = "finish", gor[g].out = Seen(gor[g].try)
      PROVE  gor[g].out = Seen(gor[g].try)'
  <2>1. gor[g].try \in Ref /\ Unlaunched(gor[g].try)
    BY <1>1, ReportedRefs DEF LifecycleInv, Busy, PreLaunch
  <2>2. gor[g].out # "running"
    BY DEF LifecycleInv, AttemptInv, TypeOK, GorRec, Verdict
  <2>3. Seen(gor[g].try)' = Seen(gor[g].try)
    BY <1>0, <1>1, <2>1, <2>2, SeenStays DEF LifecycleInv, Busy
  <2> QED BY <1>1, <2>3
<1>2. Twins'
  <2>1. Twins
    BY DEF LifecycleInv, Agreed
  <2> QED BY <1>1, <2>1 DEF Twins, Busy
<1>3. ASSUME rcv.pc = "writer", rcv.phase # "running", NEW g \in Gor, Busy(g), gor[g].try = rcv.snap.ref
      PROVE  Seen(rcv.snap.ref)' = IF rcv.phase = "unknown" THEN "failure" ELSE rcv.phase
  <2>1. rcv.snap.ref \in Ref /\ Unlaunched(rcv.snap.ref)
    BY <1>3, ReportedRefs DEF LifecycleInv
  <2>2. Seen(rcv.snap.ref) = IF rcv.phase = "unknown" THEN "failure" ELSE rcv.phase
    BY <1>3 DEF LifecycleInv, Agreed, RecoverSees
  <2>3. Seen(rcv.snap.ref)' = Seen(rcv.snap.ref)
    BY <1>0, <1>3, <2>1, <2>2, SeenStays DEF LifecycleInv
  <2> QED BY <2>2, <2>3
<1>4. RecoverSees'
  BY <1>3 DEF RecoverSees, Busy
<1> QED BY <1>2, <1>4

\* If the row stays too, so does all that is agreed on it.
LEMMA QuietAgreed ==
    ASSUME LifecycleInv, [Next]_vars, UNCHANGED <<row, gor, rcv, sched>>
    PROVE  QueuedUntilMarked' /\ RetryAgreed' /\ RecoverAgreed'
<1>1. QueuedUntilMarked'
  BY DEF LifecycleInv, Agreed, QueuedUntilMarked, Terminal
<1>2. ASSUME NEW k \in Ref, Unlaunched(k), Seen(k) = "failure" PROVE Seen(k)' = "failure"
  BY <1>2, FailureStays DEF LifecycleInv
<1>3. RetryAgreed'
  <2> SUFFICES ASSUME row.state = "up_for_retry", NEW g \in Gor, Busy(g), row.ref = gor[g].try
               PROVE  /\ gor[g].pc \in Resumed /\ Seen(gor[g].try)' = "failure"
                      /\ gor[g].pc = "finish" => gor[g].out = "failure"
    BY DEF RetryAgreed, Busy
  <2>1. /\ gor[g].pc \in Resumed /\ Seen(gor[g].try) = "failure"
        /\ gor[g].pc = "finish" => gor[g].out = "failure"
    BY DEF LifecycleInv, Agreed, RetryAgreed
  <2>2. gor[g].try \in Ref /\ Unlaunched(gor[g].try)
    BY <2>1, ReportedRefs DEF LifecycleInv, Resumed, PreLaunch
  <2> QED BY <1>2, <2>1, <2>2
<1>4. RecoverAgreed'
  <2>1. RecoverAgreed
    BY DEF LifecycleInv, Agreed
  <2>2. rcv.pc \in {"prober", "writer"} => rcv.snap.ref \in Ref /\ Unlaunched(rcv.snap.ref)
    BY ReportedRefs DEF LifecycleInv
  <2> QED BY <1>2, <2>1, <2>2 DEF RecoverAgreed, Terminal
<1> QED BY <1>1, <1>3, <1>4

\* The snapshot of an operation in progress survives a guarded write that keeps
\* the attempt number, or gives it back.
LEMMA SnapStep ==
    ASSUME LifecycleInv, mu' = mu,
           \/ row' = row
           \/ /\ row.ref # NoRef
              /\ row'.try = row.try \/ (row'.try = row.try - 1 /\ row'.ref = NoRef)
    PROVE  SnapAgreed'
<1>1. SnapAgreed /\ row.try \in Nat
  BY DEF LifecycleInv, Agreed, AttemptInv, TypeOK, Row
<1>2. CASE row' = row
  BY <1>1, <1>2 DEF SnapAgreed, Locked
<1>3. CASE row.ref # NoRef
  BY <1>1, <1>3 DEF SnapAgreed, Locked
<1> QED BY <1>2, <1>3

\* The steps of the tick, of operators and of the executor that leave the row,
\* the goroutines and Recover alone.
LEMMA QuietStep ==
    ASSUME LifecycleInv, [Next]_vars, UNCHANGED <<row, gor, rcv, sched>>,
           mu' = mu \/ ~Locked' \/ mu'.snap = row \/ (Locked /\ mu'.snap = mu.snap)
    PROVE  Agreed'
<1>1. SnapAgreed'
  BY DEF LifecycleInv, Agreed, SnapAgreed, Locked
<1> QED BY <1>1, QuietTwins, QuietAgreed DEF Agreed

\* The tick: a requeued row has no ref; a dispatched one has a ref of its own.
LEMMA TickAgreed == ASSUME LifecycleInv, [Next]_vars, Tick PROVE Agreed'
<1>0. AttemptInv' /\ AttemptInv
  BY NextInv DEF LifecycleInv
<1>1. CASE ListRuns \/ AdmitSkip
  BY <1>1, QuietStep DEF ListRuns, AdmitSkip
<1>2. CASE ProcessRun \/ ProcessRunTimeout
  <2>1. UNCHANGED <<gor, rcv, sched>> /\ ~Locked /\ (mu' = mu \/ mu'.snap = row')
    BY <1>2 DEF ProcessRun, ProcessRunTimeout
  <2>2. CASE row' = row
    BY <2>1, <2>2, QuietStep
  <2>3. CASE row'.ref = NoRef
    <3>1. SnapAgreed'
      BY <2>1 DEF SnapAgreed, Locked
    <3>2. (QueuedUntilMarked /\ RetryAgreed /\ RecoverAgreed)'
      BY <1>0, <2>3, QuietRowNext
    <3> QED BY <2>1, <3>1, <3>2, QuietTwins DEF Agreed
  <2> QED BY <1>2, <2>2, <2>3 DEF ProcessRun, ProcessRunTimeout, Requeue, Requeued, Unref
<1>3. ASSUME NEW g \in Gor, Dispatch(g) PROVE Agreed'
  <2> DEFINE k == row.try + 1
  <2>1. /\ sched = "up" /\ sched' = "up" /\ UNCHANGED <<rcv, mu, proc, rec>> /\ ~Locked
        /\ row'.state = "queued" /\ row'.ref = k
    BY <1>3 DEF Dispatch
  <2>2. rcv.pc = "none"
    BY <1>0, <2>1 DEF AttemptInv, RecoverQuiet
  <2>3. gor'[g].pc = "check" /\ gor'[g].try = k /\ \A h \in Gor \ {g} : gor'[h] = gor[h]
    BY <1>0, <1>3 DEF Dispatch, AttemptInv, TypeOK
  <2>4. \A h \in Gor : Busy(h) => gor[h].try # k
    BY <1>0 DEF AttemptInv, AttemptBound, TypeOK, Row
  <2>5. \A j : Seen(j)' = Seen(j)
    BY <2>1 DEF Seen, Probe
  <2>6. Twins'
    BY <2>1, <2>3, <2>4, <2>5 DEF Twins, Busy, LifecycleInv, Agreed
  <2>7. QueuedUntilMarked' /\ RetryAgreed'
    BY <2>1 DEF QueuedUntilMarked, RetryAgreed
  <2>8. RecoverAgreed' /\ RecoverSees' /\ SnapAgreed'
    BY <2>1, <2>2 DEF RecoverAgreed, RecoverSees, SnapAgreed, Locked
  <2> QED BY <2>6, <2>7, <2>8 DEF Agreed
<1> QED BY <1>1, <1>2, <1>3 DEF Tick

\* Operators begin from the row as it is, and the kill keeps the snapshot.
LEMMA OperatorAgreed ==
    ASSUME LifecycleInv, [Next]_vars, Operator \/ CancelAttempt PROVE Agreed'
<1>1. UNCHANGED <<row, gor, rcv, sched>>
  BY DEF Operator, CancelRun, RetryTask, MarkTask, MarkRun, CancelAttempt
<1>2. CancelAttempt => Locked /\ mu'.snap = mu.snap
  BY DEF CancelAttempt
<1>3. Operator => mu' = mu \/ mu'.snap = row
  BY DEF Operator, CancelRun, RetryTask, MarkTask, MarkRun, Begin
<1> QED BY <1>1, <1>2, <1>3, QuietStep

\* What an operation writes is finished, or has no ref.
LEMMA WriteBackRow == ASSUME WriteBack PROVE row' = row \/ Terminal' \/ row'.ref = NoRef
<1>1. \A r : SetState(r, "cancelled").state \in TerminalTask /\ SetState(r, "timed_out").state \in TerminalTask
  BY DEF SetState, TerminalTask
<1>2. \A r, op : SetState(r, MarkTarget(op)).state \in TerminalTask
  BY DEF SetState, TerminalTask, MarkTarget
<1>3. CASE CancelWrite \/ TimeoutWrite
  BY <1>1, <1>3 DEF CancelWrite, TimeoutWrite, UpdateTaskInstanceGuarded, Terminal
<1>4. CASE RetryWrite
  BY <1>4 DEF RetryWrite, ClearedRow, Unref
<1>5. CASE \E op \in MarkOp : MarkWrite(op)
  BY <1>2, <1>5 DEF MarkWrite, Terminal
<1> QED BY <1>3, <1>4, <1>5 DEF WriteBack

\* So it disagrees with nobody.
LEMMA WriteBackAgreed == ASSUME LifecycleInv, [Next]_vars, WriteBack PROVE Agreed'
<1>1. UNCHANGED <<gor, rcv, sched>> /\ mu' = Free
  BY DEF WriteBack, CancelWrite, TimeoutWrite, RetryWrite, MarkWrite, Writing
<1>2. ~Locked'
  BY <1>1 DEF Locked, Free
<1>3. row' = row \/ Terminal' \/ row'.ref = NoRef
  BY WriteBackRow
<1>4. CASE row' = row
  BY <1>1, <1>2, <1>4, QuietStep
<1>5. CASE Terminal' \/ row'.ref = NoRef
  <2>1. SnapAgreed'
    BY <1>2 DEF SnapAgreed
  <2>2. AttemptInv'
    BY NextInv DEF LifecycleInv
  <2>3. (QueuedUntilMarked /\ RetryAgreed /\ RecoverAgreed)'
    BY <1>5, <2>2, QuietRowNext
  <2> QED BY <1>1, <2>1, <2>3, QuietTwins DEF Agreed
<1> QED BY <1>3, <1>4, <1>5

\* A goroutine that has not launched yet runs only once Recover is done, alone
\* on its attempt, and the row is not up for retry under it.
LEMMA EarlyGor ==
    ASSUME LifecycleInv, NEW g \in Gor, gor[g].pc \in PreLaunch \cup {"mark"}
    PROVE  /\ sched = "up" /\ rcv.pc = "none"
           /\ \A h \in Gor : h # g /\ Busy(h) => gor[h].try # gor[g].try
           /\ row.ref = gor[g].try => row.state # "up_for_retry"
<1>1. Busy(g) /\ gor[g].pc \notin Resumed
  BY DEF Busy, PreLaunch, Resumed
<1>2. sched = "up"
  BY <1>1 DEF LifecycleInv, Agreed, Twins
<1>3. rcv.pc = "none"
  BY <1>2 DEF LifecycleInv, AttemptInv, RecoverQuiet
<1>4. ASSUME NEW h \in Gor, h # g, Busy(h) PROVE gor[h].try # gor[g].try
  BY <1>1, <1>4 DEF LifecycleInv, Agreed, Twins
<1>5. row.ref = gor[g].try => row.state # "up_for_retry"
  BY <1>1 DEF LifecycleInv, Agreed, RetryAgreed
<1> QED BY <1>2, <1>3, <1>4, <1>5

\* A goroutine alone on its attempt moves, and the row is left alone: nothing
\* is agreed about it but that the row stays queued until it is marked.
LEMMA EarlyStep ==
    ASSUME LifecycleInv, [Next]_vars, NEW g \in Gor, gor[g].pc \in PreLaunch \cup {"mark"},
           NEW r, gor' = [gor EXCEPT ![g] = r],
           r.pc = "idle" \/ (r.try = gor[g].try /\ r.pc # "idle"),
           UNCHANGED <<row, mu, sched, rcv>>
    PROVE  Agreed'
<1>0. AttemptInv /\ AttemptInv' /\ ~Crash
  BY NextInv DEF LifecycleInv, Crash
<1>1. gor'[g] = r /\ \A h \in Gor \ {g} : gor'[h] = gor[h]
  BY <1>0 DEF AttemptInv, TypeOK
<1>2. /\ sched = "up" /\ rcv.pc = "none"
      /\ \A h \in Gor : h # g /\ Busy(h) => gor[h].try # gor[g].try
      /\ row.ref = gor[g].try => row.state # "up_for_retry"
  BY EarlyGor
<1>3. QueuedUntilMarked'
  BY <1>1 DEF LifecycleInv, Agreed, QueuedUntilMarked, Terminal, PreLaunch
<1>4. ASSUME NEW h \in Gor \ {g}, gor[h].pc \in Resumed, Seen(gor[h].try) # "running"
      PROVE  Seen(gor[h].try)' = Seen(gor[h].try)
  <2>1. Busy(h) /\ gor[h].pc \notin PreLaunch
    BY <1>4 DEF Busy, Resumed, PreLaunch
  <2> QED BY <1>0, <1>4, <2>1, ReportedRefs, SeenStays
<1>5. RetryAgreed'
  <2> SUFFICES ASSUME row.state = "up_for_retry", NEW h \in Gor, Busy(h)', row.ref = gor'[h].try
               PROVE  /\ gor'[h].pc \in Resumed /\ Seen(gor[h].try)' = "failure"
                      /\ gor'[h].pc = "finish" => gor'[h].out = "failure"
    BY DEF RetryAgreed
  <2>1. h # g
    BY <1>1, <1>2 DEF Busy
  <2>2. Busy(h) /\ gor'[h] = gor[h]
    BY <1>1, <2>1 DEF Busy
  <2>3. /\ gor[h].pc \in Resumed /\ Seen(gor[h].try) = "failure"
        /\ gor[h].pc = "finish" => gor[h].out = "failure"
    BY <2>2 DEF LifecycleInv, Agreed, RetryAgreed
  <2> QED BY <1>4, <2>1, <2>2, <2>3
<1>6. Twins'
  <2> SUFFICES ASSUME NEW f \in Gor, NEW h \in Gor, f # h, Busy(f)', Busy(h)', gor'[f].try = gor'[h].try
               PROVE  /\ gor'[f].pc \in Resumed
                      /\ gor'[f].pc = "finish" => gor'[f].out = Seen(gor[f].try)'
    BY <1>2 DEF Twins
  <2>1. f # g /\ h # g
    BY <1>1, <1>2 DEF Busy
  <2>2. gor'[f] = gor[f] /\ gor'[h] = gor[h] /\ Busy(f) /\ Busy(h)
    BY <1>1, <2>1 DEF Busy
  <2>3. gor[f].pc \in Resumed /\ (gor[f].pc = "finish" => gor[f].out = Seen(gor[f].try))
    BY <2>2 DEF LifecycleInv, Agreed, Twins
  <2>4. gor[f].out # "running"
    BY <1>0 DEF AttemptInv, TypeOK, GorRec, Verdict
  <2> QED BY <1>4, <2>1, <2>2, <2>3, <2>4
<1>7. RecoverAgreed' /\ RecoverSees'
  BY <1>2 DEF RecoverAgreed, RecoverSees
<1>8. SnapAgreed'
  BY SnapStep
<1> QED BY <1>3, <1>5, <1>6, <1>7, <1>8 DEF Agreed

\* Whatever has launched nothing yet: prepare, the last look, the launch.
LEMMA PreLaunchAgreed ==
    ASSUME LifecycleInv, [Next]_vars, NEW g \in Gor,
           PrepareFails(g) \/ TaskCancelled(g) \/ Launch(g)
    PROVE  Agreed'
<1>1. gor[g].pc \in PreLaunch \cup {"mark"} /\ UNCHANGED <<row, mu, sched, rcv>>
  BY DEF PrepareFails, TaskCancelled, Launch, PreLaunch
<1>2. PICK r : /\ gor' = [gor EXCEPT ![g] = r]
               /\ r.pc = "idle" \/ (r.try = gor[g].try /\ r.pc # "idle")
  <2>1. CASE PrepareFails(g)
    <3> DEFINE r == [pc |-> "finish", try |-> gor[g].try, out |-> "failure"]
    <3>1. gor' = [gor EXCEPT ![g] = r] /\ r.pc = "finish" /\ r.try = gor[g].try
      BY <2>1 DEF PrepareFails, Conclude
    <3> QED BY <3>1
  <2>2. CASE TaskCancelled(g)
    BY <2>2 DEF TaskCancelled, Stop, Go, Idle
  <2>3. CASE Launch(g)
    BY <2>3 DEF Launch, Conclude, Go
  <2> QED BY <2>1, <2>2, <2>3
<1> QED BY <1>1, <1>2, EarlyStep

\* GiveBack: the row loses its ref, or the write is dropped.
LEMMA GiveBackAgreed ==
    ASSUME LifecycleInv, [Next]_vars, NEW g \in Gor, GiveBack(g) PROVE Agreed'
<1>0. AttemptInv /\ AttemptInv' /\ ~Crash
  BY NextInv DEF LifecycleInv, GiveBack, Crash
<1>1. gor[g].pc \in PreLaunch \cup {"mark"} /\ Busy(g) /\ UNCHANGED <<proc, rec, mu, sched, rcv>>
  BY DEF GiveBack, PreLaunch, Busy
<1>2. gor' = [gor EXCEPT ![g] = Idle] /\ Idle.pc = "idle"
  BY DEF GiveBack, Stop, Idle
<1>3. CASE row' = row
  BY <1>1, <1>2, <1>3, EarlyStep
<1>4. CASE Applies(gor[g].try) /\ row' = [state |-> "scheduled", try |-> gor[g].try - 1, ref |-> NoRef]
  <2>1. gor[g].try \in Ref /\ row.ref = gor[g].try /\ row.try = gor[g].try /\ row.ref # NoRef
    BY <1>0, <1>1, <1>4, ReportedRefs DEF Applies, AttemptInv, RowRef, Ref, NoRef
  <2>2. row'.try = row.try - 1 /\ row'.ref = NoRef
    BY <1>4, <2>1
  <2>3. QueuedUntilMarked' /\ RetryAgreed' /\ RecoverAgreed'
    BY <1>0, <2>2, QuietRowNext
  <2>4. SnapAgreed'
    BY <1>1, <2>1, <2>2, SnapStep
  <2>5. sched = "up" /\ rcv.pc = "none"
    BY <1>1, EarlyGor
  <2>6. gor'[g].pc = "idle" /\ \A h \in Gor \ {g} : gor'[h] = gor[h]
    BY <1>0, <1>2 DEF AttemptInv, TypeOK
  <2>7. \A j : Seen(j)' = Seen(j)
    BY <1>1 DEF Seen, Probe
  <2>8. Twins'
    BY <1>1, <2>5, <2>6, <2>7 DEF Twins, Busy, LifecycleInv, Agreed
  <2>9. RecoverSees'
    BY <1>1, <2>5 DEF RecoverSees
  <2> QED BY <2>3, <2>4, <2>8, <2>9 DEF Agreed
<1> QED BY <1>3, <1>4 DEF GiveBack, UpdateTaskInstanceGuarded

\* MarkRunning: nobody else is on the attempt when it is marked.
LEMMA MarkRunningAgreed ==
    ASSUME LifecycleInv, [Next]_vars, NEW g \in Gor, MarkRunning(g) PROVE Agreed'
<1> DEFINE k == gor[g].try
<1>0. AttemptInv /\ AttemptInv'
  BY NextInv DEF LifecycleInv
<1>1. gor[g].pc \in PreLaunch \cup {"mark"} /\ Busy(g) /\ UNCHANGED <<rec, mu, sched, rcv>>
  BY DEF MarkRunning, Busy
<1>2. CASE row' = row
  <2>1. PICK r : /\ gor' = [gor EXCEPT ![g] = r]
                 /\ r.pc = "idle" \/ (r.try = gor[g].try /\ r.pc # "idle")
    BY DEF MarkRunning, Stop, Go, Idle
  <2> QED BY <1>1, <1>2, <2>1, EarlyStep
<1>3. CASE Applies(k) /\ row' = [state |-> "running", try |-> k, ref |-> k] /\ Go(g, "poll") /\ proc' = proc
  <2>1. row.ref = k /\ row.try = k /\ row.ref # NoRef /\ row'.try = row.try
    BY <1>0, <1>1, <1>3, ReportedRefs DEF Applies, AttemptInv, RowRef, Ref, NoRef
  <2>2. SnapAgreed'
    BY <1>1, <2>1, SnapStep
  <2>3. /\ sched = "up" /\ rcv.pc = "none"
        /\ \A h \in Gor : h # g /\ Busy(h) => gor[h].try # k
    BY <1>1, EarlyGor
  <2>4. gor'[g].pc = "poll" /\ gor'[g].try = k /\ \A h \in Gor \ {g} : gor'[h] = gor[h]
    BY <1>0, <1>3 DEF AttemptInv, TypeOK, Go
  <2>5. \A j : Seen(j)' = Seen(j)
    BY <1>1, <1>3 DEF Seen, Probe
  <2>6. Twins'
    BY <1>1, <2>3, <2>4, <2>5 DEF Twins, Busy, Resumed, LifecycleInv, Agreed
  <2>7. QueuedUntilMarked' /\ RetryAgreed'
    BY <1>3, <2>3, <2>4 DEF QueuedUntilMarked, RetryAgreed, PreLaunch, Busy
  <2>8. RecoverSees' /\ RecoverAgreed'
    BY <1>1, <2>3 DEF RecoverSees, RecoverAgreed
  <2> QED BY <2>2, <2>6, <2>7, <2>8 DEF Agreed
<1> QED BY <1>2, <1>3 DEF MarkRunning

\* Poll: the goroutine concludes what it sees.
LEMMA PollAgreed == ASSUME LifecycleInv, [Next]_vars, NEW g \in Gor, Poll(g) PROVE Agreed'
<1>0. AttemptInv
  BY DEF LifecycleInv
<1>1. gor[g].pc = "poll" /\ UNCHANGED <<row, proc, rec, mu, sched, rcv>>
  BY DEF Poll
<1>2. /\ gor'[g].pc = "finish" /\ gor'[g].try = gor[g].try /\ gor'[g].out = Seen(gor[g].try)
      /\ \A h \in Gor \ {g} : gor'[h] = gor[h]
  BY <1>0 DEF Poll, Conclude, Seen, AttemptInv, TypeOK
<1>3. \A j : Seen(j)' = Seen(j)
  BY <1>1 DEF Seen, Probe
<1>4. \A h \in Gor : Busy(h)' <=> Busy(h)
  BY <1>1, <1>2 DEF Busy
<1>5. Twins'
  BY <1>1, <1>2, <1>3, <1>4 DEF Twins, Resumed, LifecycleInv, Agreed
<1>6. QueuedUntilMarked' /\ RetryAgreed'
  BY <1>1, <1>2, <1>3, <1>4
     DEF QueuedUntilMarked, RetryAgreed, Resumed, PreLaunch, Terminal, LifecycleInv, Agreed
<1>7. RecoverAgreed'
  BY <1>1, <1>3 DEF RecoverAgreed, Terminal, LifecycleInv, Agreed
<1>8. RecoverSees'
  BY <1>1, <1>2, <1>3, <1>4 DEF RecoverSees, LifecycleInv, Agreed
<1>9. SnapAgreed'
  BY <1>1, SnapStep
<1> QED BY <1>5, <1>6, <1>7, <1>8, <1>9 DEF Agreed

\* Finalize: a failure that leaves the row up for retry is what everybody else
\* on the attempt, Recover included, sees too.
LEMMA FinalizeAgreed ==
    ASSUME LifecycleInv, [Next]_vars, NEW g \in Gor, Finalize(g) PROVE Agreed'
<1> DEFINE k == gor[g].try
<1>0. AttemptInv /\ AttemptInv' /\ Agreed
  BY NextInv DEF LifecycleInv
<1>1. gor[g].pc = "finish" /\ Busy(g) /\ k \in Ref /\ UNCHANGED <<proc, rec, mu, sched, rcv>>
  BY <1>0, ReportedRefs DEF Finalize, Busy
<1>2. gor'[g].pc = "idle" /\ \A h \in Gor \ {g} : gor'[h] = gor[h]
  BY <1>0 DEF Finalize, Stop, Idle, AttemptInv, TypeOK
<1>3. \A j : Seen(j)' = Seen(j)
  BY <1>1 DEF Seen, Probe
<1>4. Twins'
  BY <1>0, <1>1, <1>2, <1>3 DEF Twins, Busy, Agreed
<1>5. RecoverSees'
  BY <1>0, <1>1, <1>2, <1>3 DEF RecoverSees, Busy, Agreed
<1>6. CASE row' = row
  <2>1. QueuedUntilMarked' /\ RetryAgreed'
    BY <1>0, <1>2, <1>3, <1>6 DEF QueuedUntilMarked, RetryAgreed, PreLaunch, Busy, Terminal, Agreed
  <2>2. RecoverAgreed'
    BY <1>0, <1>1, <1>3, <1>6 DEF RecoverAgreed, Terminal, Agreed
  <2>3. SnapAgreed'
    BY <1>1, <1>6, SnapStep
  <2> QED BY <1>4, <1>5, <2>1, <2>2, <2>3 DEF Agreed
<1>7. CASE Applies(k) /\ row' = [state |-> VerdictState(gor[g].out, k), try |-> k, ref |-> k]
  <2>1. row.ref = k /\ row.try = k /\ row.ref # NoRef /\ row'.try = row.try /\ row'.ref = k
    BY <1>0, <1>1, <1>7 DEF Applies, AttemptInv, RowRef, Ref, NoRef
  <2>2. SnapAgreed'
    BY <1>1, <2>1, SnapStep
  <2>3. Terminal' \/ (row'.state = "up_for_retry" /\ gor[g].out = "failure")
    BY <1>0, <1>7, FailureStateRange DEF Terminal, TerminalTask, VerdictState, AttemptInv, TypeOK,
                                         GorRec, Verdict
  <2>4. CASE Terminal'
    BY <1>0, <1>4, <1>5, <2>2, <2>4, QuietRowNext DEF Agreed
  <2>5. CASE row'.state = "up_for_retry" /\ gor[g].out = "failure"
    <3>1. ASSUME NEW h \in Gor, h # g, Busy(h), gor[h].try = k
          PROVE  /\ gor[h].pc \in Resumed /\ Seen(k) = "failure"
                 /\ gor[h].pc = "finish" => gor[h].out = "failure"
      BY <1>0, <1>1, <2>5, <3>1 DEF Twins, Agreed
    <3>2. QueuedUntilMarked'
      BY <1>2, <2>1, <3>1 DEF QueuedUntilMarked, Resumed, PreLaunch, Busy
    <3>3. RetryAgreed'
      BY <1>2, <1>3, <2>1, <3>1 DEF RetryAgreed, Busy
    <3>4. rcv.pc # "none" => sched = "recovering" /\ rcv.pc \notin {"probeq", "writeq"}
      BY <1>0, <1>1 DEF AttemptInv, RecoverQuiet
    <3>5. rcv.pc # "none" => Seen(k) = "failure"
      BY <1>0, <1>1, <2>5, <3>4 DEF Twins, Agreed
    <3>6. rcv.pc = "writer" /\ rcv.snap.ref = k => rcv.phase \in {"failure", "unknown", "running"}
      BY <1>0, <1>1, <3>5 DEF RecoverSees, Agreed
    <3>7. RecoverAgreed'
      BY <1>1, <1>3, <2>1, <2>5, <3>4, <3>5, <3>6 DEF RecoverAgreed
    <3> QED BY <1>4, <1>5, <2>2, <3>2, <3>3, <3>7 DEF Agreed
  <2> QED BY <2>3, <2>4, <2>5
<1> QED BY <1>6, <1>7 DEF Finalize, UpdateTaskInstanceGuarded

\* Crash and Restart: nobody is left to disagree.
LEMMA CrashAgreed ==
    ASSUME LifecycleInv, [Next]_vars, Crash \/ Restart PROVE Agreed'
<1>0. AttemptInv
  BY DEF LifecycleInv
<1>1. \A g \in Gor : gor'[g].pc = "idle"
  BY <1>0 DEF Crash, Restart, Idle, AttemptInv, RecoverQuiet, Busy
<1>2. rcv'.pc \in {"none", "listq"}
  BY DEF Crash, Restart, NoRcv, RcvAt
<1>3. QueuedUntilMarked' /\ Twins' /\ RetryAgreed'
  BY <1>1 DEF QueuedUntilMarked, Twins, RetryAgreed, Busy, PreLaunch
<1>4. RecoverAgreed' /\ RecoverSees'
  BY <1>2 DEF RecoverAgreed, RecoverSees
<1>5. SnapAgreed'
  <2>1. CASE Crash
    BY <2>1 DEF Crash, SnapAgreed, Locked, Free
  <2>2. CASE Restart
    BY <2>2, SnapStep DEF Restart
  <2> QED BY <2>1, <2>2
<1> QED BY <1>3, <1>4, <1>5 DEF Agreed

\* RecoverList, RecoverProbe: the snapshot is the row, the phase what is seen.
LEMMA RecoverReadsAgreed ==
    ASSUME LifecycleInv, [Next]_vars, RecoverList \/ RecoverProbe PROVE Agreed'
<1>0. AttemptInv /\ Agreed
  BY DEF LifecycleInv
<1>1. UNCHANGED <<row, gor, proc, rec, mu>>
  BY DEF RecoverList, RecoverProbe
<1>2. \A j : Seen(j)' = Seen(j)
  BY <1>1 DEF Seen, Probe
<1>3. rcv.pc # "none" /\ sched = "recovering" /\ sched' \in {"up", "recovering"}
  BY <1>0 DEF RecoverList, RecoverProbe, RecoverSkip, ToRunning, RecoverDone, AttemptInv, RecoverQuiet
<1>4. QueuedUntilMarked' /\ RetryAgreed'
  BY <1>0, <1>1, <1>2 DEF QueuedUntilMarked, RetryAgreed, Busy, Terminal, Agreed
<1>5. Twins'
  BY <1>0, <1>1, <1>2, <1>3 DEF Twins, Busy, Agreed
<1>6. SnapAgreed'
  BY <1>1, SnapStep
<1>7. CASE RecoverList
  <2>1. \/ rcv'.pc \in {"none", "listr"}
        \/ rcv'.pc = "probeq" /\ row.state = "queued"
        \/ rcv'.pc = "prober" /\ row.state = "running"
    BY <1>7 DEF RecoverList, RecoverSkip, ToRunning, RecoverDone, NoRcv, RcvAt
  <2>2. RecoverAgreed' /\ RecoverSees'
    BY <1>1, <2>1 DEF RecoverAgreed, RecoverSees
  <2> QED BY <1>4, <1>5, <1>6, <2>2 DEF Agreed
<1>8. CASE RecoverProbe
  <2>1. \/ rcv'.pc \in {"none", "listr"}
        \/ rcv.pc = "probeq" /\ rcv'.pc = "writeq" /\ rcv'.snap = rcv.snap
        \/ /\ rcv.pc = "prober" /\ rcv'.pc = "writer" /\ rcv'.snap = rcv.snap
           /\ rcv'.phase = Probe(rcv.snap.ref)
    BY <1>8 DEF RecoverProbe, RecoverSkip, ToRunning, RecoverDone, NoRcv, RcvAt
  <2>2. CASE rcv'.pc \in {"none", "listr"}
    BY <1>4, <1>5, <1>6, <2>2 DEF Agreed, RecoverAgreed, RecoverSees
  <2>3. CASE rcv.pc = "probeq" /\ rcv'.pc = "writeq" /\ rcv'.snap = rcv.snap
    <3>1. RecoverAgreed' /\ RecoverSees'
      BY <1>0, <1>1, <2>3 DEF Agreed, RecoverAgreed, RecoverSees, Terminal
    <3> QED BY <1>4, <1>5, <1>6, <3>1 DEF Agreed
  <2>4. CASE /\ rcv.pc = "prober" /\ rcv'.pc = "writer" /\ rcv'.snap = rcv.snap
             /\ rcv'.phase = Probe(rcv.snap.ref)
    <3>1. Seen(rcv.snap.ref) = IF rcv'.phase = "unknown" THEN "failure" ELSE rcv'.phase
      BY <2>4 DEF Seen
    <3>2. RecoverSees'
      BY <1>2, <2>4, <3>1 DEF RecoverSees
    <3>3. Seen(rcv.snap.ref) = "failure" => rcv'.phase \in {"failure", "unknown"}
      BY <3>1
    <3>4. RecoverAgreed'
      BY <1>0, <1>1, <1>2, <2>4, <3>3 DEF Agreed, RecoverAgreed, Terminal
    <3> QED BY <1>4, <1>5, <1>6, <3>2, <3>4 DEF Agreed
  <2> QED BY <2>1, <2>2, <2>3, <2>4
<1> QED BY <1>7, <1>8

\* RecoverQueued: there is no goroutine yet but the one it starts.
LEMMA RecoverQueuedAgreed ==
    ASSUME LifecycleInv, [Next]_vars, NEW g \in Gor, RecoverQueued(g) PROVE Agreed'
<1> DEFINE k == rcv.snap.ref
<1>0. AttemptInv /\ AttemptInv'
  BY NextInv DEF LifecycleInv
<1>1. /\ rcv.pc = "writeq" /\ rcv'.pc = "listr" /\ k \in Ref /\ k = rcv.snap.try
      /\ sched' = "recovering" /\ mu' = mu
  BY <1>0, ReportedRefs DEF RecoverQueued, ToRunning, RcvAt, AttemptInv, RecoverQuiet
<1>2. \A h \in Gor : gor[h].pc = "idle"
  BY <1>0, <1>1 DEF AttemptInv, RecoverQuiet, Busy
<1>3. \A h \in Gor : gor'[h].pc = "idle" \/ (h = g /\ gor'[h].pc = "poll" /\ row'.state = "running")
  <2>1. CASE gor' = gor
    BY <1>2, <2>1
  <2>2. CASE Reattach(g, k) /\ row' = SetState(rcv.snap, "running")
    BY <1>0, <1>2, <2>2 DEF Reattach, SetState, AttemptInv, TypeOK
  <2> QED BY <2>1, <2>2 DEF RecoverQueued
<1>4. Twins'
  BY <1>1, <1>3 DEF Twins, Busy, Resumed
<1>5. QueuedUntilMarked' /\ RetryAgreed'
  BY <1>3 DEF QueuedUntilMarked, RetryAgreed, Busy, PreLaunch
<1>6. RecoverAgreed' /\ RecoverSees'
  BY <1>1 DEF RecoverAgreed, RecoverSees
<1>7. Applies(k) => row.ref # NoRef /\ row.try = k
  BY <1>0, <1>1 DEF Applies, AttemptInv, RowRef, Ref, NoRef
<1>8. \/ row' = row
      \/ Applies(k) /\ row'.try = k
      \/ Applies(k) /\ row'.try = k - 1 /\ row'.ref = NoRef
  BY <1>1 DEF RecoverQueued, UpdateTaskInstanceGuarded, SetState
<1>9. SnapAgreed'
  BY <1>1, <1>7, <1>8, SnapStep
<1> QED BY <1>4, <1>5, <1>6, <1>9 DEF Agreed

\* RecoverRunning: a second goroutine may be started on an adopted attempt; it
\* sees what the first one saw.
LEMMA RecoverRunningAgreed ==
    ASSUME LifecycleInv, [Next]_vars, NEW g \in Gor, RecoverRunning(g) PROVE Agreed'
<1> DEFINE k == rcv.snap.ref
           out == IF rcv.phase \in Verdict THEN rcv.phase ELSE "failure"
<1>0. AttemptInv /\ AttemptInv' /\ Agreed
  BY NextInv DEF LifecycleInv
<1>1. /\ rcv.pc = "writer" /\ rcv'.pc = "none" /\ k \in Ref /\ k = rcv.snap.try
      /\ sched = "recovering" /\ sched' = "up" /\ UNCHANGED <<proc, rec, mu>>
  BY <1>0, ReportedRefs DEF RecoverRunning, RecoverDone, NoRcv, RcvAt, AttemptInv, RecoverQuiet
<1>2. \A j : Seen(j)' = Seen(j)
  BY <1>1 DEF Seen, Probe
<1>3. RecoverAgreed' /\ RecoverSees'
  BY <1>1 DEF RecoverAgreed, RecoverSees
<1>4. \A h \in Gor : Busy(h) => /\ gor[h].pc \in Resumed
                                /\ gor[h].pc = "finish" => gor[h].out = Seen(gor[h].try)
  BY <1>0, <1>1 DEF Agreed, Twins
<1>5. CASE rcv.phase = "running" /\ Reattach(g, k) /\ row' = row
  <2>1. gor'[g].pc = "poll" /\ gor'[g].try = k /\ \A h \in Gor \ {g} : gor'[h] = gor[h]
    BY <1>0, <1>5 DEF Reattach, AttemptInv, TypeOK
  <2>2. \A h \in Gor : Busy(h)' => /\ gor'[h].pc \in Resumed
                                   /\ gor'[h].pc = "finish" => gor'[h].out = Seen(gor[h].try)'
    BY <1>2, <1>4, <2>1 DEF Resumed, Busy
  <2>3. Twins'
    BY <1>1, <2>2 DEF Twins
  <2>4. QueuedUntilMarked'
    BY <2>2 DEF QueuedUntilMarked, PreLaunch, Resumed, Busy
  <2>5. row.state = "up_for_retry" /\ row.ref = k => Seen(k) = "failure"
    BY <1>0, <1>1 DEF Agreed, RecoverAgreed
  <2>6. RetryAgreed'
    BY <1>0, <1>2, <1>5, <2>1, <2>2, <2>5 DEF Agreed, RetryAgreed, Resumed, Busy
  <2>7. SnapAgreed'
    BY <1>1, <1>5, SnapStep
  <2> QED BY <1>3, <2>3, <2>4, <2>6, <2>7 DEF Agreed
<1>6. CASE /\ rcv.phase # "running" /\ gor' = gor
           /\ UpdateTaskInstanceGuarded(SetState(rcv.snap, VerdictState(out, k)), k)
  <2>1. Twins'
    BY <1>1, <1>2, <1>4, <1>6 DEF Twins, Busy
  <2>2. QueuedUntilMarked'
    BY <1>4, <1>6 DEF QueuedUntilMarked, PreLaunch, Resumed, Busy
  <2>3. CASE row' = row
    <3>1. SnapAgreed'
      BY <1>1, <2>3, SnapStep
    <3>2. RetryAgreed'
      BY <1>0, <1>2, <1>6, <2>3 DEF Agreed, RetryAgreed, Busy
    <3> QED BY <1>3, <2>1, <2>2, <3>1, <3>2 DEF Agreed
  <2>4. CASE Applies(k) /\ row' = SetState(rcv.snap, VerdictState(out, k))
    <3>1. row.ref = k /\ row.ref # NoRef /\ row.try = k /\ row'.try = k /\ row'.state = VerdictState(out, k)
      BY <1>0, <1>1, <2>4 DEF Applies, AttemptInv, RowRef, Ref, NoRef, SetState
    <3>2. SnapAgreed'
      BY <1>1, <3>1, SnapStep
    <3>3. row'.state = "up_for_retry" => out = "failure"
      BY <3>1 DEF VerdictState, Verdict
    <3>4. rcv.phase \in Phase /\ (out = "failure" => rcv.phase \in {"failure", "unknown"})
      BY <1>0, <1>6 DEF AttemptInv, TypeOK, Phase, Verdict
    <3>5. ASSUME out = "failure", NEW h \in Gor, Busy(h), gor[h].try = k
          PROVE  Seen(k) = "failure"
      BY <1>0, <1>1, <1>6, <3>4, <3>5 DEF Agreed, RecoverSees
    <3> HIDE DEF out
    <3>6. row'.ref = k
      BY <2>4 DEF SetState
    <3>7. RetryAgreed'
      BY <1>2, <1>4, <1>6, <3>3, <3>5, <3>6 DEF RetryAgreed, Busy
    <3> QED BY <1>3, <2>1, <2>2, <3>2, <3>7 DEF Agreed
  <2> QED BY <1>6, <2>3, <2>4 DEF UpdateTaskInstanceGuarded
<1> QED BY <1>5, <1>6 DEF RecoverRunning

\* Every step preserves what is agreed, with the invariant.
LEMMA LifecycleStep == LifecycleInv /\ [Next]_vars => LifecycleInv'
<1> SUFFICES ASSUME LifecycleInv, [Next]_vars PROVE LifecycleInv'
  OBVIOUS
<1>1. CASE Tick \/ Operator \/ CancelAttempt \/ WriteBack
  BY <1>1, TickAgreed, OperatorAgreed, WriteBackAgreed, NextInv DEF LifecycleInv
<1>2. CASE \E g \in Gor : Goroutine(g)
  BY <1>2, PreLaunchAgreed, GiveBackAgreed, MarkRunningAgreed, PollAgreed, FinalizeAgreed, NextInv
     DEF Goroutine, LifecycleInv
<1>3. CASE Crash \/ Restart
  BY <1>3, CrashAgreed, NextInv DEF LifecycleInv
<1>4. CASE Recover
  BY <1>4, RecoverReadsAgreed, RecoverQueuedAgreed, RecoverRunningAgreed, NextInv
     DEF Recover, LifecycleInv
<1>5. CASE UNCHANGED vars \/ \E k \in Ref : Exit(k) \/ Evict(k)
  BY <1>5, QuietStep, NextInv DEF vars, Exit, Evict, LifecycleInv
<1> QED BY <1>1, <1>2, <1>3, <1>4, <1>5 DEF Next

-----------------------------------------------------------------------------
(* The refinement: every step is a step of TaskLifecycle, or none. *)

\* Neither the override nor the row's state and number change.
Stutter == row'.state = row.state /\ row'.try = row.try /\ Override' = Override

\* The tick requeues and dispatches, never under an operator's lock.
LEMMA TickRefines ==
    ASSUME LifecycleInv, Tick PROVE Lifecycle!Natural \/ Stutter
<1>1. ~Locked => ~Override
  BY DEF Locked, Override
<1>2. CASE ListRuns \/ AdmitSkip
  BY <1>2 DEF ListRuns, AdmitSkip, Stutter, Override
<1>3. CASE ProcessRun \/ ProcessRunTimeout
  <2>1. ~Override /\ Override' = Override
    BY <1>1, <1>3 DEF ProcessRun, ProcessRunTimeout, Override
  <2>2. row' = row \/ (row.state = "up_for_retry" /\ row'.state = "scheduled" /\ row'.try = row.try)
    BY <1>3 DEF ProcessRun, ProcessRunTimeout, Requeue, Requeued, Unref
  <2>3. CASE row' = row
    BY <2>1, <2>3 DEF Stutter
  <2>4. CASE row.state = "up_for_retry" /\ row'.state = "scheduled" /\ row'.try = row.try
    BY <2>1, <2>4 DEF Lifecycle!Natural, Lifecycle!Requeued
  <2> QED BY <2>2, <2>3, <2>4
<1>4. ASSUME NEW g \in Gor, Dispatch(g) PROVE Lifecycle!Natural
  BY <1>1, <1>4 DEF Dispatch, Override, Lifecycle!Natural, Lifecycle!Dispatched
<1> QED BY <1>2, <1>3, <1>4 DEF Tick

\* A verdict on a live attempt resolves it; one that comes when the attempt is
\* already up for retry is the same failure.
LEMMA VerdictRefines ==
    ASSUME LifecycleInv, mu' = mu, NEW k \in Ref, NEW out \in Verdict, Applies(k),
           row'.state = VerdictState(out, k), row'.try = k,
           row.state = "up_for_retry" => out = "failure"
    PROVE  Lifecycle!Natural \/ Stutter
<1>1. row.ref = k /\ row.try = k /\ row.state \in {"queued", "running", "up_for_retry"}
  BY DEF Applies, LifecycleInv, AttemptInv, RowRef, NoRef, Ref, TypeOK, Row, TaskState, TerminalTask
<1>2. Override' = Override
  BY DEF Override
<1>3. CASE row.state = "up_for_retry"
  <2>1. k <= MaxRetries
    BY <1>1, <1>3 DEF LifecycleInv, AttemptInv, RetryInv
  <2> QED BY <1>1, <1>2, <1>3, <2>1 DEF VerdictState, FailureState, Stutter
<1>4. CASE row.state \in {"queued", "running"}
  <2>1. row'.state \in {"success", "skipped", IF row.try <= MaxRetries THEN "up_for_retry" ELSE "failed"}
    BY <1>1 DEF VerdictState, FailureState, Verdict
  <2> QED BY <1>1, <1>2, <1>4, <2>1 DEF Lifecycle!Natural, Lifecycle!Resolved
<1> QED BY <1>1, <1>3, <1>4

\* A goroutine starts, resolves or gives back its attempt.
LEMMA GoroutineRefines ==
    ASSUME LifecycleInv, NEW g \in Gor, Goroutine(g) PROVE Lifecycle!Natural \/ Stutter
<1> DEFINE k == gor[g].try
<1>0. AttemptInv /\ Agreed
  BY DEF LifecycleInv
<1>1. mu' = mu /\ Override' = Override
  BY DEF Goroutine, PrepareFails, TaskCancelled, Launch, GiveBack, MarkRunning, Poll, Finalize, Override
<1>2. CASE row' = row
  BY <1>1, <1>2 DEF Stutter
<1>3. ASSUME Busy(g), Applies(k)
      PROVE  /\ k \in Ref /\ row.ref = k /\ row.try = k /\ ~Terminal
             /\ gor[g].pc \in PreLaunch \cup {"mark"} => row.state = "queued"
             /\ gor[g].pc = "finish" /\ row.state = "up_for_retry" => gor[g].out = "failure"
  <2>1. k \in Ref /\ row.ref = k /\ ~Terminal
    BY <1>0, <1>3, ReportedRefs DEF Applies, Terminal
  <2>2. row.try = k
    BY <1>0, <2>1 DEF AttemptInv, RowRef, NoRef, Ref
  <2> QED BY <1>0, <1>3, <2>1, <2>2 DEF Agreed, QueuedUntilMarked, RetryAgreed
<1>4. CASE GiveBack(g) /\ row' # row
  <2>1. Busy(g) /\ Applies(k) /\ gor[g].pc \in PreLaunch
        /\ row'.state = "scheduled" /\ row'.try = k - 1
    BY <1>4 DEF GiveBack, UpdateTaskInstanceGuarded, Busy, PreLaunch
  <2> QED BY <1>1, <1>3, <2>1 DEF Lifecycle!Natural, Lifecycle!GivenBack
<1>5. CASE MarkRunning(g) /\ row' # row
  <2>1. Busy(g) /\ Applies(k) /\ gor[g].pc = "mark" /\ row'.state = "running" /\ row'.try = k
    BY <1>5 DEF MarkRunning, Busy
  <2> QED BY <1>1, <1>3, <2>1 DEF Lifecycle!Natural, Lifecycle!Started
<1>6. CASE Finalize(g) /\ row' # row
  <2>1. /\ Busy(g) /\ Applies(k) /\ gor[g].pc = "finish"
        /\ row'.state = VerdictState(gor[g].out, k) /\ row'.try = k
    BY <1>6 DEF Finalize, UpdateTaskInstanceGuarded, Busy
  <2>2. gor[g].out \in Verdict
    BY <1>0 DEF AttemptInv, TypeOK, GorRec
  <2> QED BY <1>1, <1>3, <2>1, <2>2, VerdictRefines
<1> QED BY <1>2, <1>4, <1>5, <1>6
   DEF Goroutine, PrepareFails, TaskCancelled, Launch, Poll

\* An operator's call opens the override, or finds nothing to do.
LEMMA OperatorRefines ==
    ASSUME Operator \/ CancelAttempt PROVE Lifecycle!OverrideBegins \/ Stutter
<1>1. row' = row
  BY DEF Operator, CancelRun, RetryTask, MarkTask, MarkRun, CancelAttempt
<1>2. CASE CancelAttempt
  BY <1>1, <1>2 DEF CancelAttempt, Stutter, Override
<1>3. CASE Operator
  <2>1. mu' = mu \/ (mu.op = "none" /\ mu'.op \in {"cancel", "retry"} \cup MarkOp)
    BY <1>3 DEF Operator, CancelRun, RetryTask, MarkTask, MarkRun, Begin, Serving, Locked
  <2> QED BY <1>1, <2>1 DEF Stutter, Override, MarkOp, Lifecycle!OverrideBegins
<1> QED BY <1>2, <1>3

\* The write of an operation: the row's own attempt, or the next number when a
\* stale snapshot puts back what was given back.
LEMMA WriteBackRefines ==
    ASSUME LifecycleInv, WriteBack PROVE Lifecycle!Natural \/ Lifecycle!Overridden \/ Stutter
<1>0. AttemptInv /\ Agreed
  BY DEF LifecycleInv
<1>1. mu.op # "none" /\ ~Override'
  BY DEF WriteBack, CancelWrite, TimeoutWrite, RetryWrite, MarkWrite, Writing, Free, Override, MarkOp
<1>2. mu.snap.try \in {row.try, row.try + 1}
  BY <1>0, <1>1 DEF Agreed, SnapAgreed, Locked
<1>3. CASE CancelWrite
  BY <1>1, <1>2, <1>3 DEF CancelWrite, Writing, SetState, Override, Lifecycle!Overridden
<1>4. CASE RetryWrite
  BY <1>1, <1>2, <1>4 DEF RetryWrite, Writing, ClearedRow, Unref, Override, Lifecycle!Overridden
<1>5. ASSUME NEW op \in MarkOp, MarkWrite(op) PROVE Lifecycle!Overridden
  <2>1. Override /\ row'.try = mu.snap.try /\ row'.state \in {"success", "failed", "skipped"}
    BY <1>5 DEF MarkWrite, Writing, SetState, Override, MarkOp, MarkTarget
  <2> QED BY <1>1, <1>2, <2>1 DEF Lifecycle!Overridden
<1>6. CASE TimeoutWrite
  <2>1. ~Override /\ Override' = Override
    BY <1>1, <1>6 DEF TimeoutWrite, Writing, Override
  <2>2. CASE row' = row
    BY <2>1, <2>2 DEF Stutter
  <2>3. CASE Applies(mu.snap.ref) /\ row' = SetState(mu.snap, "timed_out")
    <3>1. row.state \in Lifecycle!Live
      BY <1>0, <2>3 DEF Applies, AttemptInv, TypeOK, Row, TaskState, TerminalTask, Lifecycle!Live,
                        Lifecycle!TaskState, Lifecycle!TerminalTask
    <3>2. mu.snap.try = row.try
      BY <1>0, <1>1, <2>3 DEF Agreed, SnapAgreed, Locked, Applies
    <3> QED BY <2>1, <2>3, <3>1, <3>2 DEF SetState, Lifecycle!Natural, Lifecycle!TimedOut
  <2> QED BY <1>6, <2>2, <2>3 DEF TimeoutWrite, UpdateTaskInstanceGuarded
<1> QED BY <1>3, <1>4, <1>5, <1>6 DEF WriteBack

\* Recover starts, resolves or gives back what it finds.
LEMMA RecoverRefines ==
    ASSUME LifecycleInv, Recover PROVE Lifecycle!Natural \/ Stutter
<1> DEFINE k == rcv.snap.ref
<1>0. AttemptInv /\ Agreed
  BY DEF LifecycleInv
<1>1. mu' = mu /\ Override' = Override
  BY DEF Recover, RecoverList, RecoverProbe, RecoverQueued, RecoverRunning, Override
<1>2. CASE row' = row
  BY <1>1, <1>2 DEF Stutter
<1>3. ASSUME rcv.pc \in {"writeq", "writer"}, Applies(k)
      PROVE  k \in Ref /\ k = rcv.snap.try /\ row.ref = k /\ row.try = k /\ ~Terminal
  <2>1. k \in Ref /\ k = rcv.snap.try /\ row.ref = k /\ ~Terminal
    BY <1>0, <1>3, ReportedRefs DEF Applies, Terminal, AttemptInv, RecoverQuiet
  <2> QED BY <1>0, <2>1 DEF AttemptInv, RowRef, NoRef, Ref
<1>4. ASSUME NEW g \in Gor, RecoverQueued(g), row' # row PROVE Lifecycle!Natural \/ Stutter
  <2>1. rcv.pc = "writeq" /\ Applies(k)
    BY <1>4 DEF RecoverQueued, UpdateTaskInstanceGuarded
  <2>2. row.state = "queued" /\ k \in Ref /\ k = rcv.snap.try /\ row.try = k
    BY <1>0, <1>3, <2>1 DEF Agreed, RecoverAgreed
  <2>3. \/ row' = SetState(rcv.snap, "running")
        \/ row' = [state |-> "scheduled", try |-> rcv.snap.try - 1, ref |-> NoRef]
        \/ rcv.phase \in Verdict /\ row' = SetState(rcv.snap, VerdictState(rcv.phase, k))
    BY <1>4 DEF RecoverQueued, UpdateTaskInstanceGuarded
  <2>4. CASE row' = SetState(rcv.snap, "running")
    BY <1>1, <2>2, <2>4 DEF SetState, Lifecycle!Natural, Lifecycle!Started
  <2>5. CASE row' = [state |-> "scheduled", try |-> rcv.snap.try - 1, ref |-> NoRef]
    BY <1>1, <2>2, <2>5 DEF Lifecycle!Natural, Lifecycle!GivenBack
  <2>6. CASE rcv.phase \in Verdict /\ row' = SetState(rcv.snap, VerdictState(rcv.phase, k))
    <3>1. row'.state = VerdictState(rcv.phase, k) /\ row'.try = k
      BY <2>2, <2>6 DEF SetState
    <3> QED BY <1>1, <2>1, <2>2, <2>6, <3>1, VerdictRefines
  <2> QED BY <2>3, <2>4, <2>5, <2>6
<1>5. ASSUME NEW g \in Gor, RecoverRunning(g), row' # row PROVE Lifecycle!Natural \/ Stutter
  <2> DEFINE out == IF rcv.phase \in Verdict THEN rcv.phase ELSE "failure"
  <2>1. /\ rcv.pc = "writer" /\ rcv.phase # "running" /\ Applies(k)
        /\ row' = SetState(rcv.snap, VerdictState(out, k))
    BY <1>5 DEF RecoverRunning, UpdateTaskInstanceGuarded
  <2>2. out \in Verdict
    BY DEF Verdict
  <2>3. k \in Ref /\ k = rcv.snap.try /\ row.ref = k
    BY <1>3, <2>1
  <2>4. row.state = "up_for_retry" => out = "failure"
    BY <1>0, <2>1, <2>3 DEF Agreed, RecoverAgreed, Verdict
  <2>5. row'.state = VerdictState(out, k) /\ row'.try = k
    BY <2>1, <2>3 DEF SetState
  <2> HIDE DEF out
  <2> QED BY <1>1, <2>1, <2>2, <2>3, <2>4, <2>5, VerdictRefines
<1>6. RecoverList \/ RecoverProbe => row' = row
  BY DEF RecoverList, RecoverProbe
<1> QED BY <1>2, <1>4, <1>5, <1>6 DEF Recover

\* Together: each step of the attempt is a step of the lifecycle or leaves it.
LEMMA StepRefines ==
    ASSUME LifecycleInv, [Next]_vars PROVE [Lifecycle!Next]_(Lifecycle!vars)
<1>1. Stutter => UNCHANGED Lifecycle!vars
  BY DEF Stutter, Lifecycle!vars
<1>2. CASE Tick \/ Recover
  BY <1>1, <1>2, TickRefines, RecoverRefines DEF Lifecycle!Next
<1>3. CASE \E g \in Gor : Goroutine(g)
  BY <1>1, <1>3, GoroutineRefines DEF Lifecycle!Next
<1>4. CASE Operator \/ CancelAttempt \/ WriteBack
  BY <1>1, <1>4, OperatorRefines, WriteBackRefines DEF Lifecycle!Next
<1>5. CASE Crash
  <2>1. row' = row /\ ~Override'
    BY <1>5 DEF Crash, Free, Override
  <2> QED BY <1>1, <2>1 DEF Stutter, Override, Lifecycle!Next, Lifecycle!OverrideLost
<1>6. CASE Restart \/ UNCHANGED vars \/ \E k \in Ref : Exit(k) \/ Evict(k)
  BY <1>1, <1>6 DEF Restart, vars, Exit, Evict, Stutter, Override
<1> QED BY <1>2, <1>3, <1>4, <1>5, <1>6 DEF Next

\* Initially nobody disagrees.
LEMMA LifecycleInit == Init => LifecycleInv
<1>1. Init => Agreed
  BY DEF Init, Agreed, QueuedUntilMarked, Twins, RetryAgreed, RecoverAgreed, RecoverSees, SnapAgreed,
         Busy, PreLaunch, Resumed, Idle, NoRcv, RcvAt, NoRow, Locked, Free
<1> QED BY <1>1, InitInv DEF LifecycleInv

\* The row of a task, with every goroutine, operator, deadline, crash and
\* restart that writes it, goes through the lifecycle TaskLifecycle promises,
\* for any number of attempts, goroutines, crashes and faults.
THEOREM RefinesLifecycle == Spec => ImplementsLifecycle
<1>1. Init => LifecycleInv
  BY LifecycleInit
<1>2. Init => Lifecycle!Init
  BY DEF Init, NoRow, Free, Override, Lifecycle!Init
<1>3. LifecycleInv /\ [Next]_vars => [Lifecycle!Next]_(Lifecycle!vars)
  BY StepRefines
<1> QED BY <1>1, <1>2, <1>3, LifecycleStep, PTL DEF Spec, ImplementsLifecycle, Lifecycle!Spec

-----------------------------------------------------------------------------
(***************************************************************************)
(* Nobody is left behind.  Recover attends to what it finds queued or      *)
(* running, provided that no store error stops a goroutine between its     *)
(* launch and its mark and no failed Probe makes Recover skip the task.    *)
(***************************************************************************)
RecoverFinds ==
    /\ rcv.pc \in {"probeq", "writeq"} /\ row.state = "queued" => row.ref = rcv.snap.ref
    /\ rcv.pc \in {"listr", "prober", "writer"} => row.state # "queued"
    /\ rcv.pc \in {"prober", "writer"} /\ row.state = "running" => row.ref = rcv.snap.ref

AttendInv == Attended /\ RecoverFinds

\* The faults after which an attempt stays unattended: the write that fails
\* between launch and mark, and the probe that fails during Recover.
Attentive == Faults \cap {"store_error", "probe_error"} = {}

\* With no store error, a guarded write that applies takes effect.
LEMMA GuardedTakesEffect ==
    ASSUME Attentive, NEW new, NEW k, UpdateTaskInstanceGuarded(new, k)
    PROVE  row' = IF Applies(k) THEN new ELSE row
BY DEF Attentive, UpdateTaskInstanceGuarded

\* A row that is neither queued nor running needs nobody, and Recover is not
\* concerned with it.
LEMMA NothingToAttend ==
    ASSUME row'.state \notin {"queued", "running"} PROVE AttendInv'
BY DEF AttendInv, Attended, RecoverFinds

\* What a verdict writes is neither queued nor running.
LEMMA VerdictStateRange ==
    \A out \in Verdict : \A k : VerdictState(out, k) \in {"success", "skipped", "up_for_retry", "failed"}
BY FailureStateRange DEF VerdictState, Verdict

\* The tick keeps a live row with its goroutine, or starts one.
LEMMA TickAttends == ASSUME LifecycleInv, AttendInv, Tick PROVE AttendInv'
<1>0. AttemptInv /\ sched = "up" /\ UNCHANGED <<sched, rcv>> /\ rcv.pc = "none"
  BY DEF Tick, ListRuns, ProcessRun, ProcessRunTimeout, AdmitSkip, Dispatch, LifecycleInv,
         AttemptInv, RecoverQuiet
<1>1. RecoverFinds'
  BY <1>0 DEF RecoverFinds
<1>2. ASSUME NEW g \in Gor, Dispatch(g) PROVE Attended'
  <2>1. gor'[g].pc # "idle" /\ gor'[g].try = row'.ref
    BY <1>0, <1>2 DEF Dispatch, AttemptInv, TypeOK
  <2> QED BY <2>1 DEF Attended
<1>3. CASE row' = row /\ gor' = gor
  BY <1>0, <1>1, <1>3 DEF AttendInv, Attended
<1>4. CASE row'.state = "scheduled"
  BY <1>4, NothingToAttend
<1> QED BY <1>1, <1>2, <1>3, <1>4 DEF AttendInv, Tick, ListRuns, ProcessRun, ProcessRunTimeout,
                                     AdmitSkip, Requeue, Requeued, Unref

\* A goroutine leaves only an attempt that is resolved, given back or no longer
\* the row's.
LEMMA GoroutineAttends ==
    ASSUME Attentive, LifecycleInv, LifecycleInv', AttendInv, NEW g \in Gor, Goroutine(g)
    PROVE  AttendInv'
<1> DEFINE k == gor[g].try
<1>0. AttemptInv /\ AttemptInv' /\ Agreed /\ UNCHANGED <<sched, rcv>>
  BY DEF LifecycleInv, Goroutine, PrepareFails, TaskCancelled, Launch, GiveBack, MarkRunning, Poll, Finalize
<1>1. PICK r : gor' = [gor EXCEPT ![g] = r]
  BY DEF Goroutine, PrepareFails, TaskCancelled, Launch, GiveBack, MarkRunning, Poll, Finalize,
         Go, Stop, Conclude
<1>2. gor'[g] = r /\ \A h \in Gor \ {g} : gor'[h] = gor[h]
  BY <1>0, <1>1 DEF AttemptInv, TypeOK
<1>3. CASE /\ row'.state = row.state /\ row'.ref = row.ref
           /\ (r.pc # "idle" /\ r.try = k) \/ row.ref # k \/ row.state \notin {"queued", "running"}
  <2>1. Attended'
    BY <1>0, <1>2, <1>3 DEF AttendInv, Attended
  <2>2. RecoverFinds'
    BY <1>0, <1>3 DEF AttendInv, RecoverFinds
  <2> QED BY <2>1, <2>2 DEF AttendInv
<1>4. CASE PrepareFails(g) \/ TaskCancelled(g) \/ Launch(g) \/ Poll(g)
  <2>1. row' = row
    BY <1>4 DEF PrepareFails, TaskCancelled, Launch, Poll
  <2>2. CASE r.pc = "idle"
    BY <1>0, <1>2, <1>3, <1>4, <2>1, <2>2
       DEF PrepareFails, TaskCancelled, Launch, Poll, Go, Conclude, Stop, AttemptInv, TypeOK
  <2>3. CASE r.pc # "idle"
    <3>1. r.try = k
      BY <1>0, <1>2, <1>4, <2>3
         DEF PrepareFails, TaskCancelled, Launch, Poll, Go, Conclude, Stop, Idle, AttemptInv, TypeOK
    <3> QED BY <1>3, <2>1, <2>3, <3>1
  <2> QED BY <2>2, <2>3
<1>5. CASE GiveBack(g)
  <2>1. row' = IF Applies(k) THEN [state |-> "scheduled", try |-> k - 1, ref |-> NoRef] ELSE row
    BY <1>5, GuardedTakesEffect DEF GiveBack
  <2>2. CASE Applies(k)
    BY <2>1, <2>2, NothingToAttend
  <2>3. CASE ~Applies(k)
    BY <1>3, <2>1, <2>3 DEF Applies, TerminalTask
  <2> QED BY <2>2, <2>3
<1>6. CASE MarkRunning(g)
  <2>1. \/ Applies(k) /\ row' = [state |-> "running", try |-> k, ref |-> k] /\ Go(g, "poll")
        \/ ~Applies(k) /\ row' = row
    BY <1>6 DEF MarkRunning, Attentive
  <2>2. CASE ~Applies(k) /\ row' = row
    BY <1>3, <2>2 DEF Applies, TerminalTask
  <2>3. CASE Applies(k) /\ row' = [state |-> "running", try |-> k, ref |-> k] /\ Go(g, "poll")
    <3>1. gor'[g].pc # "idle" /\ gor'[g].try = row'.ref
      BY <1>0, <2>3 DEF Go, AttemptInv, TypeOK
    <3>2. gor[g].pc = "mark"
      BY <1>6 DEF MarkRunning
    <3>3. rcv'.pc = "none"
      BY <1>0, <3>2, EarlyGor
    <3> QED BY <3>1, <3>3 DEF AttendInv, Attended, RecoverFinds
  <2> QED BY <2>1, <2>2, <2>3
<1>7. CASE Finalize(g)
  <2> DEFINE new == [state |-> VerdictState(gor[g].out, k), try |-> k, ref |-> k]
  <2>1. row' = IF Applies(k) THEN new ELSE row
    BY <1>7, GuardedTakesEffect DEF Finalize
  <2>2. new.state \in {"success", "skipped", "up_for_retry", "failed"}
    BY <1>0, VerdictStateRange DEF AttemptInv, TypeOK, GorRec
  <2>3. CASE Applies(k)
    BY <2>1, <2>2, <2>3, NothingToAttend
  <2>4. CASE ~Applies(k)
    BY <1>3, <2>1, <2>4 DEF Applies, TerminalTask
  <2> QED BY <2>3, <2>4
<1> QED BY <1>4, <1>5, <1>6, <1>7 DEF Goroutine

\* Recover adopts, resolves or resets what it finds, and then is done.
LEMMA RecoverAttends ==
    ASSUME Attentive, LifecycleInv, LifecycleInv', AttendInv, Recover PROVE AttendInv'
<1> DEFINE k == rcv.snap.ref
<1>0. AttemptInv /\ AttemptInv' /\ Agreed /\ RecoverFinds
  BY DEF LifecycleInv, AttendInv
<1>1. sched = "recovering"
  BY <1>0 DEF Recover, RecoverList, RecoverProbe, RecoverQueued, RecoverRunning, AttemptInv, RecoverQuiet
<1>2. CASE RecoverList
  <2>1. \/ rcv'.pc = "probeq" /\ rcv'.snap = row
        \/ rcv'.pc = "prober" /\ rcv'.snap = row /\ row.state = "running"
        \/ rcv'.pc = "listr" /\ row.state # "queued"
        \/ sched' = "up" /\ rcv.pc = "listr" /\ row.state # "running" /\ rcv'.pc = "none"
    BY <1>2 DEF RecoverList, RecoverSkip, ToRunning, RecoverDone, NoRcv, RcvAt
  <2>2. row' = row /\ (sched' = "up" => row.state \notin {"queued", "running"})
    BY <1>0, <1>1, <1>2, <2>1 DEF RecoverList, RecoverSkip, ToRunning, RecoverDone, RecoverFinds
  <2>3. RecoverFinds'
    BY <1>0, <2>1, <2>2 DEF RecoverFinds
  <2> QED BY <2>2, <2>3 DEF AttendInv, Attended
<1>3. CASE RecoverProbe
  <2>1. /\ row' = row /\ sched' = sched /\ rcv'.snap = rcv.snap
        /\ \/ rcv.pc = "probeq" /\ rcv'.pc = "writeq"
           \/ rcv.pc = "prober" /\ rcv'.pc = "writer"
    BY <1>3 DEF RecoverProbe, Attentive
  <2> QED BY <1>0, <1>1, <2>1 DEF AttendInv, Attended, RecoverFinds
<1>4. ASSUME NEW g \in Gor, RecoverQueued(g) PROVE AttendInv'
  <2>1. rcv.pc = "writeq" /\ rcv'.pc = "listr" /\ sched' = sched
    BY <1>4 DEF RecoverQueued, ToRunning, RcvAt
  <2>2. rcv.phase \in Phase
    BY <1>0 DEF AttemptInv, TypeOK
  <2>3. CASE Applies(k)
    <3>1. CASE rcv.phase = "running"
      BY <1>1, <1>4, <2>1, <2>3, <3>1
         DEF RecoverQueued, Attentive, SetState, Verdict, AttendInv, Attended, RecoverFinds
    <3>2. CASE rcv.phase = "unknown"
      BY <1>4, <2>3, <3>2, GuardedTakesEffect, NothingToAttend DEF RecoverQueued, Verdict
    <3>3. CASE rcv.phase \in Verdict
      <4>1. UpdateTaskInstanceGuarded(SetState(rcv.snap, VerdictState(rcv.phase, k)), k)
        BY <1>4, <3>3 DEF RecoverQueued, Verdict
      <4>2. row'.state = VerdictState(rcv.phase, k)
        BY <2>3, <4>1, GuardedTakesEffect DEF SetState
      <4> QED BY <3>3, <4>2, VerdictStateRange, NothingToAttend
    <3> QED BY <2>2, <3>1, <3>2, <3>3 DEF Phase
  <2>4. CASE ~Applies(k)
    <3>1. row' = row
      BY <1>4, <2>4 DEF RecoverQueued, UpdateTaskInstanceGuarded
    <3>2. row.state # "queued"
      BY <1>0, <2>1, <2>4 DEF RecoverFinds, Applies, TerminalTask
    <3> QED BY <1>1, <2>1, <3>1, <3>2 DEF AttendInv, Attended, RecoverFinds
  <2> QED BY <2>3, <2>4
<1>5. ASSUME NEW g \in Gor, RecoverRunning(g) PROVE AttendInv'
  <2> DEFINE out == IF rcv.phase \in Verdict THEN rcv.phase ELSE "failure"
  <2>1. rcv.pc = "writer" /\ rcv'.pc = "none"
    BY <1>5 DEF RecoverRunning, RecoverDone, NoRcv, RcvAt
  <2>2. row.state # "queued" /\ (row.state = "running" => row.ref = k)
    BY <1>0, <2>1 DEF RecoverFinds
  <2>3. CASE rcv.phase = "running" /\ Reattach(g, k) /\ row' = row
    <3>1. gor'[g].pc = "poll" /\ gor'[g].try = k
      BY <1>0, <2>3 DEF Reattach, AttemptInv, TypeOK
    <3> QED BY <2>1, <2>2, <2>3, <3>1 DEF AttendInv, Attended, RecoverFinds
  <2>4. CASE UpdateTaskInstanceGuarded(SetState(rcv.snap, VerdictState(out, k)), k)
    <3>1. out \in Verdict
      BY DEF Verdict
    <3> HIDE DEF out
    <3>2. CASE Applies(k)
      <4>1. row'.state = VerdictState(out, k)
        BY <2>4, <3>2, GuardedTakesEffect DEF SetState
      <4> QED BY <3>1, <4>1, VerdictStateRange, NothingToAttend
    <3>3. CASE ~Applies(k)
      <4>1. row' = row /\ row.state # "running"
        BY <2>2, <2>4, <3>3 DEF UpdateTaskInstanceGuarded, Applies, TerminalTask
      <4> QED BY <2>2, <4>1, NothingToAttend
    <3> QED BY <3>2, <3>3
  <2> QED BY <1>5, <2>3, <2>4 DEF RecoverRunning
<1> QED BY <1>2, <1>3, <1>4, <1>5 DEF Recover

\* Every step keeps the live row attended, or on Recover's list.
LEMMA AttendStep ==
    ASSUME Attentive, LifecycleInv, LifecycleInv', AttendInv, [Next]_vars PROVE AttendInv'
<1>1. CASE UNCHANGED <<row, gor, rcv, sched>>
  BY <1>1 DEF AttendInv, Attended, RecoverFinds
<1>2. CASE Operator \/ CancelAttempt
  BY <1>1, <1>2 DEF Operator, CancelRun, RetryTask, MarkTask, MarkRun, CancelAttempt
<1>3. CASE WriteBack
  <2>1. UNCHANGED <<gor, rcv, sched>>
    BY <1>3 DEF WriteBack, CancelWrite, TimeoutWrite, RetryWrite, MarkWrite, Writing
  <2>2. row' = row \/ row'.state \notin {"queued", "running"}
    BY <1>3, WriteBackRow DEF Terminal, TerminalTask, LifecycleInv, AttemptInv, RowRef
  <2> QED BY <1>1, <2>1, <2>2, NothingToAttend
<1>4. CASE Crash \/ Restart
  <2>1. sched' # "up" /\ rcv'.pc \in {"none", "listq"}
    BY <1>4 DEF Crash, Restart, NoRcv, RcvAt
  <2> QED BY <2>1 DEF AttendInv, Attended, RecoverFinds
<1>5. CASE UNCHANGED vars \/ \E k \in Ref : Exit(k) \/ Evict(k)
  BY <1>1, <1>5 DEF vars, Exit, Evict
<1> QED BY <1>2, <1>3, <1>4, <1>5, TickAttends, GoroutineAttends, RecoverAttends DEF Next

\* LifecycleInv holds in every reachable state.
LEMMA LifecycleInvariant == Spec => []LifecycleInv
BY LifecycleInit, LifecycleStep, PTL DEF Spec

\* Once the scheduler is up, a queued or running row has its goroutine,
\* through cancels, marks, retries, deadlines, crashes and restarts, lost
\* launches and evicted results: only a failed write or a failed probe of
\* Recover can leave one unattended.
THEOREM AlwaysAttended ==
    ASSUME Attentive PROVE Spec => []Attended
<1>1. Init => AttendInv
  BY DEF Init, NoRow, NoRcv, RcvAt, AttendInv, Attended, RecoverFinds
<1>2. LifecycleInv /\ LifecycleInv' /\ AttendInv /\ [Next]_vars => AttendInv'
  BY AttendStep
<1>3. AttendInv => Attended
  BY DEF AttendInv
<1> QED BY <1>1, <1>2, <1>3, LifecycleInvariant, PTL DEF Spec

-----------------------------------------------------------------------------
(***************************************************************************)
(* No success is thrown away.  With an executor that survives the          *)
(* scheduler and keeps its results until they are read, and launches whose *)
(* reply is not lost, a failed attempt is one whose process really failed  *)
(* or never was.                                                           *)
(***************************************************************************)
Failed(k) == proc[k] \in {"none", "bad"}

\* An attempt since the last manual retry did not succeed, and never will.
Spent(n) == n > base => Failed(n)

Records ==
    /\ \A k \in Ref \ rec : proc[k] = "none"
    /\ \A g \in Gor : gor[g].pc \in {"mark", "poll"} => gor[g].try \in rec
    /\ row.state = "running" => row.ref \in rec
    /\ rcv.pc \in {"prober", "writer"} => rcv.snap.ref \in rec
    /\ rcv.pc = "writer" => rcv.phase # "unknown"
    /\ rcv.pc = "writeq" /\ rcv.phase = "running" => rcv.snap.ref \in rec

Failures ==
    /\ \A g \in Gor : gor[g].pc = "finish" /\ gor[g].out = "failure" => Failed(gor[g].try)
    /\ rcv.pc \in {"writeq", "writer"} /\ rcv.phase = "failure" => Failed(rcv.snap.ref)

\* A goroutine still to launch is on the row's attempt, or an operator has
\* moved on from its attempt since.
Launching ==
    \A g \in Gor : gor[g].pc \in PreLaunch /\ gor[g].try > base =>
      gor[g].try = row.try /\ gor[g].try = row.ref /\ row.state \in {"queued"} \cup TerminalTask

SpentInv ==
    /\ row.state \in {"scheduled", "up_for_retry"} => Spent(row.try)
    /\ row.state = "queued" => Spent(row.try - 1)

HonestInv == Records /\ Failures /\ Launching /\ SpentInv

\* The executor outlives the scheduler and keeps its results; a launch that
\* took place is answered.
Lasting == Durable /\ Faults \cap {"lost_reply", "eviction"} = {}

\* Such an executor forgets no attempt, and starts none without a record.
LEMMA LastingStep ==
    ASSUME Lasting, AttemptInv, [Next]_vars
    PROVE  /\ rec \subseteq rec'
           /\ \A k \in Ref \ rec' : proc[k] = "none" => proc'[k] = "none"
<1> DEFINE Goal == rec \subseteq rec' /\ \A k \in Ref \ rec' : proc[k] = "none" => proc'[k] = "none"
<1>0. proc \in [Ref -> Exited \cup {"none", "running"}] /\ rec \subseteq Ref
  BY DEF AttemptInv, TypeOK
<1>1. CASE UNCHANGED <<proc, rec>>
  BY <1>1
<1>2. CASE rec' = rec /\ \E j : proc' = Killed(j)
  BY <1>0, <1>2 DEF Killed
<1>3. CASE Tick \/ Operator \/ WriteBack \/ Restart \/ UNCHANGED vars
  BY <1>1, <1>3 DEF Tick, ListRuns, ProcessRun, ProcessRunTimeout, AdmitSkip, Dispatch, Operator,
                    CancelRun, RetryTask, MarkTask, MarkRun, WriteBack, CancelWrite, TimeoutWrite,
                    RetryWrite, MarkWrite, Writing, Restart, vars
<1>4. CASE CancelAttempt
  BY <1>1, <1>2, <1>4 DEF CancelAttempt
<1>5. ASSUME NEW g \in Gor, Launch(g) PROVE Goal
  <2>1. CASE proc' = Launched(gor[g].try) /\ rec' = rec \cup {gor[g].try}
    BY <1>0, <2>1 DEF Launched
  <2> QED BY <1>1, <1>5, <2>1 DEF Launch
<1>6. ASSUME NEW g \in Gor, Goroutine(g), ~Launch(g) PROVE Goal
  BY <1>1, <1>2, <1>6 DEF Goroutine, PrepareFails, TaskCancelled, GiveBack, MarkRunning, Poll, Finalize
<1>7. CASE Crash
  BY <1>1, <1>7 DEF Crash, Lasting
<1>8. CASE Recover
  BY <1>1, <1>2, <1>8 DEF Recover, RecoverList, RecoverProbe, RecoverQueued, RecoverRunning
<1>9. ASSUME NEW j \in Ref, Exit(j) \/ Evict(j) PROVE Goal
  BY <1>0, <1>9 DEF Exit, Evict, Lasting
<1> QED BY <1>3, <1>4, <1>5, <1>6, <1>7, <1>8, <1>9 DEF Next

\* A failure stays one, while nobody launches the attempt.
LEMMA FailedStays ==
    ASSUME AttemptInv, [Next]_vars, NEW k \in Ref, Unlaunched(k), Failed(k) PROVE Failed(k)'
BY ExecutorStep DEF Failed

\* How a goroutine comes to be past its launch.
LEMMA LaunchedStep ==
    ASSUME AttemptInv, [Next]_vars, NEW g \in Gor, gor'[g].pc \in {"mark", "poll"}
    PROVE  \/ gor'[g] = gor[g]
           \/ gor[g].pc = "mark" /\ gor'[g].try = gor[g].try
           \/ gor'[g].try \in rec'
           \/ /\ gor'[g].try = rcv.snap.ref /\ rcv.phase = "running"
              /\ rcv.pc \in {"writeq", "writer"}
<1> DEFINE Goal == \/ gor'[g] = gor[g]
                   \/ gor[g].pc = "mark" /\ gor'[g].try = gor[g].try
                   \/ gor'[g].try \in rec'
                   \/ /\ gor'[g].try = rcv.snap.ref /\ rcv.phase = "running"
                      /\ rcv.pc \in {"writeq", "writer"}
<1>0. gor \in [Gor -> GorRec] /\ gor'[g].pc \in {"mark", "poll"}
  BY DEF AttemptInv, TypeOK
<1>a. ASSUME NEW h \in Gor, NEW r, gor' = [gor EXCEPT ![h] = r], h # g \/ r.pc \notin {"mark", "poll"}
      PROVE  Goal
  BY <1>0, <1>a
<1>1. CASE gor' = gor
  BY <1>1
<1>2. CASE Tick
  BY <1>1, <1>2, <1>a DEF Tick, ListRuns, ProcessRun, ProcessRunTimeout, AdmitSkip, Dispatch
<1>3. CASE Operator \/ CancelAttempt \/ WriteBack \/ Restart \/ UNCHANGED vars
  BY <1>1, <1>3 DEF Operator, CancelRun, RetryTask, MarkTask, MarkRun, CancelAttempt, WriteBack,
                    CancelWrite, TimeoutWrite, RetryWrite, MarkWrite, Writing, Restart, vars
<1>4. ASSUME NEW h \in Gor, PrepareFails(h) \/ TaskCancelled(h) PROVE Goal
  BY <1>a, <1>4 DEF PrepareFails, TaskCancelled, Conclude, Go, Stop, Idle
<1>5. ASSUME NEW h \in Gor, Launch(h) PROVE Goal
  <2>1. CASE Go(h, "mark") /\ rec' = rec \cup {gor[h].try}
    BY <1>0, <2>1 DEF Go
  <2>2. CASE Conclude(h, "failure") \/ Go(h, "noworker")
    BY <1>a, <2>2 DEF Conclude, Go
  <2> QED BY <1>5, <2>1, <2>2 DEF Launch
<1>6. ASSUME NEW h \in Gor, MarkRunning(h) PROVE Goal
  BY <1>0, <1>6 DEF MarkRunning, Go, Stop, Idle
<1>7. ASSUME NEW h \in Gor, GiveBack(h) \/ Poll(h) \/ Finalize(h) PROVE Goal
  BY <1>a, <1>7 DEF GiveBack, Poll, Finalize, Stop, Conclude, Idle
<1>8. CASE Crash
  BY <1>0, <1>8 DEF Crash, Idle
<1>9. CASE Recover
  <2>1. ASSUME NEW h \in Gor, Reattach(h, rcv.snap.ref), rcv.phase = "running",
               rcv.pc \in {"writeq", "writer"}
        PROVE  Goal
    BY <1>0, <2>1 DEF Reattach
  <2> QED BY <1>1, <1>9, <2>1 DEF Recover, RecoverList, RecoverProbe, RecoverQueued, RecoverRunning
<1>10. CASE \E k \in Ref : Exit(k) \/ Evict(k)
  BY <1>1, <1>10 DEF Exit, Evict
<1> QED BY <1>2, <1>3, <1>4, <1>5, <1>6, <1>7, <1>8, <1>9, <1>10 DEF Next, Goroutine

\* How a goroutine comes to report a failure.
LEMMA FailingStep ==
    ASSUME Lasting, AttemptInv, [Next]_vars, NEW g \in Gor,
           gor'[g].pc = "finish", gor'[g].out = "failure"
    PROVE  \/ gor'[g] = gor[g]
           \/ /\ gor'[g].try = gor[g].try /\ proc' = proc
              /\ \/ gor[g].pc \in PreLaunch
                 \/ gor[g].pc = "poll" /\ Probe(gor[g].try) \in {"failure", "unknown"}
<1> DEFINE Goal == \/ gor'[g] = gor[g]
                   \/ /\ gor'[g].try = gor[g].try /\ proc' = proc
                      /\ \/ gor[g].pc \in PreLaunch
                         \/ gor[g].pc = "poll" /\ Probe(gor[g].try) \in {"failure", "unknown"}
<1>0. gor \in [Gor -> GorRec] /\ gor'[g].pc = "finish" /\ gor'[g].out = "failure"
  BY DEF AttemptInv, TypeOK
<1>a. ASSUME NEW h \in Gor, NEW r, gor' = [gor EXCEPT ![h] = r], h # g \/ r.pc # "finish"
      PROVE  Goal
  BY <1>0, <1>a
<1>1. CASE gor' = gor
  BY <1>1
<1>2. CASE Tick
  BY <1>1, <1>2, <1>a DEF Tick, ListRuns, ProcessRun, ProcessRunTimeout, AdmitSkip, Dispatch
<1>3. CASE Operator \/ CancelAttempt \/ WriteBack \/ Restart \/ UNCHANGED vars
  BY <1>1, <1>3 DEF Operator, CancelRun, RetryTask, MarkTask, MarkRun, CancelAttempt, WriteBack,
                    CancelWrite, TimeoutWrite, RetryWrite, MarkWrite, Writing, Restart, vars
<1>4. ASSUME NEW h \in Gor, PrepareFails(h) PROVE Goal
  BY <1>0, <1>4 DEF PrepareFails, Conclude, PreLaunch
<1>5. ASSUME NEW h \in Gor, Launch(h) PROVE Goal
  <2>1. CASE Go(h, "mark") \/ Go(h, "noworker")
    BY <1>a, <2>1 DEF Go
  <2>2. CASE Conclude(h, "failure") /\ proc' = proc
    BY <1>0, <1>5, <2>2 DEF Launch, Conclude, PreLaunch
  <2> QED BY <1>5, <2>1, <2>2 DEF Launch, Lasting
<1>6. ASSUME NEW h \in Gor, TaskCancelled(h) \/ MarkRunning(h) \/ GiveBack(h) \/ Finalize(h) PROVE Goal
  BY <1>a, <1>6 DEF TaskCancelled, MarkRunning, GiveBack, Finalize, Go, Stop, Idle
<1>7. ASSUME NEW h \in Gor, Poll(h) PROVE Goal
  <2>1. CASE h # g
    BY <1>0, <1>7, <2>1 DEF Poll, Conclude
  <2>2. CASE h = g
    BY <1>0, <1>7, <2>2 DEF Poll, Conclude
  <2> QED BY <2>1, <2>2
<1>8. CASE Crash
  BY <1>0, <1>8 DEF Crash, Idle
<1>9. CASE Recover
  <2>1. ASSUME NEW h \in Gor, NEW k, Reattach(h, k) PROVE Goal
    BY <1>a, <2>1 DEF Reattach
  <2> QED BY <1>1, <1>9, <2>1 DEF Recover, RecoverList, RecoverProbe, RecoverQueued, RecoverRunning
<1>10. CASE \E k \in Ref : Exit(k) \/ Evict(k)
  BY <1>1, <1>10 DEF Exit, Evict
<1> QED BY <1>2, <1>3, <1>4, <1>5, <1>6, <1>7, <1>8, <1>9, <1>10 DEF Next, Goroutine

\* What Recover goes over next.
LEMMA RecoverMoves ==
    ASSUME AttemptInv, [Next]_vars, rcv'.pc \in {"prober", "writer"}
    PROVE  \/ rcv' = rcv
           \/ rcv'.pc = "prober" /\ rcv'.snap = row /\ row.state = "running"
           \/ /\ rcv.pc = "prober" /\ rcv'.pc = "writer" /\ rcv'.snap = rcv.snap
              /\ rcv'.phase = Probe(rcv.snap.ref)
<1>1. \A pc : RcvAt(pc).pc = pc
  BY DEF RcvAt
<1>2. CASE Tick \/ Operator \/ CancelAttempt \/ WriteBack
  BY <1>2 DEF Tick, ListRuns, ProcessRun, ProcessRunTimeout, AdmitSkip, Dispatch, Operator,
              CancelRun, RetryTask, MarkTask, MarkRun, CancelAttempt, WriteBack,
              CancelWrite, TimeoutWrite, RetryWrite, MarkWrite, Writing
<1>3. CASE \E g \in Gor : Goroutine(g)
  BY <1>3 DEF Goroutine, PrepareFails, TaskCancelled, Launch, GiveBack, MarkRunning, Poll, Finalize
<1>4. CASE Crash \/ Restart
  BY <1>1, <1>4 DEF Crash, Restart, NoRcv
<1>5. CASE RecoverList
  BY <1>1, <1>5 DEF RecoverList, RecoverSkip, RecoverDone, ToRunning, NoRcv
<1>6. CASE RecoverProbe
  BY <1>1, <1>6 DEF RecoverProbe, RecoverSkip, RecoverDone, ToRunning, NoRcv
<1>7. CASE \E g \in Gor : RecoverQueued(g) \/ RecoverRunning(g)
  BY <1>1, <1>7 DEF RecoverQueued, RecoverRunning, RecoverDone, ToRunning, NoRcv
<1>8. CASE UNCHANGED vars \/ \E k \in Ref : Exit(k) \/ Evict(k)
  BY <1>8 DEF vars, Exit, Evict
<1> QED BY <1>2, <1>3, <1>4, <1>5, <1>6, <1>7, <1>8 DEF Next, Recover

\* A row is marked running by the goroutine that launched it, or by Recover
\* when the executor answers that it runs.
LEMMA RunningStep ==
    ASSUME AttemptInv, [Next]_vars, row'.state = "running"
    PROVE  \/ row' = row
           \/ \E g \in Gor : gor[g].pc = "mark" /\ row'.ref = gor[g].try
           \/ rcv.pc = "writeq" /\ rcv.phase = "running" /\ row'.ref = rcv.snap.ref
<1> DEFINE Goal == \/ row' = row
                   \/ \E g \in Gor : gor[g].pc = "mark" /\ row'.ref = gor[g].try
                   \/ rcv.pc = "writeq" /\ rcv.phase = "running" /\ row'.ref = rcv.snap.ref
<1>0. row'.state = "running"
  OBVIOUS
<1>1. CASE Tick
  BY <1>0, <1>1 DEF Tick, ListRuns, ProcessRun, ProcessRunTimeout, AdmitSkip, Dispatch, Requeue,
                    Requeued, Unref
<1>2. CASE Operator \/ CancelAttempt \/ Crash \/ Restart \/ UNCHANGED vars
  BY <1>2 DEF Operator, CancelRun, RetryTask, MarkTask, MarkRun, CancelAttempt, Crash, Restart, vars
<1>3. CASE WriteBack
  <2>1. CASE CancelWrite \/ RetryWrite
    BY <1>0, <2>1 DEF CancelWrite, RetryWrite, ClearedRow, Unref, SetState
  <2>2. CASE TimeoutWrite
    BY <1>0, <2>2 DEF TimeoutWrite, UpdateTaskInstanceGuarded, SetState
  <2>3. ASSUME NEW op \in MarkOp, MarkWrite(op) PROVE Goal
    BY <1>0, <2>3 DEF MarkWrite, MarkTarget, SetState
  <2> QED BY <1>3, <2>1, <2>2, <2>3 DEF WriteBack
<1>4. ASSUME NEW new, NEW k, new.state # "running", UpdateTaskInstanceGuarded(new, k)
      PROVE  row' = row
  BY <1>0, <1>4 DEF UpdateTaskInstanceGuarded
<1>5. ASSUME NEW g \in Gor, PrepareFails(g) \/ TaskCancelled(g) \/ Launch(g) \/ Poll(g) \/ GiveBack(g)
      PROVE  Goal
  BY <1>4, <1>5 DEF PrepareFails, TaskCancelled, Launch, Poll, GiveBack
<1>6. ASSUME NEW g \in Gor, MarkRunning(g) PROVE Goal
  BY <1>6 DEF MarkRunning
<1>7. ASSUME NEW g \in Gor, Finalize(g) PROVE Goal
  <2> DEFINE new == [state |-> VerdictState(gor[g].out, gor[g].try), try |-> gor[g].try, ref |-> gor[g].try]
  <2>1. new.state # "running"
    BY VerdictStateRange DEF AttemptInv, TypeOK, GorRec
  <2>2. UpdateTaskInstanceGuarded(new, gor[g].try)
    BY <1>7 DEF Finalize
  <2> HIDE DEF new
  <2> QED BY <1>4, <2>1, <2>2
<1>8. ASSUME NEW g \in Gor, RecoverQueued(g) PROVE Goal
  <2>1. CASE rcv.phase = "running"
    BY <1>8, <2>1 DEF RecoverQueued, SetState, Verdict
  <2>2. CASE rcv.phase = "unknown"
    BY <1>4, <1>8, <2>2 DEF RecoverQueued, Verdict
  <2>3. CASE rcv.phase \in Verdict
    <3> DEFINE new == SetState(rcv.snap, VerdictState(rcv.phase, rcv.snap.ref))
    <3>1. new.state # "running"
      BY <2>3, VerdictStateRange DEF SetState
    <3>2. UpdateTaskInstanceGuarded(new, rcv.snap.ref)
      BY <1>8, <2>3 DEF RecoverQueued, Verdict
    <3> HIDE DEF new
    <3> QED BY <1>4, <3>1, <3>2
  <2> QED BY <2>1, <2>2, <2>3 DEF AttemptInv, TypeOK, Phase
<1>9. ASSUME NEW g \in Gor, RecoverRunning(g) PROVE Goal
  <2> DEFINE out == IF rcv.phase \in Verdict THEN rcv.phase ELSE "failure"
             new == SetState(rcv.snap, VerdictState(out, rcv.snap.ref))
  <2>1. row' = row \/ UpdateTaskInstanceGuarded(new, rcv.snap.ref)
    BY <1>9 DEF RecoverRunning
  <2>2. out \in Verdict
    BY DEF Verdict
  <2>3. new.state = VerdictState(out, rcv.snap.ref)
    BY DEF SetState
  <2> HIDE DEF new, out
  <2> QED BY <1>4, <2>1, <2>2, <2>3, VerdictStateRange
<1>10. CASE RecoverList \/ RecoverProbe \/ \E k \in Ref : Exit(k) \/ Evict(k)
  BY <1>10 DEF RecoverList, RecoverProbe, Exit, Evict
<1> QED BY <1>1, <1>2, <1>3, <1>5, <1>6, <1>7, <1>8, <1>9, <1>10 DEF Next, Goroutine, Recover

\* What is past its launch has a record.
LEMMA RecordsStep ==
    ASSUME Lasting, AttemptInv, Records, [Next]_vars PROVE Records'
<1>0. rec \subseteq rec' /\ \A k \in Ref \ rec' : proc[k] = "none" => proc'[k] = "none"
  BY LastingStep
<1>1. \A k \in Ref \ rec' : proc'[k] = "none"
  BY <1>0 DEF Records
<1>2. ASSUME NEW g \in Gor, gor'[g].pc \in {"mark", "poll"} PROVE gor'[g].try \in rec'
  BY <1>0, <1>2, LaunchedStep DEF Records
<1>3. row'.state = "running" => row'.ref \in rec'
  BY <1>0, RunningStep DEF Records
<1>4. ASSUME rcv'.pc \in {"prober", "writer"} PROVE rcv'.snap.ref \in rec'
  BY <1>0, <1>4, RecoverMoves DEF Records
<1>5. ASSUME rcv'.pc = "writer" PROVE rcv'.phase # "unknown"
  <2>1. CASE rcv' = rcv
    BY <1>5, <2>1 DEF Records
  <2>2. CASE rcv.pc = "prober" /\ rcv'.phase = Probe(rcv.snap.ref)
    BY <2>2, VerdictOfRange DEF Records, Probe, Verdict
  <2> QED BY <1>5, <2>1, <2>2, RecoverMoves
<1>6. ASSUME rcv'.pc = "writeq", rcv'.phase = "running" PROVE rcv'.snap.ref \in rec'
  <2>1. CASE rcv' = rcv
    BY <1>0, <1>6, <2>1 DEF Records
  <2>2. CASE rcv'.snap = rcv.snap /\ rcv'.phase = Probe(rcv.snap.ref)
    BY <1>0, <1>6, <2>2 DEF Probe
  <2> QED BY <1>6, <2>1, <2>2, RecoverStep
<1> QED BY <1>1, <1>2, <1>3, <1>4, <1>5, <1>6 DEF Records

\* What is reported as a failure is one.
LEMMA FailuresStep ==
    ASSUME Lasting, AttemptInv, Records, Failures, [Next]_vars PROVE Failures'
<1>0. ASSUME NEW k \in Ref, k \in rec, Probe(k) \in {"failure", "unknown"} PROVE Failed(k)
  BY <1>0, VerdictOfRange DEF Failed, Probe, AttemptInv, TypeOK, Exited
<1>1. ASSUME NEW g \in Gor, gor'[g].pc = "finish", gor'[g].out = "failure"
      PROVE  proc'[gor'[g].try] \in {"none", "bad"}
  <2> DEFINE k == gor[g].try
  <2>1. CASE gor'[g] = gor[g]
    <3>1. k \in Ref /\ Unlaunched(k) /\ Failed(k)
      BY <1>1, <2>1, ReportedRefs DEF Busy, PreLaunch, Failures
    <3> QED BY <2>1, <3>1, ExecutorStep DEF Failed
  <2>2. CASE gor'[g].try = k /\ proc' = proc /\ gor[g].pc \in PreLaunch
    <3>1. k \in Ref /\ k \notin rec
      BY <2>2, ReportedRefs DEF Busy, PreLaunch, AttemptInv, PreLaunchUnique
    <3> QED BY <2>2, <3>1 DEF Records
  <2>3. CASE gor'[g].try = k /\ proc' = proc /\ gor[g].pc = "poll" /\ Probe(k) \in {"failure", "unknown"}
    <3>1. k \in Ref /\ k \in rec
      BY <2>3, ReportedRefs DEF Busy, Records
    <3> QED BY <1>0, <2>3, <3>1 DEF Failed
  <2> QED BY <1>1, <2>1, <2>2, <2>3, FailingStep
<1>2. ASSUME rcv'.pc \in {"writeq", "writer"}, rcv'.phase = "failure"
      PROVE  proc'[rcv'.snap.ref] \in {"none", "bad"}
  <2> DEFINE k == rcv.snap.ref
  <2>1. rcv.pc \in {"probeq", "writeq", "prober", "writer"} /\ rcv'.snap = rcv.snap
    BY <1>2, RecoverStep
  <2>2. k \in Ref /\ Unlaunched(k)
    BY <2>1, ReportedRefs
  <2>3. Failed(k)
    <3>1. CASE rcv' = rcv
      BY <1>2, <3>1 DEF Failures
    <3>2. CASE rcv'.phase = Probe(k)
      <4>1. k \in rec
        BY <1>2, <3>2 DEF Probe
      <4> QED BY <1>0, <1>2, <2>2, <3>2, <4>1
    <3> QED BY <1>2, <3>1, <3>2, RecoverStep
  <2> QED BY <2>1, <2>2, <2>3, ExecutorStep DEF Failed
<1> QED BY <1>1, <1>2 DEF Failures, Failed

\* Only dispatch makes a goroutine that has still to launch.
LEMMA PreLaunchStep ==
    ASSUME AttemptInv, [Next]_vars, NEW g \in Gor, gor'[g].pc \in PreLaunch
    PROVE  Dispatch(g) \/ (gor[g].pc \in PreLaunch /\ gor'[g].try = gor[g].try)
<1> DEFINE Goal == Dispatch(g) \/ (gor[g].pc \in PreLaunch /\ gor'[g].try = gor[g].try)
<1>0. gor \in [Gor -> GorRec] /\ gor'[g].pc \in PreLaunch
  BY DEF AttemptInv, TypeOK
<1>a. ASSUME NEW h \in Gor, NEW r, gor' = [gor EXCEPT ![h] = r], h # g \/ r.pc \notin PreLaunch
      PROVE  Goal
  BY <1>0, <1>a
<1>1. CASE gor' = gor
  BY <1>0, <1>1
<1>2. ASSUME NEW h \in Gor, Dispatch(h) PROVE Goal
  <2>1. CASE h = g
    BY <1>2, <2>1
  <2>2. CASE h # g
    BY <1>a, <1>2, <2>2 DEF Dispatch
  <2> QED BY <2>1, <2>2
<1>3. CASE Tick
  BY <1>1, <1>2, <1>3 DEF Tick, ListRuns, ProcessRun, ProcessRunTimeout, AdmitSkip
<1>4. CASE Operator \/ CancelAttempt \/ WriteBack \/ Restart \/ UNCHANGED vars
  BY <1>1, <1>4 DEF Operator, CancelRun, RetryTask, MarkTask, MarkRun, CancelAttempt, WriteBack,
                    CancelWrite, TimeoutWrite, RetryWrite, MarkWrite, Writing, Restart, vars
<1>5. ASSUME NEW h \in Gor, TaskCancelled(h) \/ Launch(h) PROVE Goal
  <2>1. gor[h].pc \in PreLaunch
    BY <1>5 DEF TaskCancelled, Launch, PreLaunch
  <2>2. CASE Go(h, "launch") \/ Go(h, "mark") \/ Go(h, "noworker")
    BY <1>0, <2>1, <2>2 DEF Go
  <2>3. CASE Conclude(h, "failure") \/ Stop(h)
    BY <1>a, <2>3 DEF Conclude, Stop, Idle, PreLaunch
  <2> QED BY <1>5, <2>2, <2>3 DEF TaskCancelled, Launch
<1>6. ASSUME NEW h \in Gor, PrepareFails(h) \/ GiveBack(h) \/ MarkRunning(h) \/ Poll(h) \/ Finalize(h)
      PROVE  Goal
  BY <1>a, <1>6 DEF PrepareFails, GiveBack, MarkRunning, Poll, Finalize, Go, Conclude, Stop, Idle, PreLaunch
<1>7. CASE Crash
  BY <1>0, <1>7 DEF Crash, Idle, PreLaunch
<1>8. CASE Recover
  <2>1. ASSUME NEW h \in Gor, NEW k, Reattach(h, k) PROVE Goal
    BY <1>a, <2>1 DEF Reattach, PreLaunch
  <2> QED BY <1>1, <1>8, <2>1 DEF Recover, RecoverList, RecoverProbe, RecoverQueued, RecoverRunning
<1>9. CASE \E k \in Ref : Exit(k) \/ Evict(k)
  BY <1>1, <1>9 DEF Exit, Evict
<1> QED BY <1>3, <1>4, <1>5, <1>6, <1>7, <1>8, <1>9 DEF Next, Goroutine

\* A spent attempt is not launched again.
LEMMA SpentStays ==
    ASSUME AttemptInv, Launching, [Next]_vars, base' = base, NEW n, Spent(n),
           \/ n = row.try /\ row.state \in {"scheduled", "up_for_retry"}
           \/ n = row.try - 1 /\ row.state = "queued" /\ row.try \in Ref
    PROVE  Spent(n)'
<1> SUFFICES ASSUME n > base PROVE proc'[n] \in {"none", "bad"}
  BY DEF Spent, Failed
<1>1. n \in Ref /\ Failed(n)
  BY DEF Spent, AttemptInv, TypeOK, Row, Ref
<1>2. Unlaunched(n)
  BY DEF Launching, Unlaunched, PreLaunch, TerminalTask, AttemptInv, TypeOK, Row
<1> QED BY <1>1, <1>2, ExecutorStep DEF Failed

\* A goroutine still to launch stays with the row.
LEMMA LaunchingStays ==
    ASSUME AttemptInv, Launching, [Next]_vars, base' = base, row'.try = row.try, row'.ref = row.ref,
           row'.state = row.state \/ row'.state \in TerminalTask
    PROVE  Launching'
<1>1. \A g \in Gor : ~Dispatch(g)
  BY DEF Dispatch, AttemptInv, TypeOK, Row
<1> QED BY <1>1, PreLaunchStep DEF Launching

\* Nobody is still to launch who has not been overtaken by an operator.
LEMMA LaunchingNone ==
    ASSUME AttemptInv, [Next]_vars, base' = base, \A g \in Gor : ~Dispatch(g),
           \A g \in Gor : gor[g].pc \in PreLaunch => gor'[g].pc \notin PreLaunch \/ gor[g].try <= base
    PROVE  Launching'
<1>1. \A g \in Gor : gor[g].try \in Nat
  BY DEF AttemptInv, TypeOK, GorRec
<1>2. base \in Nat
  BY DEF AttemptInv, TypeOK
<1> QED BY <1>1, <1>2, PreLaunchStep DEF Launching

\* The row or the last manual retry changes; the rest of the invariant follows.
LEMMA HonestStep ==
    ASSUME LifecycleInv, LifecycleInv', Records, Failures, Launching, SpentInv, [Next]_vars
    PROVE  Launching' /\ SpentInv'
<1> DEFINE Goal == Launching' /\ SpentInv'
<1>0. AttemptInv /\ Agreed /\ AttemptInv'
  BY DEF LifecycleInv
<1>a. row \in Row /\ base \in Nat /\ MaxTry \in Nat
  BY <1>0 DEF AttemptInv, TypeOK
<1>1. ASSUME row' = row, base' = base PROVE Goal
  <2>1. Launching'
    BY <1>0, <1>1, LaunchingStays
  <2>2. row.state = "queued" => row.try \in Ref
    BY <1>0, <1>a DEF AttemptInv, RowRef, NoRef, Row, Ref
  <2>3. SpentInv'
    BY <1>0, <1>1, <2>2, SpentStays DEF SpentInv
  <2> QED BY <2>1, <2>3
<1>2. ASSUME Terminal', row'.try = row.try, row'.ref = row.ref, base' = base PROVE Goal
  <2>1. Launching'
    BY <1>0, <1>2, LaunchingStays DEF Terminal
  <2> QED BY <1>2, <2>1 DEF SpentInv, Terminal, TerminalTask
<1>3. CASE ProcessRun \/ ProcessRunTimeout
  <2>1. base' = base /\ proc' = proc
    BY <1>3 DEF ProcessRun, ProcessRunTimeout
  <2>2. CASE row.state = "up_for_retry" /\ row' = Requeued
    <3>1. Launching'
      BY <1>0, <1>3, <2>1, <2>2, LaunchingNone
         DEF Launching, TerminalTask, ProcessRun, ProcessRunTimeout, Dispatch, AttemptInv, TypeOK, GorRec
    <3>2. SpentInv'
      BY <2>1, <2>2 DEF SpentInv, Spent, Failed, Requeued, Unref
    <3> QED BY <3>1, <3>2
  <2> QED BY <1>1, <1>3, <2>1, <2>2 DEF ProcessRun, ProcessRunTimeout, Requeue
<1>4. ASSUME NEW g \in Gor, Dispatch(g) PROVE Goal
  <2>1. /\ row.state = "scheduled" /\ row'.state = "queued" /\ row'.try = row.try + 1
        /\ row'.ref = row.try + 1 /\ base' = base /\ proc' = proc
    BY <1>4 DEF Dispatch
  <2>2. gor'[g].try = row.try + 1 /\ \A h \in Gor \ {g} : gor'[h] = gor[h]
    BY <1>0, <1>4 DEF Dispatch, AttemptInv, TypeOK
  <2>3. Launching'
    BY <2>1, <2>2 DEF Launching, TerminalTask
  <2>4. SpentInv'
    BY <1>a, <2>1 DEF SpentInv, Spent, Failed, Row
  <2> QED BY <2>3, <2>4
<1>5. CASE ListRuns \/ AdmitSkip \/ Operator \/ CancelAttempt \/ Crash \/ Restart \/ UNCHANGED vars
  BY <1>1, <1>5 DEF ListRuns, AdmitSkip, Operator, CancelRun, RetryTask, MarkTask, MarkRun,
                    CancelAttempt, Crash, Restart, vars
<1>6. CASE RetryWrite
  <2>1. base' = mu.snap.try /\ row'.try = mu.snap.try /\ row'.state = "scheduled" /\ gor' = gor
    BY <1>6 DEF RetryWrite, Writing, ClearedRow, Unref
  <2>2. row'.try \in Nat /\ \A g \in Gor : gor'[g].pc \in PreLaunch => gor'[g].try <= row'.try /\ gor'[g].try \in Nat
    BY <1>0 DEF AttemptInv, AttemptBound, Busy, PreLaunch, TypeOK, Row
  <2>3. Launching'
    BY <2>1, <2>2 DEF Launching
  <2> QED BY <2>1, <2>2, <2>3 DEF SpentInv, Spent
<1>7. CASE WriteBack /\ ~RetryWrite
  <2>1. base' = base /\ gor' = gor /\ Locked
    BY <1>7 DEF WriteBack, CancelWrite, TimeoutWrite, MarkWrite, Writing, Locked, MarkOp
  <2>2. \/ row' = row
        \/ Terminal' /\ row'.try = mu.snap.try /\ row'.ref = mu.snap.ref
    <3> DEFINE Ended(s) == row' = SetState(mu.snap, s)
    <3>1. ASSUME NEW s \in TerminalTask, Ended(s)
          PROVE  Terminal' /\ row'.try = mu.snap.try /\ row'.ref = mu.snap.ref
      <4>1. /\ SetState(mu.snap, s).state = s /\ SetState(mu.snap, s).try = mu.snap.try
            /\ SetState(mu.snap, s).ref = mu.snap.ref
        BY DEF SetState
      <4> QED BY <3>1, <4>1 DEF Terminal
    <3>2. CASE CancelWrite
      <4>1. Ended("cancelled") /\ "cancelled" \in TerminalTask
        BY <3>2 DEF CancelWrite, TerminalTask
      <4> QED BY <3>1, <4>1
    <3>3. CASE TimeoutWrite
      <4>1. row' = row \/ Ended("timed_out")
        BY <3>3 DEF TimeoutWrite, UpdateTaskInstanceGuarded
      <4>2. "timed_out" \in TerminalTask
        BY DEF TerminalTask
      <4> QED BY <3>1, <4>1, <4>2
    <3>4. ASSUME NEW op \in MarkOp, MarkWrite(op)
          PROVE  Terminal' /\ row'.try = mu.snap.try /\ row'.ref = mu.snap.ref
      <4>1. Ended(MarkTarget(op)) /\ MarkTarget(op) \in TerminalTask
        BY <3>4 DEF MarkWrite, MarkTarget, TerminalTask
      <4> QED BY <3>1, <4>1
    <3> QED BY <1>7, <3>2, <3>3, <3>4 DEF WriteBack
  <2>3. CASE row.ref = NoRef /\ ~(row' = row)
    <3>1. \A g \in Gor : gor[g].pc \in PreLaunch => gor[g].try <= base
      BY <1>0, <1>a, <2>3, ReportedRefs
         DEF Launching, Busy, PreLaunch, Ref, NoRef, AttemptInv, TypeOK, GorRec
    <3>2. \A g \in Gor : ~Dispatch(g)
      BY <2>1 DEF Dispatch
    <3>3. Launching'
      BY <1>0, <2>1, <3>1, <3>2, LaunchingNone
    <3> QED BY <2>2, <2>3, <3>3 DEF SpentInv, Terminal, TerminalTask
  <2>4. CASE row.ref # NoRef
    <3>1. mu.snap.try = row.try /\ mu.snap.ref # NoRef
      BY <1>0, <2>1, <2>4 DEF Agreed, SnapAgreed
    <3>2. mu.snap.ref = mu.snap.try /\ row.ref = row.try
      BY <1>0, <2>1, <2>4, <3>1 DEF AttemptInv, SnapRef, RowRef
    <3> QED BY <1>1, <1>2, <2>1, <2>2, <3>1, <3>2
  <2> QED BY <1>1, <2>1, <2>3, <2>4
<1>8. ASSUME NEW g \in Gor, Goroutine(g), row' # row PROVE Goal
  <2> DEFINE k == gor[g].try
  <2>1. /\ GiveBack(g) \/ MarkRunning(g) \/ Finalize(g)
        /\ base' = base /\ Busy(g) /\ rec' = rec /\ sched' = sched /\ Applies(k)
    BY <1>8 DEF Goroutine, PrepareFails, TaskCancelled, Launch, Poll, GiveBack, MarkRunning, Finalize,
                UpdateTaskInstanceGuarded, Busy
  <2>2. k \in Ref /\ row.ref = k /\ row.try = k /\ ~Terminal
    BY <1>0, <2>1, ReportedRefs DEF Applies, Terminal, AttemptInv, RowRef, NoRef, Ref
  <2>3. gor'[g].pc \notin PreLaunch
    BY <1>0, <2>1 DEF GiveBack, MarkRunning, Finalize, Stop, Go, Idle, PreLaunch, AttemptInv, TypeOK
  <2>4. \A h \in Gor : h # g /\ gor[h].pc \in PreLaunch => gor[h].try # k
    BY <1>0, <2>1 DEF AttemptInv, PreLaunchUnique
  <2>5. \A h \in Gor : h # g /\ gor[h].pc \in PreLaunch => gor[h].try <= base
    BY <1>0, <1>a, <2>2, <2>4 DEF Launching, AttemptInv, TypeOK, GorRec
  <2>6. \A h \in Gor : ~Dispatch(h)
    BY <2>1, <2>3 DEF GiveBack, MarkRunning, Finalize, Dispatch, Stop, Go, Idle
  <2>7. Launching'
    BY <1>0, <2>1, <2>3, <2>5, <2>6, LaunchingNone
  <2>8. CASE GiveBack(g)
    <3>1. row.state = "queued"
      BY <1>0, <2>2, <2>8 DEF Agreed, QueuedUntilMarked, GiveBack, PreLaunch
    <3>2. row'.state = "scheduled" /\ row'.try = row.try - 1 /\ proc' = proc
      BY <1>8, <2>2, <2>8 DEF GiveBack, UpdateTaskInstanceGuarded
    <3> QED BY <2>1, <2>7, <3>1, <3>2 DEF SpentInv, Spent, Failed
  <2>9. CASE MarkRunning(g)
    <3>1. row'.state = "running"
      BY <1>8, <2>9 DEF MarkRunning
    <3> QED BY <2>7, <3>1 DEF SpentInv
  <2>10. CASE Finalize(g)
    <3>1. row'.state = VerdictState(gor[g].out, k) /\ row'.try = k /\ proc' = proc /\ gor[g].pc = "finish"
      BY <1>8, <2>10 DEF Finalize, UpdateTaskInstanceGuarded
    <3>2. gor[g].out \in Verdict
      BY <1>0 DEF AttemptInv, TypeOK, GorRec
    <3>3. CASE gor[g].out = "failure"
      <4>1. Failed(k) /\ row'.state \in {"up_for_retry", "failed"}
        BY <3>1, <3>3, FailureStateRange DEF Failures, VerdictState
      <4> QED BY <2>7, <3>1, <4>1 DEF SpentInv, Spent, Failed
    <3>4. CASE gor[g].out \in {"success", "skipped"}
      BY <2>7, <3>1, <3>4 DEF SpentInv, VerdictState
    <3> QED BY <3>2, <3>3, <3>4 DEF Verdict
  <2> QED BY <2>1, <2>8, <2>9, <2>10
<1>9. CASE \E g \in Gor : Goroutine(g)
  <2>1. base' = base
    BY <1>9 DEF Goroutine, PrepareFails, TaskCancelled, Launch, Poll, GiveBack, MarkRunning, Finalize
  <2> QED BY <1>1, <1>8, <1>9, <2>1
<1>10. ASSUME NEW g \in Gor, RecoverQueued(g) \/ RecoverRunning(g), row' # row PROVE Goal
  <2> DEFINE k == rcv.snap.ref
             out == IF rcv.phase \in Verdict THEN rcv.phase ELSE "failure"
  <2>1. /\ base' = base /\ rcv.pc \in {"writeq", "writer"} /\ Applies(k)
        /\ RecoverQueued(g) <=> rcv.pc = "writeq"
    BY <1>10 DEF RecoverQueued, RecoverRunning, UpdateTaskInstanceGuarded
  <2>2. /\ k \in Ref /\ k = rcv.snap.try /\ row.ref = k /\ row.try = k /\ ~Terminal
        /\ sched = "recovering"
    BY <1>0, <2>1, ReportedRefs DEF Applies, Terminal, AttemptInv, RowRef, NoRef, Ref, RecoverQuiet
  <2>3. Launching'
    BY <1>0, <2>1, <2>2, LaunchingNone DEF AttemptInv, RecoverQuiet, Dispatch
  <2>4. CASE rcv.phase = "running"
    <3>1. row'.state = "running"
      BY <1>10, <2>4 DEF RecoverQueued, RecoverRunning, SetState, Verdict
    <3> QED BY <2>3, <3>1 DEF SpentInv
  <2>5. CASE rcv.phase = "unknown"
    <3>1. rcv.pc = "writeq"
      BY <2>1, <2>5 DEF Records
    <3>2. row.state = "queued"
      BY <1>0, <2>2, <3>1 DEF Agreed, RecoverAgreed
    <3>3. row'.state = "scheduled" /\ row'.try = row.try - 1 /\ proc' = proc
      BY <1>10, <2>1, <2>2, <2>5, <3>1 DEF RecoverQueued, UpdateTaskInstanceGuarded, Verdict
    <3> QED BY <2>1, <2>3, <3>2, <3>3 DEF SpentInv, Spent, Failed
  <2>6. CASE rcv.phase \in Verdict
    <3>1. row' = SetState(rcv.snap, VerdictState(rcv.phase, k)) /\ proc' = proc
      BY <1>10, <2>6 DEF RecoverQueued, RecoverRunning, UpdateTaskInstanceGuarded, Verdict
    <3>2. row'.state = VerdictState(rcv.phase, k) /\ row'.try = k
      BY <2>2, <3>1 DEF SetState
    <3>3. CASE rcv.phase = "failure"
      <4>1. Failed(k) /\ row'.state \in {"up_for_retry", "failed"}
        BY <2>1, <3>2, <3>3, FailureStateRange DEF Failures, VerdictState
      <4> QED BY <2>3, <3>1, <3>2, <4>1 DEF SpentInv, Spent, Failed
    <3>4. CASE rcv.phase \in {"success", "skipped"}
      BY <2>3, <3>2, <3>4 DEF SpentInv, VerdictState
    <3> QED BY <2>6, <3>3, <3>4 DEF Verdict
  <2> QED BY <1>0, <2>4, <2>5, <2>6 DEF AttemptInv, TypeOK, Phase
<1>11. CASE Recover
  <2>1. base' = base
    BY <1>11 DEF Recover, RecoverList, RecoverProbe, RecoverQueued, RecoverRunning
  <2>2. RecoverList \/ RecoverProbe => row' = row
    BY DEF RecoverList, RecoverProbe
  <2> QED BY <1>1, <1>10, <1>11, <2>1, <2>2 DEF Recover
<1>12. CASE \E k \in Ref : Exit(k) \/ Evict(k)
  BY <1>1, <1>12 DEF Exit, Evict
<1> QED BY <1>3, <1>4, <1>5, <1>6, <1>7, <1>9, <1>11, <1>12 DEF Next, Tick

\* An attempt that succeeded is never followed by another one of the same
\* request, across any number of scheduler crashes, provided the executor
\* survives them, keeps its results and answers its launches.
THEOREM SuccessNotRerun ==
    ASSUME Lasting PROVE Spec => NoRerunAfterSuccess
<1>1. Init => HonestInv
  BY DEF Init, NoRow, NoRcv, RcvAt, Idle, HonestInv, Records, Failures, Launching, SpentInv, Spent,
         Failed, PreLaunch
<1>2. LifecycleInv /\ LifecycleInv' /\ HonestInv /\ [Next]_vars => HonestInv'
  BY RecordsStep, FailuresStep, HonestStep DEF HonestInv, LifecycleInv
<1>3. HonestInv /\ [Next]_vars =>
        [row.state = "scheduled" /\ row'.state = "queued" /\ row.try > base
           => proc[row.try] # "ok"]_vars
  BY DEF HonestInv, SpentInv, Spent, Failed
<1> QED BY <1>1, <1>2, <1>3, LifecycleInvariant, PTL DEF Spec, NoRerunAfterSuccess
=============================================================================
