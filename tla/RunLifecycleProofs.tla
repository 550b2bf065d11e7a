------------------------- MODULE RunLifecycleProofs -------------------------
(***************************************************************************)
(* Theorems about RunLifecycle, for every DAG, every set of operators and  *)
(* every number of retries: its types, and what the pass of the tick, an   *)
(* operation that holds finalizeMu and a harvest waiting for admitReady    *)
(* know about one another.  The trigger rules its tasks wait for are the   *)
(* subject of the last part, for every set of dependencies.                *)
(***************************************************************************)
EXTENDS RunLifecycle, TriggerGate, FiniteSetTheorems, TLAPS

USE RunConstants

-----------------------------------------------------------------------------
(* Types.                                                                  *)

\* Each operation buys a task at most one attempt beyond its retries: a row
\* that may still be dispatched has one left, and so has a row that the
\* operation in progress is about to put back.
Budget ==
    \A t \in Tasks :
      /\ rows[t] = "queued" => tries[t] >= 1
      /\ tries[t] <= MaxRetries + 1 + ops
      /\ rows[t] \in {"scheduled", "up_for_retry", "none"} => tries[t] <= MaxRetries + ops
      /\ mu.op \notin {"cancel", "timeout"} /\ t \in mu.todo => tries[t] <= MaxRetries + ops

\* Only an operation has rows to write.
Drained == mu.op \in {"none", "tick"} => mu.todo = {}

Types == TypeOK /\ Budget

\* Init satisfies the types.
LEMMA TypesInit == Init => Types
<1> SUFFICES ASSUME Init PROVE Types
  OBVIOUS
<1>1. /\ run \in RunState /\ held \in BOOLEAN /\ late \in BOOLEAN /\ suppress \in BOOLEAN /\ down \in BOOLEAN
      /\ ready \in SUBSET Tasks /\ event \in {"none", "pending", "consumed"}
      /\ reader \in {"idle", "success", "consume"} /\ redone \in SUBSET Tasks
  BY DEF Init, RunState
<1>6. /\ ops \in 0..MaxOps /\ crashes \in 0..MaxCrash /\ tries = [t \in Tasks |-> 0]
      /\ tries \in [Tasks -> 0..(MaxRetries + 1 + MaxOps)]
  BY DEF Init
<1>2. rows \in [Tasks -> RowState] /\ \A t \in Tasks : rows[t] \in {"none", "scheduled"}
  BY DEF Init, RowState, TaskState
<1>3. tick \in [pc : TickPC, as : ActiveRun, held : BOOLEAN, stale : BOOLEAN]
  BY DEF Init, TickPC, ActiveRun, IdleTick
<1>4. /\ mu \in [op : Holder, todo : SUBSET Tasks, ref : SUBSET Tasks, task : Tasks \cup {0}, to : Markable]
      /\ mu.op = "none"
  BY DEF Init, Holder, Markable, Free
<1>5. Budget
  BY <1>2, <1>4, <1>6 DEF Budget
<1> QED BY <1>1, <1>2, <1>3, <1>4, <1>5, <1>6 DEF Types, TypeOK

\* What a lock taken on a set of rows looks like.
LEMMA LockType ==
    ASSUME NEW op \in Holder, NEW S \in SUBSET Tasks
    PROVE  /\ Lock(op, S) \in [op : Holder, todo : SUBSET Tasks, ref : SUBSET Tasks,
                               task : Tasks \cup {0}, to : Markable]
           /\ Lock(op, S).op = op /\ Lock(op, S).todo = S
           /\ Lock(op, S).ref = {t \in S : rows[t] # "scheduled"}
           /\ Lock(op, S).task = 0
BY DEF Lock, Markable

\* The lock that nobody holds.
LEMMA FreeType ==
    /\ Free \in [op : Holder, todo : SUBSET Tasks, ref : SUBSET Tasks,
                 task : Tasks \cup {0}, to : Markable]
    /\ Free.op = "none" /\ Free.todo = {} /\ Free.ref = {} /\ Free.task = 0
BY DEF Free, Holder, Markable

\* What a tick between passes looks like.
LEMMA IdleType ==
    /\ IdleTick \in [pc : TickPC, as : ActiveRun, held : BOOLEAN, stale : BOOLEAN]
    /\ IdleTick.pc = "idle" /\ IdleTick.as = "running"
BY DEF IdleTick, TickPC, ActiveRun

\* A guarded write of a run state gives a run state.
LEMMA RunStateType ==
    ASSUME NEW cur \in RunState, NEW target \in RunState
    PROVE  UpdateDagRunState(cur, target) \in RunState
BY DEF UpdateDagRunState

\* The run's outcome is a terminal state.
LEMMA OutcomeType == \A st : Outcome(st) \in {"failed", "cancelled", "success"}
BY DEF Outcome

\* The row an operation writes is a row state.
LEMMA WrittenType ==
    ASSUME TypeOK, NEW t \in Tasks
    PROVE  /\ Written(t) \in RowState
           /\ Written(t) # "queued" \/ Written(t) = rows[t]
BY DEF Written, TypeOK, RowState, TaskState, TerminalTask, LiveRow

\* What a pass of processRun does to the rows: it blocks, retries and resolves
\* gates, and a task it collects is scheduled and ready in the rows it leaves.
LEMMA PassRows ==
    ASSUME TypeOK, ProcessRun
    PROVE  /\ rows' \in [Tasks -> RowState]
           /\ \A t \in Tasks :
                \/ rows'[t] = rows[t]
                \/ /\ rows[t] \in {"scheduled", "up_for_retry"}
                   /\ rows'[t] \in {"scheduled", "upstream_failed", "skipped", "failed"}
           /\ \/ /\ tick' = [tick EXCEPT !.pc = "admit"] /\ mu' = Free
                 /\ ready' = ready
              \/ /\ tick' = [tick EXCEPT !.pc = "final"] /\ mu' = mu
                 /\ ready' \in SUBSET Tasks
                 /\ \A t \in ready' : rows'[t] = "scheduled" /\ Ready(Rule[t], Deps[t], rows')
<1>1. PICK B \in SUBSET InState(rows, "scheduled"), Q \in SUBSET InState(rows, "up_for_retry") :
         LET st == Set(Set(rows, B, "upstream_failed"), Q, "scheduled") IN
            IF tick.held
            THEN /\ rows' = st
                 /\ tick' = [tick EXCEPT !.pc = "admit"] /\ mu' = Free
                 /\ UNCHANGED ready
            ELSE \E gate \in [Gated -> Gate] :
                   /\ rows' = [t \in Tasks |-> IF t \in Gated /\ gate[t] \in {"skipped", "failed"}
                                               THEN gate[t] ELSE st[t]]
                   /\ \A t \in Gated : gate[t] # "open" => IsReady(t, SeenBy(t, st, rows'))
                   /\ ready' = {t \in InState(rows', "scheduled") :
                                  /\ IsReady(t, SeenBy(t, st, rows'))
                                  /\ t \in Gated => gate[t] = "open"}
                   /\ tick' = [tick EXCEPT !.pc = "final"] /\ UNCHANGED mu
  BY DEF ProcessRun
<1> DEFINE st == Set(Set(rows, B, "upstream_failed"), Q, "scheduled")
<1>2. /\ st \in [Tasks -> RowState]
      /\ \A t \in Tasks : \/ st[t] = rows[t]
                          \/ /\ rows[t] \in {"scheduled", "up_for_retry"}
                             /\ st[t] \in {"scheduled", "upstream_failed"}
  BY <1>1 DEF Set, InState, TypeOK, RowState, TaskState
<1>3. CASE tick.held
  BY <1>1, <1>2, <1>3
<1>4. CASE ~tick.held
  <2>1. PICK gate \in [Gated -> Gate] :
          /\ rows' = [t \in Tasks |-> IF t \in Gated /\ gate[t] \in {"skipped", "failed"}
                                      THEN gate[t] ELSE st[t]]
          /\ \A t \in Gated : gate[t] # "open" => IsReady(t, SeenBy(t, st, rows'))
          /\ ready' = {t \in InState(rows', "scheduled") :
                         /\ IsReady(t, SeenBy(t, st, rows'))
                         /\ t \in Gated => gate[t] = "open"}
          /\ tick' = [tick EXCEPT !.pc = "final"] /\ UNCHANGED mu
    BY <1>1, <1>4
  <2> HIDE DEF st
  <2>2. \A t \in Tasks : /\ SeenBy(t, st, rows')[t] = st[t]
                         /\ \A d \in Deps[t] : SeenBy(t, st, rows')[d] \in {rows'[d], st[d]}
    <3>1. \A t \in Tasks : t \in Nat /\ \A d \in Deps[t] : d \in Tasks
      OBVIOUS
    <3>2. ASSUME NEW t \in Tasks PROVE SeenBy(t, st, rows')[t] = st[t]
      <4>1. ~(t < t)
        BY <3>1
      <4> QED BY <4>1 DEF SeenBy
    <3>3. ASSUME NEW t \in Tasks, NEW d \in Deps[t] PROVE SeenBy(t, st, rows')[d] \in {rows'[d], st[d]}
      BY <3>1 DEF SeenBy
    <3> QED BY <3>2, <3>3
  <2>3. \A t \in Tasks : t \in Gated /\ gate[t] \in {"skipped", "failed"} => st[t] = "scheduled"
    BY <2>1, <2>2 DEF IsReady
  <2>4. rows' \in [Tasks -> RowState]
    BY <1>2, <2>1 DEF RowState, TaskState
  <2>5. \A t \in Tasks : st[t] = "scheduled" => rows[t] \in {"scheduled", "up_for_retry"}
    BY <1>2
  <2>6. \A t \in Tasks : rows'[t] = st[t] \/ (st[t] = "scheduled" /\ rows'[t] \in {"skipped", "failed"})
    BY <2>1, <2>3
  <2>7. ASSUME NEW t \in ready'
        PROVE  t \in Tasks /\ rows'[t] = "scheduled" /\ Ready(Rule[t], Deps[t], rows')
    <3>1. t \in Tasks /\ rows'[t] = "scheduled" /\ Ready(Rule[t], Deps[t], SeenBy(t, st, rows'))
      BY <2>1 DEF InState, IsReady
    <3>2. \A d \in Deps[t] : SeenBy(t, st, rows')[d] \in TerminalTask => SeenBy(t, st, rows')[d] = rows'[d]
      <4>1. ASSUME NEW d \in Deps[t], SeenBy(t, st, rows')[d] = st[d], st[d] \in TerminalTask PROVE st[d] = rows'[d]
        <5>1. d \in Tasks
          BY <3>1
        <5> QED BY <2>6, <4>1, <5>1 DEF TerminalTask
      <4> QED BY <2>2, <3>1, <4>1
    <3>3. FailedDep \subseteq TerminalTask /\ "success" \in TerminalTask /\ "skipped" \in TerminalTask
      BY DEF FailedDep, TerminalTask
    <3> HIDE DEF st
    <3> QED BY <3>1, <3>2, <3>3 DEF Ready, AllIn, SomeIn
  <2> QED BY <1>2, <2>1, <2>4, <2>5, <2>6, <2>7
<1> QED BY <1>3, <1>4

\* A step that starts no attempt keeps the budget if what it puts back has an
\* attempt left, or if it is the first step of an operation.
LEMMA BudgetKept ==
    ASSUME Types, TypeOK', tries' = tries, ops' >= ops,
           \A t \in Tasks :
             \/ rows'[t] = rows[t]
             \/ rows'[t] \in TerminalTask \cup {"running"}
             \/ /\ rows'[t] \in {"scheduled", "up_for_retry"}
                /\ \/ rows[t] \in {"scheduled", "up_for_retry", "none"}
                   \/ tries[t] <= MaxRetries + ops,
           \A t \in Tasks : mu'.op \notin {"cancel", "timeout"} /\ t \in mu'.todo =>
             (mu.op \notin {"cancel", "timeout"} /\ t \in mu.todo) \/ ops' > ops
    PROVE  Budget'
<1>1. ops \in Nat /\ ops' \in Nat /\ MaxRetries \in Nat /\ \A t \in Tasks : tries[t] \in Nat
  BY DEF Types, TypeOK
<1> SUFFICES ASSUME NEW t \in Tasks
             PROVE  /\ rows'[t] = "queued" => tries[t] >= 1
                    /\ tries[t] <= MaxRetries + 1 + ops'
                    /\ rows'[t] \in {"scheduled", "up_for_retry", "none"} => tries[t] <= MaxRetries + ops'
                    /\ mu'.op \notin {"cancel", "timeout"} /\ t \in mu'.todo => tries[t] <= MaxRetries + ops'
  BY DEF Budget
<1>2. /\ rows[t] = "queued" => tries[t] >= 1
      /\ tries[t] <= MaxRetries + 1 + ops
      /\ rows[t] \in {"scheduled", "up_for_retry", "none"} => tries[t] <= MaxRetries + ops
      /\ mu.op \notin {"cancel", "timeout"} /\ t \in mu.todo => tries[t] <= MaxRetries + ops
  BY DEF Types, Budget
<1>3. rows'[t] = "queued" => tries[t] >= 1
  BY <1>2 DEF TerminalTask
<1>4. tries[t] <= MaxRetries + 1 + ops'
  <2>1. \A a, b, c, d \in Nat : a <= b + 1 + c /\ d >= c => a <= b + 1 + d
    OBVIOUS
  <2> QED BY <1>1, <1>2, <2>1
<1>5. rows'[t] \in {"scheduled", "up_for_retry", "none"} => tries[t] <= MaxRetries + ops'
  BY <1>1, <1>2 DEF TerminalTask
<1>6. ASSUME mu'.op \notin {"cancel", "timeout"}, t \in mu'.todo PROVE tries[t] <= MaxRetries + ops'
  <2>1. CASE mu.op \notin {"cancel", "timeout"} /\ t \in mu.todo
    BY <1>1, <1>2, <2>1
  <2>2. CASE ops' > ops
    BY <1>1, <1>4, <1>2, <2>2
  <2> QED BY <1>6, <2>1, <2>2
<1> QED BY <1>3, <1>4, <1>5, <1>6

\* The tick up to the pass itself.
LEMMA TypesTick ==
    ASSUME Types,
           \/ ListRuns \/ StayQueued \/ BeginPass \/ StartRefused \/ NotOverdue
           \/ \E t \in Tasks : ExpandRun(t)
    PROVE  Types'
<1> USE FreeType, IdleType
<1>0. TypeOK
  BY DEF Types
<1>1. CASE ListRuns
  <2>1. TypeOK'
    BY <1>0, <1>1 DEF ListRuns, TypeOK, TickPC
  <2> QED BY <1>1, <2>1, BudgetKept DEF ListRuns, Types, TypeOK
<1>2. CASE StayQueued
  <2>1. TypeOK'
    BY <1>0, <1>2 DEF StayQueued, TypeOK
  <2> QED BY <1>2, <2>1, BudgetKept DEF StayQueued, Types, TypeOK
<1>3. CASE BeginPass
  <2>1. "tick" \in Holder /\ {} \in SUBSET Tasks
    BY DEF Holder
  <2>2. TypeOK' /\ mu'.todo = {}
    BY <1>0, <1>3, <2>1, LockType DEF BeginPass, TypeOK, TickPC
  <2> QED BY <1>3, <2>2, BudgetKept DEF BeginPass, Types, TypeOK
<1>4. CASE StartRefused \/ NotOverdue
  <2>1. TypeOK'
    BY <1>0, <1>4 DEF StartRefused, NotOverdue, TypeOK, TickPC
  <2> QED BY <1>4, <2>1, BudgetKept DEF StartRefused, NotOverdue, Types, TypeOK
<1>5. ASSUME NEW t \in Tasks, ExpandRun(t) PROVE Types'
  <2>1. TypeOK'
    BY <1>0, <1>5 DEF ExpandRun, TypeOK, RowState, TaskState
  <2>2. /\ \A u \in Tasks : rows'[u] = rows[u] \/ (rows'[u] = "scheduled" /\ rows[u] = "none")
        /\ mu' = mu /\ tries' = tries /\ ops' = ops
    BY <1>0, <1>5 DEF ExpandRun, TypeOK
  <2> QED BY <2>1, <2>2, BudgetKept DEF Types, TypeOK
<1> QED BY <1>1, <1>2, <1>3, <1>4, <1>5

\* The pass, the verdict and the deadline.
LEMMA TypesPass == ASSUME Types, ProcessRun \/ FinalizeRun \/ TimeoutRun \/ Deadline PROVE Types'
<1> USE FreeType
<1>0. TypeOK
  BY DEF Types
<1>1. CASE ProcessRun
  <2>1. /\ rows' \in [Tasks -> RowState]
        /\ \A t \in Tasks :
                \/ rows'[t] = rows[t]
                \/ /\ rows[t] \in {"scheduled", "up_for_retry"}
                   /\ rows'[t] \in {"scheduled", "upstream_failed", "skipped", "failed"}
        /\ ready' \in SUBSET Tasks
        /\ mu' = mu \/ mu' = Free
        /\ tick' = [tick EXCEPT !.pc = "admit"] \/ tick' = [tick EXCEPT !.pc = "final"]
    BY <1>0, <1>1, PassRows DEF TypeOK
  <2>2. /\ tick' \in [pc : TickPC, as : ActiveRun, held : BOOLEAN, stale : BOOLEAN]
        /\ run' \in RunState /\ late' \in BOOLEAN
    BY <1>0, <1>1, <2>1 DEF ProcessRun, TypeOK, RunState, TickPC
  <2>3. TypeOK'
    BY <1>0, <1>1, <2>1, <2>2 DEF ProcessRun, TypeOK
  <2>4. \A t \in Tasks :
             \/ rows'[t] = rows[t]
             \/ rows'[t] \in TerminalTask \cup {"running"}
             \/ /\ rows'[t] \in {"scheduled", "up_for_retry"}
                /\ \/ rows[t] \in {"scheduled", "up_for_retry", "none"}
                   \/ tries[t] <= MaxRetries + ops
    BY <2>1 DEF TerminalTask
  <2>5. tries' = tries /\ ops' = ops /\ ops \in Nat
    BY <1>0, <1>1 DEF ProcessRun, TypeOK
  <2>6. \A t \in Tasks : mu'.op \notin {"cancel", "timeout"} /\ t \in mu'.todo =>
             (mu.op \notin {"cancel", "timeout"} /\ t \in mu.todo) \/ ops' > ops
    BY <2>1
  <2> QED BY <2>3, <2>4, <2>5, <2>6, BudgetKept DEF Types
<1>2. CASE FinalizeRun
  <2>1. run' \in RunState /\ event' \in {"none", "pending", "consumed"} /\ suppress' \in BOOLEAN
    <3>1. Outcome(rows) \in RunState
      BY OutcomeType DEF RunState
    <3>2. UpdateDagRunState(run, Outcome(rows)) \in RunState
      BY <1>0, <3>1, RunStateType DEF TypeOK
    <3> QED BY <1>0, <1>2, <3>2 DEF FinalizeRun, TypeOK, Publish, RunState
  <2>2. TypeOK'
    BY <1>0, <1>2, <2>1 DEF FinalizeRun, TypeOK, TickPC
  <2> QED BY <1>2, <2>2, BudgetKept DEF FinalizeRun, Types, TypeOK
<1>3. CASE TimeoutRun
  <2>1. "timeout" \in Holder /\ "timed_out" \in RunState
    BY DEF Holder, RunState
  <2>2. /\ run' \in RunState /\ (mu'.op = "timeout" \/ mu'.todo = {})
        /\ mu' \in [op : Holder, todo : SUBSET Tasks, ref : SUBSET Tasks, task : Tasks \cup {0}, to : Markable]
    BY <1>0, <1>3, <2>1, LockType, RunStateType DEF TimeoutRun, TypeOK
  <2>3. TypeOK'
    BY <1>0, <1>3, <2>2 DEF TimeoutRun, TypeOK, TickPC
  <2>4. tries' = tries /\ ops' = ops /\ rows' = rows /\ ops \in Nat
    BY <1>0, <1>3 DEF TimeoutRun, TypeOK
  <2> QED BY <2>2, <2>3, <2>4, BudgetKept DEF Types
<1>4. CASE Deadline
  <2>1. TypeOK'
    BY <1>0, <1>4 DEF Deadline, TypeOK
  <2> QED BY <1>4, <2>1, BudgetKept DEF Deadline, Types, TypeOK
<1> QED BY <1>1, <1>2, <1>3, <1>4

\* Admission spends one attempt of each task it dispatches.
LEMMA TypesAdmit == ASSUME Types, Drained, AdmitReady PROVE Types'
<1>0. TypeOK
  BY DEF Types
<1>1. PICK S \in SUBSET Admissible :
         /\ rows' = Set(rows, S, "queued")
         /\ tries' = [t \in Tasks |-> IF t \in S THEN tries[t] + 1 ELSE tries[t]]
  BY DEF AdmitReady
<1>2. /\ rows' \in [Tasks -> RowState]
      /\ \A t \in Tasks : IF t \in S THEN rows'[t] = "queued" ELSE rows'[t] = rows[t]
  BY <1>0, <1>1 DEF Set, TypeOK, RowState, TaskState
<1>3. ops \in Nat /\ ops <= MaxOps /\ ops' = ops /\ MaxRetries \in Nat /\ MaxOps \in Nat
      /\ \A t \in Tasks : tries[t] \in Nat
  BY <1>0 DEF TypeOK, AdmitReady
<1>4. ASSUME NEW t \in Tasks
      PROVE  /\ tries'[t] \in Nat /\ tries'[t] <= MaxRetries + 1 + ops
             /\ t \in S => tries'[t] >= 1
             /\ t \notin S => tries'[t] = tries[t]
  <2>1. t \in S => tries[t] <= MaxRetries + ops
    BY DEF Types, Budget, Admissible
  <2>2. tries[t] <= MaxRetries + 1 + ops
    BY DEF Types, Budget
  <2> QED BY <1>1, <1>3, <2>1, <2>2
<1>5. tries' \in [Tasks -> 0..(MaxRetries + 1 + MaxOps)]
  BY <1>1, <1>3, <1>4
<1>6. TypeOK'
  BY <1>0, <1>2, <1>5, IdleType DEF AdmitReady, TypeOK
<1>7. mu' = mu /\ mu.todo = {}
  BY DEF AdmitReady, Unlocked, Drained
<1>8. ASSUME NEW t \in Tasks
      PROVE  /\ rows'[t] = "queued" => tries'[t] >= 1
             /\ tries'[t] <= MaxRetries + 1 + ops'
             /\ rows'[t] \in {"scheduled", "up_for_retry", "none"} => tries'[t] <= MaxRetries + ops'
             /\ mu'.op \notin {"cancel", "timeout"} /\ t \in mu'.todo => tries'[t] <= MaxRetries + ops'
  <2>1. CASE t \in S
    BY <1>2, <1>3, <1>4, <1>7, <2>1
  <2>2. CASE t \notin S
    BY <1>2, <1>3, <1>4, <1>7, <2>2 DEF Budget, Types
  <2> QED BY <2>1, <2>2
<1> QED BY <1>6, <1>8 DEF Types, Budget

\* An attempt starts, resolves or is given back.
LEMMA TypesAttempt == ASSUME Types, NEW t \in Tasks, Attempt(t) PROVE Types'
<1>0. TypeOK
  BY DEF Types
<1>a. MaxRetries \in Nat /\ ops \in Nat /\ \A u \in Tasks : tries[u] \in Nat
  BY <1>0 DEF TypeOK
<1>1. CASE Start(t)
  <2>1. TypeOK' /\ \A u \in Tasks : rows'[u] = rows[u] \/ rows'[u] = "running"
    BY <1>0, <1>1 DEF Start, TypeOK, RowState, TaskState
  <2> QED BY <1>1, <2>1, BudgetKept DEF Start, Types, TypeOK
<1>2. CASE Resolve(t)
  <2>1. PICK s \in {"success", "skipped", IF tries[t] <= MaxRetries THEN "up_for_retry" ELSE "failed"} :
           rows' = [rows EXCEPT ![t] = s]
    BY <1>2 DEF Resolve
  <2>2. s \in TerminalTask \/ (s = "up_for_retry" /\ tries[t] <= MaxRetries + ops)
    BY <1>a DEF TerminalTask
  <2>3. TypeOK'
    BY <1>0, <1>2, <2>1, <2>2 DEF Resolve, TypeOK, RowState, TaskState, TerminalTask
  <2>4. \A u \in Tasks : \/ rows'[u] = rows[u] \/ rows'[u] \in TerminalTask
                         \/ rows'[u] = "up_for_retry" /\ tries[u] <= MaxRetries + ops
    BY <1>0, <2>1, <2>2 DEF TypeOK
  <2>5. tries' = tries /\ ops' = ops /\ mu' = mu
    BY <1>2 DEF Resolve
  <2>6. \A u \in Tasks :
             \/ rows'[u] = rows[u]
             \/ rows'[u] \in TerminalTask \cup {"running"}
             \/ /\ rows'[u] \in {"scheduled", "up_for_retry"}
                /\ \/ rows[u] \in {"scheduled", "up_for_retry", "none"}
                   \/ tries[u] <= MaxRetries + ops
    BY <2>4
  <2> QED BY <1>a, <2>3, <2>5, <2>6, BudgetKept DEF Types
<1>3. CASE GiveBack(t)
  <2>1. tries[t] >= 1 /\ tries[t] <= MaxRetries + 1 + ops
    BY <1>3 DEF GiveBack, Types, Budget
  <2>2. /\ tries'[t] = tries[t] - 1 /\ \A u \in Tasks \ {t} : tries'[u] = tries[u] /\ rows'[u] = rows[u]
        /\ rows'[t] = "scheduled" /\ ops' = ops /\ mu' = mu
    BY <1>0, <1>3 DEF GiveBack, TypeOK
  <2>3. tries' \in [Tasks -> 0..(MaxRetries + 1 + MaxOps)]
    BY <1>0, <1>3, <2>1 DEF GiveBack, TypeOK
  <2>4. TypeOK'
    BY <1>0, <1>3, <2>3 DEF GiveBack, TypeOK, RowState, TaskState
  <2>5. ASSUME NEW u \in Tasks
        PROVE  /\ rows'[u] = "queued" => tries'[u] >= 1
               /\ tries'[u] <= MaxRetries + 1 + ops'
               /\ rows'[u] \in {"scheduled", "up_for_retry", "none"} => tries'[u] <= MaxRetries + ops'
               /\ mu'.op \notin {"cancel", "timeout"} /\ u \in mu'.todo => tries'[u] <= MaxRetries + ops'
    <3>1. CASE u = t
      <4>1. \A a, b, c \in Nat : a >= 1 /\ a <= b + 1 + c => a - 1 <= b + 1 + c /\ a - 1 <= b + c
        OBVIOUS
      <4>2. tries[t] - 1 <= MaxRetries + 1 + ops /\ tries[t] - 1 <= MaxRetries + ops
        BY <1>a, <2>1, <4>1
      <4> QED BY <2>2, <3>1, <4>2
    <3>2. CASE u # t
      BY <2>2, <3>2 DEF Types, Budget
    <3> QED BY <3>1, <3>2
  <2> QED BY <2>4, <2>5 DEF Types, Budget
<1> QED BY <1>1, <1>2, <1>3 DEF Attempt

\* An operation takes the lock and counts as one.
LEMMA TypesOperate == ASSUME Types, Operate PROVE Types'
<1> DEFINE Locks == [op : Holder, todo : SUBSET Tasks, ref : SUBSET Tasks,
                     task : Tasks \cup {0}, to : Markable]
<1>0. TypeOK
  BY DEF Types
<1>a. ops \in Nat /\ MaxOps \in Nat
  BY <1>0 DEF TypeOK
<1>1. ASSUME TypeOK', tries' = tries, ops' = ops + 1,
             \A t \in Tasks : rows'[t] = rows[t] \/ (rows'[t] = "scheduled" /\ rows[t] = "none")
      PROVE  Types'
  <2>1. ops' >= ops /\ ops' > ops
    BY <1>1, <1>a
  <2> QED BY <1>1, <2>1, BudgetKept DEF Types
<1>2. \A op : Offered(op) => ops' = ops + 1 /\ ops' \in 0..MaxOps
  BY <1>0, <1>a DEF Offered, TypeOK
<1>3. CASE CancelRun
  <2>1. "cancel" \in Holder /\ ToCancel \in SUBSET Tasks
    BY DEF Holder, ToCancel
  <2>2. Lock("cancel", ToCancel) \in Locks
    BY <2>1, LockType
  <2>3. TypeOK'
    BY <1>0, <1>2, <1>3, <2>2 DEF CancelRun, TypeOK, RunState
  <2> QED BY <1>1, <1>2, <1>3, <2>3 DEF CancelRun
<1>4. CASE SetDagRunHeld
  <2>1. TypeOK'
    BY <1>0, <1>2, <1>4 DEF SetDagRunHeld, TypeOK
  <2> QED BY <1>1, <1>2, <1>4, <2>1 DEF SetDagRunHeld
<1>5. ASSUME NEW ids \in SUBSET Tasks, Retry(ids) PROVE Types'
  <2>1. "retry" \in Holder
    BY DEF Holder
  <2>2. Lock("retry", ids) \in Locks
    BY <2>1, LockType
  <2>3. /\ rows' \in [Tasks -> RowState]
        /\ \A t \in Tasks : rows'[t] = rows[t] \/ (rows'[t] = "scheduled" /\ rows[t] = "none")
    BY <1>0, <1>5 DEF Retry, Set, InState, TypeOK, RowState, TaskState
  <2>4. TypeOK'
    BY <1>0, <1>2, <1>5, <2>2, <2>3 DEF Retry, TypeOK
  <2> QED BY <1>1, <1>2, <1>5, <2>3, <2>4 DEF Retry
<1>6. \A t \in Tasks : Downstream(t) \in SUBSET Tasks
  BY DEF Downstream
<1>7. CASE RetryRun
  <2> DEFINE ids == UNION {Downstream(t) : t \in {u \in Tasks :
                      rows[u] \in {"failed", "upstream_failed", "cancelled", "timed_out"}}}
  <2>1. ids \in SUBSET Tasks
    BY <1>6
  <2>2. Retry(ids)
    BY <1>7 DEF RetryRun
  <2> HIDE DEF ids
  <2> QED BY <1>5, <2>1, <2>2
<1>8. CASE \E t \in Tasks : RetryTask(t)
  BY <1>5, <1>6, <1>8 DEF RetryTask
<1>9. ASSUME NEW t \in Tasks, NEW target \in Markable, MarkTask(t, target) PROVE Types'
  <2>1. mu' \in Locks
    BY <1>6, <1>9 DEF MarkTask, Holder
  <2>2. TypeOK'
    BY <1>0, <1>2, <1>9, <2>1 DEF MarkTask, TypeOK
  <2> QED BY <1>1, <1>2, <1>9, <2>2 DEF MarkTask
<1>10. ASSUME NEW target \in {"success", "failed"}, MarkRun(target) PROVE Types'
  <2>1. UpdateDagRunState(run, target) \in RunState
    BY <1>0, RunStateType DEF TypeOK, RunState
  <2>2. run' \in RunState /\ event' \in {"none", "pending", "consumed"} /\ down' \in BOOLEAN
    BY <1>0, <1>10, <2>1 DEF MarkRun, TypeOK, RunState, Publish
  <2>3. TypeOK'
    BY <1>0, <1>2, <1>10, <2>2 DEF MarkRun, TypeOK
  <2> QED BY <1>1, <1>2, <1>10, <2>3 DEF MarkRun
<1> QED BY <1>3, <1>4, <1>7, <1>8, <1>9, <1>10 DEF Operate

\* Giving a run its deadline back keeps the types.
LEMMA ReactivateType ==
    ASSUME TypeOK, Reactivate
    PROVE  /\ run' \in RunState /\ late' \in BOOLEAN
           /\ tick' \in [pc : TickPC, as : ActiveRun, held : BOOLEAN, stale : BOOLEAN]
<1>1. UpdateDagRunState(run, "running") \in RunState
  BY RunStateType DEF TypeOK, RunState
<1> QED BY <1>1 DEF Reactivate, TypeOK

\* The operation that holds the lock writes its rows and lets it go.
LEMMA TypesComplete == ASSUME Types, Complete PROVE Types'
<1> USE FreeType
<1>0. TypeOK
  BY DEF Types
<1>a. ops \in Nat
  BY <1>0 DEF TypeOK
<1>1. ASSUME NEW t \in Tasks, WriteRow(t) PROVE Types'
  <2>1. /\ \A u \in Tasks \ {t} : rows'[u] = rows[u]
        /\ rows'[t] = Written(t) /\ t \in mu.todo /\ tries' = tries /\ ops' = ops
        /\ mu'.op = mu.op /\ mu'.todo = mu.todo \ {t}
    BY <1>0, <1>1 DEF WriteRow, TypeOK
  <2>2. TypeOK'
    BY <1>0, <1>1, WrittenType DEF WriteRow, Redo, TypeOK
  <2>3. \/ rows'[t] = rows[t] \/ rows'[t] \in TerminalTask
        \/ rows'[t] = "scheduled" /\ mu.op \notin {"cancel", "timeout"}
    BY <2>1 DEF Written, TerminalTask
  <2>4. ASSUME NEW u \in Tasks, mu.op \notin {"cancel", "timeout"}
        PROVE  \/ rows'[u] = rows[u] \/ rows'[u] \in TerminalTask \cup {"running"}
               \/ /\ rows'[u] \in {"scheduled", "up_for_retry"}
                  /\ \/ rows[u] \in {"scheduled", "up_for_retry", "none"}
                     \/ tries[u] <= MaxRetries + ops
    BY <2>1, <2>3, <2>4 DEF Types, Budget
  <2>5. CASE mu.op \notin {"cancel", "timeout"}
    <3>1. \A u \in Tasks : mu'.op \notin {"cancel", "timeout"} /\ u \in mu'.todo =>
             (mu.op \notin {"cancel", "timeout"} /\ u \in mu.todo) \/ ops' > ops
      BY <2>1
    <3>2. ops' >= ops /\ tries' = tries
      BY <1>a, <2>1
    <3>3. Budget'
      BY <2>2, <2>4, <2>5, <3>1, <3>2, BudgetKept
    <3> QED BY <2>2, <3>3 DEF Types
  <2>6. CASE mu.op \in {"cancel", "timeout"}
    <3>1. \A u \in Tasks : rows'[u] = rows[u] \/ rows'[u] \in TerminalTask
      BY <2>1, <2>3, <2>6
    <3>2. ops' >= ops /\ tries' = tries /\ mu'.op \in {"cancel", "timeout"}
      BY <1>a, <2>1, <2>6
    <3>3. Budget'
      BY <2>2, <3>1, <3>2, BudgetKept
    <3> QED BY <2>2, <3>3 DEF Types
  <2> QED BY <2>2, <2>5, <2>6 DEF Types
<1>2. CASE MarkSelf
  <2>1. /\ TypeOK' /\ tries' = tries /\ ops' = ops /\ mu'.op = mu.op /\ mu'.todo = mu.todo
        /\ \A t \in Tasks : rows'[t] = rows[t] \/ rows'[t] \in Markable
    BY <1>0, <1>2 DEF MarkSelf, Redo, TypeOK, RowState, TaskState, Markable
  <2>2. Markable \subseteq TerminalTask
    BY DEF Markable, TerminalTask
  <2> QED BY <1>a, <2>1, <2>2, BudgetKept DEF Types
<1>3. CASE StopDone
  <2>1. TypeOK'
    BY <1>0, <1>3 DEF StopDone, ClearSLAKeys, TypeOK
  <2> QED BY <1>3, <2>1, BudgetKept DEF StopDone, Types, TypeOK
<1>4. CASE RetryDone
  <2>1. TypeOK'
    BY <1>0, <1>4, ReactivateType DEF RetryDone, TypeOK
  <2> QED BY <1>4, <2>1, BudgetKept DEF RetryDone, Types, TypeOK
<1>5. CASE MarkDone
  <2>1. /\ run' \in RunState /\ late' \in BOOLEAN /\ suppress' \in BOOLEAN
        /\ tick' \in [pc : TickPC, as : ActiveRun, held : BOOLEAN, stale : BOOLEAN]
    BY <1>0, <1>5, ReactivateType DEF MarkDone, TypeOK
  <2>2. TypeOK'
    BY <1>0, <1>5, <2>1 DEF MarkDone, TypeOK
  <2> QED BY <1>5, <2>2, BudgetKept DEF MarkDone, Types, TypeOK
<1> QED BY <1>1, <1>2, <1>3, <1>4, <1>5 DEF Complete

\* Events and crashes leave the rows alone.
LEMMA TypesEvents == ASSUME Types, Events \/ Crash PROVE Types'
<1> USE FreeType, IdleType
<1>0. TypeOK
  BY DEF Types
<1>1. CASE ReadEvent
  <2>1. TypeOK'
    BY <1>0, <1>1 DEF ReadEvent, TypeOK
  <2> QED BY <1>1, <2>1, BudgetKept DEF ReadEvent, Types, TypeOK
<1>2. CASE TriggerDownstreams
  <2>1. TypeOK'
    BY <1>0, <1>2 DEF TriggerDownstreams, TypeOK
  <2> QED BY <1>2, <2>1, BudgetKept DEF TriggerDownstreams, Types, TypeOK
<1>3. CASE ConsumeEvent
  <2>1. TypeOK'
    BY <1>0, <1>3 DEF ConsumeEvent, TypeOK
  <2> QED BY <1>3, <2>1, BudgetKept DEF ConsumeEvent, Types, TypeOK
<1>4. CASE Crash
  <2>1. TypeOK'
    <3>1. crashes' \in 0..MaxCrash
      BY <1>0, <1>4 DEF Crash, TypeOK
    <3>2. {} \in SUBSET Tasks /\ FALSE \in BOOLEAN /\ "idle" \in {"idle", "success", "consume"}
      OBVIOUS
    <3> QED BY <1>0, <1>4, <3>1, <3>2 DEF Crash, TypeOK
  <2> QED BY <1>4, <2>1, BudgetKept DEF Crash, Types, TypeOK
<1> QED BY <1>1, <1>2, <1>3, <1>4 DEF Events

\* A lock is taken with its rows and let go without any.
LEMMA DrainedStep == ASSUME TypeOK, Drained, [Next]_vars PROVE Drained'
<1> USE FreeType
<1>1. ASSUME mu' = mu \/ mu' = Free PROVE Drained'
  BY <1>1 DEF Drained
<1>2. CASE Tick
  <2>1. CASE BeginPass
    BY <2>1 DEF BeginPass, Lock, Drained
  <2>2. CASE TimeoutRun
    BY <2>2 DEF TimeoutRun, Lock, Free, Drained
  <2>3. CASE ProcessRun
    BY <1>1, <2>3, PassRows
  <2> QED BY <1>1, <1>2, <2>1, <2>2, <2>3 DEF Tick, Decide, ListRuns, StayQueued, ExpandRun, StartRefused,
                                          FinalizeRun, NotOverdue, AdmitReady
<1>3. CASE Operate
  <2>1. Operate => mu' = mu \/ mu'.op \in {"cancel", "retry", "mark"}
    BY DEF Operate, CancelRun, RetryRun, RetryTask, Retry, SetDagRunHeld, MarkTask, MarkRun, Lock
  <2> QED BY <1>1, <1>3, <2>1 DEF Drained
<1>4. CASE Complete
  <2>1. ASSUME NEW t \in Tasks, WriteRow(t) PROVE Drained'
    BY <2>1 DEF WriteRow, Drained, TypeOK
  <2>2. CASE MarkSelf
    BY <2>2 DEF MarkSelf, Drained, TypeOK
  <2> QED BY <1>1, <1>4, <2>1, <2>2 DEF Complete, StopDone, RetryDone, MarkDone
<1> QED BY <1>1, <1>2, <1>3, <1>4 DEF Next, Events, ReadEvent, TriggerDownstreams, ConsumeEvent, Deadline,
                                      Crash, Attempt, Start, Resolve, GiveBack, vars

\* Every step keeps the types.
LEMMA TypesStep == ASSUME Types, Drained, [Next]_vars PROVE Types'
<1>1. CASE UNCHANGED vars
  BY <1>1 DEF vars, Types, TypeOK, Budget
<1> QED BY <1>1, TypesTick, TypesPass, TypesAdmit, TypesAttempt, TypesOperate, TypesComplete, TypesEvents
           DEF Next, Tick, Decide

\* The types hold in every state: no operation, retry or crash takes a task
\* beyond its attempts, one for each of its retries and one for each
\* operation.
THEOREM RunTypes == Spec => [](Types /\ Drained)
<1>1. Init => Types /\ Drained
  BY TypesInit, FreeType DEF Init, Drained
<1>2. Types /\ Drained /\ [Next]_vars => Types' /\ Drained'
  BY TypesStep, DrainedStep DEF Types
<1> QED BY <1>1, <1>2, PTL DEF Spec

-----------------------------------------------------------------------------
(* The pass, the lock and the harvest.                                     *)

AllExpanded  == \A t \in Tasks : rows[t] # "none"
NoneExpanded == \A t \in Tasks : rows[t] = "none"

\* finalizeMu is the tick's from BeginPass to the verdict.
TickLock == tick.pc \in {"expand", "final"} <=> mu.op = "tick"

\* A harvest waits only from the pass to admitReady, and a task in it has not
\* been dispatched by anybody else.
Harvest ==
    /\ ready # {} => tick.pc \in {"final", "admit"}
    /\ \A t \in ready : rows[t] \notin {"queued", "running"}

\* Which state the run is in under each lock, and after a pass.
LockRun ==
    /\ mu.op = "cancel" => run = "cancelled"
    /\ mu.op = "timeout" => run = "timed_out" /\ tick.pc = "admit"
    /\ mu.op = "retry" => run \in TerminalRun
    /\ tick.pc \in {"final", "admit"} => run # "queued"
    /\ tick.pc # "idle" /\ tick.as = "running" => run # "queued"

\* A run that runs has all its rows, and without crashes the rows are there
\* all or none except while a pass is creating them.
Expanded ==
    /\ run = "running" => AllExpanded
    /\ tick.pc # "idle" /\ tick.as = "running" => AllExpanded
    /\ mu.op \in {"retry", "mark"} => AllExpanded
    /\ MaxCrash = 0 /\ tick.pc # "expand" => AllExpanded \/ NoneExpanded

\* What a cancel and a deadline have dealt with is not in flight.
Stopped ==
    /\ mu.op = "cancel" => \A t \in Tasks \ mu.todo : rows[t] \in TerminalTask \cup {"none"}
    /\ mu.op = "timeout" => \A t \in Tasks \ mu.todo : rows[t] \in TerminalTask \cup {"none", "scheduled"}

\* A pass over a run that ended since it was listed finds nothing to do.
StalePass ==
    /\ run \in TerminalRun /\ mu.op \in {"none", "tick"} /\ tick.as = "running"
         /\ tick.pc \in {"listed", "expand", "final"} => AllTerminal
    /\ tick.pc = "final" => run = "running" \/ AllTerminal

\* No task harvested before the run ended is still to be dispatched, unless
\* a retry or a mark is putting it back.
Voided ==
    run \in TerminalRun /\ mu.op \notin {"retry", "mark"} =>
      \A t \in ready : rows[t] = "scheduled" =>
        mu.op \in {"cancel", "timeout"} /\ t \in mu.todo /\ (mu.op = "timeout" => t \notin mu.ref)

PassInv == TickLock /\ Harvest /\ LockRun /\ Expanded /\ Stopped /\ StalePass /\ Voided

\* The rows an operation has still to write exist.
Known == \A t \in mu.todo : rows[t] # "none"

Inv == Types /\ Drained /\ Known /\ PassInv

\* A mark can make a run active again that a crash left half expanded: a run
\* the next pass would then expand although it may have been cancelled since.
\* Everything below is about the others.
ExpandsWhole == MaxCrash = 0 \/ "mark_task" \notin Operators

\* The run is not ended, or ended; its row never holds anything else.
LEMMA RunSplit ==
    /\ RunState = ActiveRun \cup TerminalRun
    /\ "queued" \notin TerminalRun /\ "running" \notin TerminalRun
    /\ {"success", "failed", "cancelled", "timed_out"} = TerminalRun
    /\ \A cur, target : UpdateDagRunState(cur, target) \in {cur, target}
    /\ \A cur \in TerminalRun : UpdateDagRunState(cur, "running") = "running"
    /\ UpdateDagRunState("running", "timed_out") = "timed_out"
    /\ \A cur \in TerminalRun \cup {"queued"} : cur \in LegalPriorRunStates("running")
BY DEF RunState, ActiveRun, TerminalRun, UpdateDagRunState, LegalPriorRunStates

\* Rows in flight and rows at rest are different ones.
LEMMA RowSplit ==
    /\ LiveRow = {"scheduled", "queued", "running", "up_for_retry"}
    /\ RowState = LiveRow \cup TerminalTask \cup {"none"}
    /\ LiveRow \cap (TerminalTask \cup {"none"}) = {} /\ "none" \notin TerminalTask
BY DEF LiveRow, RowState, TaskState, TerminalTask

\* The run is new.
LEMMA PassInit == Init => PassInv
<1> USE FreeType, IdleType, RunSplit
<1>1. Init => TickLock /\ Harvest /\ LockRun /\ Stopped /\ StalePass /\ Voided
  BY DEF Init, TickLock, Harvest, LockRun, Stopped, StalePass, Voided
<1>2. Init => Expanded
  BY DEF Init, Expanded, AllExpanded, NoneExpanded
<1> QED BY <1>1, <1>2 DEF PassInv

\* Steps that leave run, rows, tick, harvest and lock alone.
LEMMA PassQuiet ==
    ASSUME PassInv, UNCHANGED <<run, rows, tick, ready, mu>>
    PROVE  PassInv'
BY DEF PassInv, TickLock, Harvest, LockRun, Expanded, AllExpanded, NoneExpanded, Stopped, StalePass,
       Voided, AllTerminal

\* The tick lists the run.
LEMMA PassListRuns == ASSUME Inv, ListRuns PROVE PassInv'
<1>1. /\ tick.pc = "idle" /\ tick'.pc = "listed" /\ tick'.as = run /\ run \in ActiveRun
      /\ UNCHANGED <<run, rows, ready, mu>>
  BY DEF ListRuns
<1>2. ready = {} /\ mu.op # "tick" /\ run \notin TerminalRun
  BY <1>1, RunSplit DEF Inv, PassInv, Harvest, TickLock, ActiveRun
<1>3. TickLock' /\ Harvest' /\ LockRun' /\ Voided' /\ Stopped' /\ StalePass'
  BY <1>1, <1>2 DEF Inv, PassInv, TickLock, Harvest, LockRun, Voided, Stopped, StalePass
<1>4. Expanded'
  BY <1>1 DEF Inv, PassInv, Expanded, AllExpanded, NoneExpanded
<1> QED BY <1>3, <1>4 DEF PassInv

\* The pass begins, or the queued run has to wait.
LEMMA PassBegin == ASSUME Inv, StayQueued \/ BeginPass PROVE PassInv'
<1>1. /\ tick.pc = "listed" /\ UNCHANGED <<run, rows, ready>>
      /\ \/ tick' = IdleTick /\ mu' = mu
         \/ mu.op = "none" /\ mu'.op = "tick" /\ tick'.pc = "expand" /\ tick'.as = tick.as
  BY DEF StayQueued, BeginPass, Unlocked, Lock, Inv, Types, TypeOK
<1>2. ready = {} /\ mu.op # "tick"
  BY <1>1 DEF Inv, PassInv, Harvest, TickLock
<1>3. TickLock' /\ Harvest' /\ LockRun' /\ Voided'
  BY <1>1, <1>2, IdleType DEF Inv, PassInv, TickLock, Harvest, LockRun, Voided
<1>4. Stopped' /\ StalePass'
  BY <1>1, <1>2, IdleType DEF Inv, PassInv, Stopped, StalePass, AllTerminal, LockRun
<1>5. Expanded'
  BY <1>1, IdleType DEF Inv, PassInv, Expanded, AllExpanded, NoneExpanded
<1> QED BY <1>3, <1>4, <1>5 DEF PassInv

\* expandRun creates a row.
LEMMA PassExpand == ASSUME Inv, NEW t \in Tasks, ExpandRun(t) PROVE PassInv'
<1>1. /\ tick.pc = "expand" /\ rows[t] = "none" /\ UNCHANGED <<run, tick, ready, mu>>
  BY DEF ExpandRun
<1>2. ready = {} /\ mu.op = "tick" /\ run # "running" /\ tick.as # "running"
  BY <1>1 DEF Inv, PassInv, Harvest, TickLock, Expanded, AllExpanded
<1>3. TickLock' /\ Harvest' /\ LockRun' /\ Voided' /\ Stopped' /\ StalePass'
  BY <1>1, <1>2 DEF Inv, PassInv, TickLock, Harvest, LockRun, Voided, Stopped, StalePass
<1>4. Expanded'
  BY <1>1, <1>2 DEF Expanded
<1> QED BY <1>3, <1>4 DEF PassInv

\* The pass: over a run that has ended it changes no row and harvests nothing.
LEMMA PassProcess == ASSUME Inv, ProcessRun PROVE PassInv'
<1>0. TypeOK
  BY DEF Inv, Types
<1>1. /\ tick.pc = "expand" /\ mu.op = "tick" /\ ready = {} /\ AllExpanded
      /\ tick'.as = tick.as /\ tick.as \in ActiveRun
      /\ tick.as = "queued" => run' = "running"
      /\ tick.as = "running" => run' = run
  BY <1>0, PassRows DEF ProcessRun, Inv, PassInv, TickLock, Harvest, InState, AllExpanded, ActiveRun, TypeOK
<1>2. /\ \A t \in Tasks :
                \/ rows'[t] = rows[t]
                \/ /\ rows[t] \in {"scheduled", "up_for_retry"}
                   /\ rows'[t] \in {"scheduled", "upstream_failed", "skipped", "failed"}
      /\ \/ tick'.pc = "admit" /\ mu'.op = "none" /\ ready' = {}
         \/ /\ tick'.pc = "final" /\ mu'.op = "tick"
            /\ \A t \in ready' : t \in Tasks /\ rows'[t] = "scheduled"
  <2>1. ready' \in SUBSET Tasks
    BY <1>0, PassRows DEF TypeOK
  <2> QED BY <1>0, <1>1, <2>1, PassRows, FreeType DEF TypeOK
<1>3. run' \in TerminalRun => AllTerminal /\ AllTerminal'
  <2>1. run' \in TerminalRun => tick.as = "running" /\ run \in TerminalRun
    BY <1>1, RunSplit DEF ActiveRun
  <2>2. run' \in TerminalRun => AllTerminal
    BY <1>1, <2>1 DEF Inv, PassInv, StalePass
  <2> QED BY <1>2, <2>2 DEF AllTerminal, TerminalTask
<1>4. AllExpanded'
  BY <1>1, <1>2 DEF AllExpanded
<1>5. run' # "queued" /\ run' \in RunState
  BY <1>0, <1>1 DEF Inv, PassInv, LockRun, ActiveRun, TypeOK, RunState
<1>6. TickLock' /\ Harvest' /\ LockRun' /\ Stopped' /\ Expanded'
  BY <1>2, <1>4, <1>5 DEF TickLock, Harvest, LockRun, Stopped, Expanded
<1>7. StalePass' /\ Voided'
  BY <1>2, <1>3, <1>5, RunSplit DEF StalePass, Voided, AllTerminal, TerminalTask, ActiveRun
<1> QED BY <1>6, <1>7 DEF PassInv

\* The store refuses to start the run because it runs.
LEMMA PassRefused == ASSUME Inv, StartRefused PROVE PassInv'
<1>1. /\ run = "running" /\ UNCHANGED <<run, rows>> /\ tick'.pc = "admit" /\ tick'.as = tick.as
      /\ mu'.op = "none" /\ ready' = {}
  BY FreeType, RunSplit DEF StartRefused, Inv, Types, TypeOK, PassInv, Harvest, ActiveRun
<1> QED BY <1>1, RunSplit DEF Inv, PassInv, TickLock, Harvest, LockRun, Expanded, AllExpanded, NoneExpanded,
                              Stopped, StalePass, Voided

\* Every task is terminal, so nothing harvested is left.
LEMMA PassFinalize == ASSUME Inv, FinalizeRun PROVE PassInv'
<1>0. TypeOK
  BY DEF Inv, Types
<1>1. /\ AllTerminal /\ UNCHANGED <<rows, ready>> /\ tick'.pc = "admit" /\ tick'.as = tick.as
      /\ mu'.op = "none" /\ tick.pc = "final"
  BY <1>0, FreeType DEF FinalizeRun, TypeOK
<1>2. run' = run \/ run' \in TerminalRun
  <2>1. Outcome(rows) \in TerminalRun /\ "success" \in TerminalRun
    BY OutcomeType, RunSplit
  <2> QED BY <2>1, RunSplit DEF FinalizeRun
<1>3. AllExpanded' /\ AllTerminal'
  BY <1>1, RowSplit DEF AllExpanded, AllTerminal
<1>4. run' # "queued"
  BY <1>1, <1>2, RunSplit DEF Inv, PassInv, LockRun
<1>5. TickLock' /\ Harvest' /\ LockRun' /\ Stopped' /\ Expanded' /\ StalePass'
  BY <1>1, <1>3, <1>4 DEF Inv, PassInv, TickLock, Harvest, LockRun, Stopped, Expanded, StalePass
<1>6. Voided'
  BY <1>0, <1>1 DEF Voided, AllTerminal, TypeOK, TerminalTask
<1> QED BY <1>5, <1>6 DEF PassInv

\* There is time left.
LEMMA PassNotOverdue == ASSUME Inv, NotOverdue PROVE PassInv'
<1>1. /\ ~AllTerminal /\ UNCHANGED <<run, rows, ready>> /\ tick'.pc = "admit" /\ tick'.as = tick.as
      /\ mu'.op = "none" /\ tick.pc = "final"
  BY FreeType DEF NotOverdue, Inv, Types, TypeOK
<1>2. run = "running"
  BY <1>1 DEF Inv, PassInv, StalePass
<1> QED BY <1>1, <1>2, RunSplit DEF Inv, PassInv, TickLock, Harvest, LockRun, Expanded, AllExpanded, NoneExpanded,
                              Stopped, StalePass, Voided

\* The deadline passed: all rows in flight, the harvest's included, are to be
\* written.
LEMMA PassTimeout == ASSUME Inv, TimeoutRun PROVE PassInv'
<1>0. TypeOK
  BY DEF Inv, Types
<1>1. /\ ~AllTerminal /\ UNCHANGED <<rows, ready>> /\ tick'.pc = "admit" /\ tick'.as = tick.as
      /\ tick.pc = "final"
  BY <1>0 DEF TimeoutRun, TypeOK
<1>2. run = "running"
  BY <1>1 DEF Inv, PassInv, StalePass
<1>3. run' = "timed_out" /\ mu' = Lock("timeout", {t \in Tasks : rows[t] \in LiveRow})
  BY <1>2, RunSplit DEF TimeoutRun
<1>4. /\ mu'.op = "timeout" /\ mu'.todo = {t \in Tasks : rows[t] \in LiveRow}
      /\ mu'.ref = {t \in mu'.todo : rows[t] # "scheduled"}
  BY <1>3 DEF Lock
<1>5. AllExpanded'
  BY <1>1, <1>2 DEF Inv, PassInv, Expanded, AllExpanded
<1>6. TickLock' /\ Harvest' /\ LockRun' /\ Expanded' /\ StalePass'
  BY <1>1, <1>3, <1>4, <1>5 DEF Inv, PassInv, TickLock, Harvest, LockRun, Expanded, StalePass
<1>7. Stopped'
  BY <1>0, <1>1, <1>4, RowSplit DEF Stopped, TypeOK
<1>8. Voided'
  BY <1>0, <1>1, <1>4, RowSplit DEF Voided, TypeOK
<1> QED BY <1>6, <1>7, <1>8 DEF PassInv

\* admitReady dispatches what it harvested, in a run that has not ended.
LEMMA PassAdmit == ASSUME Inv, AdmitReady PROVE PassInv' /\ (rows' = rows \/ run = "running")
<1>0. TypeOK
  BY DEF Inv, Types
<1>1. /\ tick.pc = "admit" /\ mu.op = "none" /\ UNCHANGED <<run, mu>> /\ ready' = {} /\ tick' = IdleTick
  BY DEF AdmitReady, Unlocked
<1>2. PICK S \in SUBSET Admissible : rows' = Set(rows, S, "queued")
  BY DEF AdmitReady
<1>3. rows' = rows \/ run = "running"
  <2>1. run # "queued" /\ run \in RunState
    BY <1>0, <1>1 DEF Inv, PassInv, LockRun, TypeOK
  <2>2. run \in TerminalRun => Admissible = {}
    BY <1>1 DEF Inv, PassInv, Voided, Admissible
  <2>3. S = {} => rows' = rows
    BY <1>0, <1>2 DEF Set, TypeOK
  <2> QED BY <2>1, <2>2, <2>3, RunSplit DEF ActiveRun
<1>4. \A t \in Tasks : rows'[t] = rows[t] \/ (rows[t] = "scheduled" /\ rows'[t] = "queued")
  BY <1>2 DEF Set, Admissible
<1>5. TickLock' /\ Harvest' /\ LockRun' /\ Stopped' /\ StalePass' /\ Voided'
  BY <1>1, IdleType DEF TickLock, Harvest, LockRun, Stopped, StalePass, Voided
<1>6. Expanded'
  BY <1>1, <1>4, IdleType DEF Inv, PassInv, Expanded, AllExpanded, NoneExpanded
<1> QED BY <1>3, <1>5, <1>6 DEF PassInv

\* An attempt touches only its own row, and that was in flight.
LEMMA PassAttempt == ASSUME Inv, NEW t \in Tasks, Attempt(t) PROVE PassInv'
<1>0. TypeOK
  BY DEF Inv, Types
<1>1. /\ rows[t] \in {"queued", "running"} /\ rows'[t] \in RowState \ {"queued", "none"}
      /\ \A u \in Tasks \ {t} : rows'[u] = rows[u]
      /\ UNCHANGED <<run, tick, ready, mu>>
  BY <1>0 DEF Attempt, Start, Resolve, GiveBack, TypeOK, RowState, TaskState
<1>2. t \notin ready /\ ~AllTerminal
  BY <1>1 DEF Inv, PassInv, Harvest, AllTerminal, TerminalTask
<1>3. TickLock' /\ Harvest' /\ LockRun' /\ StalePass' /\ Voided'
  BY <1>0, <1>1, <1>2 DEF Inv, PassInv, TickLock, Harvest, LockRun, StalePass, Voided, TypeOK
<1>4. Stopped'
  BY <1>1 DEF Inv, PassInv, Stopped, TerminalTask
<1>5. Expanded'
  BY <1>1 DEF Inv, PassInv, Expanded, AllExpanded, NoneExpanded
<1> QED BY <1>3, <1>4, <1>5 DEF PassInv

\* A cancel takes on every row in flight, the harvest's included.
LEMMA PassCancel == ASSUME Inv, CancelRun PROVE PassInv'
<1>0. TypeOK
  BY DEF Inv, Types
<1>1. /\ mu.op = "none" /\ run' = "cancelled" /\ UNCHANGED <<rows, tick, ready>>
      /\ mu'.op = "cancel" /\ mu'.todo = {t \in Tasks : rows[t] \in LiveRow}
  BY DEF CancelRun, Unlocked, Lock, ToCancel
<1>2. tick.pc \notin {"expand", "final"}
  BY <1>1 DEF Inv, PassInv, TickLock
<1>3. TickLock' /\ Harvest' /\ LockRun' /\ StalePass'
  BY <1>1, <1>2 DEF Inv, PassInv, TickLock, Harvest, LockRun, StalePass
<1>4. Stopped' /\ Voided'
  BY <1>0, <1>1, RowSplit DEF Stopped, Voided, TypeOK
<1>5. Expanded'
  BY <1>1 DEF Inv, PassInv, Expanded, AllExpanded, NoneExpanded
<1> QED BY <1>3, <1>4, <1>5 DEF PassInv

\* A retry adds what is missing before it clears anything.
LEMMA PassRetry == ASSUME Inv, NEW ids, Retry(ids) PROVE PassInv'
<1>0. TypeOK
  BY DEF Inv, Types
<1>1. /\ mu.op = "none" /\ run \in TerminalRun /\ UNCHANGED <<run, tick, ready>>
      /\ mu'.op = "retry"
      /\ \A t \in Tasks : rows'[t] = IF rows[t] = "none" THEN "scheduled" ELSE rows[t]
  BY DEF Retry, Unlocked, Lock, Set, InState
<1>2. tick.pc \notin {"expand", "final"}
  BY <1>1 DEF Inv, PassInv, TickLock
<1>3. \A t \in ready : t \in Tasks
  BY <1>0 DEF TypeOK
<1>4. TickLock' /\ Harvest' /\ LockRun' /\ StalePass' /\ Stopped' /\ Voided'
  BY <1>1, <1>2, <1>3 DEF Inv, PassInv, TickLock, Harvest, LockRun, StalePass, Stopped, Voided
<1>5. Expanded'
  BY <1>1, <1>2 DEF Expanded, AllExpanded
<1> QED BY <1>4, <1>5 DEF PassInv

\* A mark of a task, of a run with all its rows.
LEMMA PassMarkTask ==
    ASSUME ExpandsWhole, Inv, NEW t \in Tasks, NEW target, MarkTask(t, target)
    PROVE  PassInv'
<1>1. /\ mu.op = "none" /\ mu'.op = "mark" /\ UNCHANGED <<run, rows, tick, ready>>
      /\ rows[t] # "none" /\ "mark_task" \in Operators
  BY DEF MarkTask, Unlocked, Offered
<1>2. tick.pc \notin {"expand", "final"}
  BY <1>1 DEF Inv, PassInv, TickLock
<1>3. AllExpanded
  BY <1>1, <1>2 DEF ExpandsWhole, Inv, PassInv, Expanded, NoneExpanded
<1>4. TickLock' /\ Harvest' /\ LockRun' /\ StalePass' /\ Stopped' /\ Voided'
  BY <1>1, <1>2 DEF Inv, PassInv, TickLock, Harvest, LockRun, StalePass, Stopped, Voided
<1>5. Expanded'
  BY <1>1, <1>3 DEF Expanded, AllExpanded
<1> QED BY <1>4, <1>5 DEF PassInv

\* A mark of a run that ended leaves it ended.
LEMMA PassMarkRun == ASSUME Inv, NEW target \in {"success", "failed"}, MarkRun(target) PROVE PassInv'
<1>1. /\ mu.op = "none" /\ run \in TerminalRun /\ run' \in TerminalRun /\ UNCHANGED <<rows, tick, ready, mu>>
  BY RunSplit DEF MarkRun, Unlocked
<1> QED BY <1>1, RunSplit DEF Inv, PassInv, TickLock, Harvest, LockRun, StalePass, Stopped, Voided, Expanded,
              AllExpanded, NoneExpanded, AllTerminal

\* An operation writes one of its rows.
LEMMA PassWriteRow == ASSUME Inv, NEW t \in Tasks, WriteRow(t) PROVE PassInv'
<1>0. TypeOK
  BY DEF Inv, Types
<1>1. /\ t \in mu.todo /\ mu.op \notin {"none", "tick"} /\ mu'.op = mu.op /\ mu'.todo = mu.todo \ {t}
      /\ mu'.ref = mu.ref
      /\ \A u \in Tasks \ {t} : rows'[u] = rows[u]
      /\ rows'[t] = Written(t) /\ UNCHANGED <<run, tick, ready>>
  BY <1>0 DEF WriteRow, TypeOK, Inv, Drained
<1>2. /\ mu.op = "cancel" => rows'[t] \in TerminalTask
      /\ mu.op = "timeout" => \/ rows'[t] \in TerminalTask \cup {"none"}
                              \/ rows'[t] = "scheduled" /\ t \in mu.ref
      /\ mu.op \notin {"cancel", "timeout"} => rows'[t] = "scheduled"
      /\ rows'[t] = "none" => rows[t] = "none"
  BY <1>0, <1>1, RowSplit DEF Written, TypeOK, TerminalTask
<1>3. tick.pc \notin {"expand", "final"}
  BY <1>1 DEF Inv, PassInv, TickLock
<1>4. \A u \in ready : u \in Tasks /\ rows'[u] \notin {"queued", "running"}
  BY <1>0, <1>1, <1>2, RowSplit DEF Inv, PassInv, Harvest, TypeOK, TerminalTask
<1>5. TickLock' /\ Harvest' /\ LockRun' /\ StalePass'
  BY <1>1, <1>3, <1>4 DEF Inv, PassInv, TickLock, Harvest, LockRun, StalePass
<1>6. Stopped'
  BY <1>1, <1>2 DEF Inv, PassInv, Stopped
<1>7. Voided'
  <2>1. ASSUME run \in TerminalRun, mu.op \notin {"retry", "mark"}, NEW u \in ready, rows'[u] = "scheduled"
        PROVE  /\ mu'.op \in {"cancel", "timeout"} /\ u \in mu'.todo
               /\ mu'.op = "timeout" => u \notin mu'.ref
    <3>1. mu.op \in {"cancel", "timeout"}
      BY <1>0, <1>1, <2>1 DEF TypeOK, Holder
    <3>2. CASE u # t
      BY <1>1, <1>4, <2>1, <3>1, <3>2 DEF Inv, PassInv, Voided
    <3>3. CASE u = t
      BY <1>1, <1>2, <2>1, <3>1, <3>3 DEF Inv, PassInv, Voided, TerminalTask, Harvest, Written
    <3> QED BY <3>2, <3>3
  <2> QED BY <1>1, <2>1 DEF Voided
<1>8. Expanded'
  BY <1>1, <1>2, <1>3 DEF Inv, PassInv, Expanded, AllExpanded, NoneExpanded, Known
<1> QED BY <1>5, <1>6, <1>7, <1>8 DEF PassInv

\* A mark writes the row it is about.
LEMMA PassMarkSelf == ASSUME Inv, MarkSelf PROVE PassInv'
<1>0. TypeOK
  BY DEF Inv, Types
<1>1. /\ mu.op = "mark" /\ mu'.op = "mark" /\ UNCHANGED <<run, tick, ready>>
      /\ \A u \in Tasks : rows'[u] = rows[u] \/ rows'[u] \in TerminalTask
  BY <1>0 DEF MarkSelf, TypeOK, Markable, TerminalTask
<1>2. tick.pc \notin {"expand", "final"}
  BY <1>1 DEF Inv, PassInv, TickLock
<1>3. \A u \in ready : u \in Tasks /\ rows'[u] \notin {"queued", "running"}
  BY <1>0, <1>1 DEF Inv, PassInv, Harvest, TypeOK, TerminalTask
<1>4. TickLock' /\ Harvest' /\ LockRun' /\ StalePass' /\ Stopped' /\ Voided'
  BY <1>1, <1>2, <1>3 DEF Inv, PassInv, TickLock, Harvest, LockRun, StalePass, Stopped, Voided
<1>5. Expanded'
  BY <1>1, RowSplit DEF Inv, PassInv, Expanded, AllExpanded
<1> QED BY <1>4, <1>5 DEF PassInv

\* A cancel and a deadline are through with their rows.
LEMMA PassStopDone == ASSUME Inv, StopDone PROVE PassInv'
<1>0. TypeOK
  BY DEF Inv, Types
<1>1. /\ mu.op \in {"cancel", "timeout"} /\ mu.todo = {} /\ mu'.op = "none"
      /\ UNCHANGED <<run, rows, tick, ready>>
  BY FreeType DEF StopDone
<1>2. tick.pc \notin {"expand", "final"}
  BY <1>1 DEF Inv, PassInv, TickLock
<1>3. TickLock' /\ Harvest' /\ LockRun' /\ Stopped' /\ Voided'
  BY <1>1, <1>2, RunSplit DEF Inv, PassInv, TickLock, Harvest, LockRun, Stopped, Voided
<1>4. StalePass'
  BY <1>1, <1>2 DEF Inv, PassInv, StalePass, Stopped, Expanded, AllExpanded, AllTerminal, LockRun
<1>5. Expanded'
  BY <1>1, <1>2 DEF Inv, PassInv, Expanded, AllExpanded, NoneExpanded
<1> QED BY <1>3, <1>4, <1>5 DEF PassInv

\* A retry, or a mark of a run that ended, makes it active again.
LEMMA PassReactivate == ASSUME Inv, RetryDone \/ MarkDone PROVE PassInv'
<1>0. TypeOK
  BY DEF Inv, Types
<1>1. /\ mu.op \in {"retry", "mark"} /\ mu'.op = "none" /\ UNCHANGED <<rows, ready>>
      /\ tick'.pc = tick.pc /\ tick'.as = tick.as
      /\ run' = "running" \/ (run' = run /\ run \in ActiveRun)
  BY <1>0, FreeType, RunSplit DEF RetryDone, MarkDone, Reactivate, TypeOK, Inv, PassInv, LockRun
<1>2. tick.pc \notin {"expand", "final"} /\ AllExpanded /\ AllExpanded'
  BY <1>1 DEF Inv, PassInv, TickLock, Expanded, AllExpanded
<1>3. run' \notin TerminalRun
  BY <1>1, RunSplit DEF ActiveRun
<1>4. TickLock' /\ Harvest' /\ LockRun' /\ Stopped' /\ Voided' /\ StalePass' /\ Expanded'
  BY <1>1, <1>2, <1>3 DEF Inv, PassInv, TickLock, Harvest, LockRun, Stopped, Voided, StalePass, Expanded
<1> QED BY <1>4 DEF PassInv

\* A crash takes the tick, the harvest and the lock with it.
LEMMA PassCrash == ASSUME Inv, Crash PROVE PassInv'
<1>0. TypeOK
  BY DEF Inv, Types
<1>1. tick' = IdleTick /\ ready' = {} /\ mu' = Free /\ UNCHANGED <<run, rows>> /\ MaxCrash # 0
  BY <1>0 DEF Crash, TypeOK
<1> QED BY <1>1, FreeType, IdleType DEF Inv, PassInv, TickLock, Harvest, LockRun, Stopped, Voided, StalePass,
                                      Expanded, AllExpanded

\* A row never disappears, and no operation takes on a missing one.
LEMMA KnownStep == ASSUME Inv, [Next]_vars PROVE Known'
<1>0. TypeOK /\ Known
  BY DEF Inv, Types
<1>1. ASSUME mu'.todo \subseteq mu.todo, \A t \in Tasks : rows'[t] = rows[t] \/ rows'[t] # "none"
      PROVE  Known'
  BY <1>0, <1>1 DEF Known, TypeOK
<1>2. CASE Tick
  <2>1. ASSUME NEW t \in Tasks, ExpandRun(t) PROVE Known'
    BY <1>0, <1>1, <2>1 DEF ExpandRun, TypeOK
  <2>2. CASE ProcessRun
    <3>1. mu' = mu \/ mu'.todo = {}
      BY <1>0, <2>2, PassRows, FreeType
    <3>2. \A t \in Tasks : rows'[t] = rows[t] \/ rows'[t] # "none"
      BY <1>0, <2>2, PassRows
    <3> QED BY <1>1, <3>1, <3>2
  <2>3. CASE AdmitReady
    BY <1>0, <1>1, <2>3 DEF AdmitReady, Set
  <2>4. CASE BeginPass
    BY <2>4 DEF BeginPass, Lock, Known
  <2>5. CASE TimeoutRun
    BY <2>5, FreeType, RowSplit DEF TimeoutRun, Lock, Known
  <2> QED BY <1>0, <1>1, <1>2, <2>1, <2>2, <2>3, <2>4, <2>5, FreeType
             DEF Tick, Decide, ListRuns, StayQueued, StartRefused, FinalizeRun, NotOverdue
<1>3. CASE Operate
  <2>1. CASE CancelRun
    BY <2>1, RowSplit DEF CancelRun, Lock, ToCancel, Known
  <2>2. ASSUME NEW ids \in SUBSET Tasks, Retry(ids) PROVE Known'
    BY <2>2 DEF Retry, Lock, Known, Set, InState
  <2>3. \A t \in Tasks : Downstream(t) \in SUBSET Tasks
    BY DEF Downstream
  <2>4. ASSUME NEW t \in Tasks, NEW target, MarkTask(t, target) PROVE Known'
    BY <2>4 DEF MarkTask, Known
  <2>5. CASE RetryRun
    <3> DEFINE ids == UNION {Downstream(t) : t \in {u \in Tasks :
                        rows[u] \in {"failed", "upstream_failed", "cancelled", "timed_out"}}}
    <3>1. ids \in SUBSET Tasks
      BY <2>3
    <3>2. Retry(ids)
      BY <2>5 DEF RetryRun
    <3> HIDE DEF ids
    <3> QED BY <2>2, <3>1, <3>2
  <2>6. CASE \E t \in Tasks : RetryTask(t)
    BY <2>2, <2>3, <2>6 DEF RetryTask
  <2> QED BY <1>0, <1>1, <1>3, <2>1, <2>4, <2>5, <2>6 DEF Operate, SetDagRunHeld, MarkRun
<1>4. CASE Complete
  <2>1. ASSUME NEW t \in Tasks, WriteRow(t) PROVE Known'
    <3>1. mu'.todo \subseteq mu.todo /\ rows[t] # "none" /\ rows'[t] = Written(t)
          /\ \A u \in Tasks \ {t} : rows'[u] = rows[u]
      BY <1>0, <2>1 DEF WriteRow, TypeOK, Known
    <3>2. Written(t) # "none"
      BY <3>1 DEF Written
    <3> QED BY <1>1, <3>1, <3>2
  <2>2. CASE MarkSelf
    BY <1>0, <1>1, <2>2 DEF MarkSelf, TypeOK, Markable
  <2> QED BY <1>0, <1>1, <1>4, <2>1, <2>2, FreeType DEF Complete, StopDone, RetryDone, MarkDone
<1>5. ASSUME NEW t \in Tasks, Attempt(t) PROVE Known'
  <2>1. mu' = mu /\ \A u \in Tasks : rows'[u] = rows[u] \/ rows'[u] # "none"
    BY <1>0, <1>5 DEF Attempt, Start, Resolve, GiveBack, TypeOK
  <2> QED BY <1>1, <2>1
<1> QED BY <1>0, <1>1, <1>2, <1>3, <1>4, <1>5, FreeType
           DEF Next, Events, ReadEvent, TriggerDownstreams, ConsumeEvent, Deadline, Crash, vars

\* Every step keeps the invariant.
LEMMA InvStep == ASSUME ExpandsWhole, Inv, [Next]_vars PROVE Inv'
<1>1. Types' /\ Drained' /\ Known'
  BY TypesStep, DrainedStep, KnownStep DEF Inv, Types
<1> SUFFICES PassInv'
  BY <1>1 DEF Inv
<1>2. CASE Tick
  BY <1>2, PassListRuns, PassBegin, PassExpand, PassProcess, PassRefused, PassFinalize, PassNotOverdue,
     PassTimeout, PassAdmit DEF Tick, Decide
<1>3. CASE Operate
  <2>1. CASE SetDagRunHeld
    BY <2>1, PassQuiet DEF SetDagRunHeld, Inv
  <2>2. CASE RetryRun \/ \E t \in Tasks : RetryTask(t)
    BY <2>2, PassRetry DEF RetryRun, RetryTask
  <2> QED BY <1>3, <2>1, <2>2, PassCancel, PassMarkTask, PassMarkRun DEF Operate
<1>4. CASE Complete
  BY <1>4, PassWriteRow, PassMarkSelf, PassStopDone, PassReactivate DEF Complete
<1>5. CASE Events \/ Deadline \/ UNCHANGED vars
  BY <1>5, PassQuiet DEF Events, ReadEvent, TriggerDownstreams, ConsumeEvent, Deadline, vars, Inv
<1> QED BY <1>2, <1>3, <1>4, <1>5, PassAttempt, PassCrash DEF Next

\* The run is new, with all or none of its rows.
LEMMA InvInit == Init => Inv
BY TypesInit, PassInit, FreeType DEF Inv, Init, Drained, Known


-----------------------------------------------------------------------------
(* A run that ended.                                                       *)

\* No crash between the writes of one operation, and no operator who declares
\* a run successful whatever its tasks did: with either, the promises about
\* an ended run are broken, as the README shows.
Undisturbed == MaxCrash = 0 /\ "mark_run" \notin Operators

\* A suppressed notification belongs to a run that is being driven again, or
\* to one that is just being stopped.
Suppressed == suppress => run = "running" \/ mu.op \in {"cancel", "timeout"}

\* An ended run is at rest unless an operation is at work on it.
Settled ==
    run \in TerminalRun /\ mu.op \in {"none", "tick"} =>
      \A t \in Tasks : rows[t] \notin {"queued", "running"}

\* A successful run is not in any pass, and its rows say so until a retry or
\* a mark changes them.
Honest ==
    run = "success" =>
      /\ tick.pc \in {"idle", "admit"}
      /\ mu.op \notin {"retry", "mark"} => \A t \in Tasks : rows[t] \in {"success", "skipped"}

EndInv == Suppressed /\ Settled /\ Honest

\* What changes nothing that the promises mention.
LEMMA EndQuiet ==
    ASSUME EndInv, UNCHANGED <<run, rows>>, suppress' = suppress \/ suppress' = FALSE,
           mu'.op = mu.op \/ {mu.op, mu'.op} = {"none", "tick"},
           tick'.pc = tick.pc \/ tick'.pc \in {"idle", "admit"} \/ run # "success"
    PROVE  EndInv'
BY DEF EndInv, Suppressed, Settled, Honest

\* The tick.
LEMMA EndTick == ASSUME Inv, EndInv, Tick PROVE EndInv'
<1> USE FreeType, IdleType, RunSplit
<1>0. TypeOK /\ PassInv
  BY DEF Inv, Types
<1>1. CASE ListRuns
  <2>1. run # "success" /\ UNCHANGED <<run, rows, suppress, mu>>
    BY <1>1 DEF ListRuns, ActiveRun
  <2> QED BY <2>1, EndQuiet
<1>2. CASE StayQueued \/ BeginPass
  <2>1. tick.pc = "listed" /\ UNCHANGED <<run, rows, suppress>> /\ (mu' = mu \/ (mu.op = "none" /\ mu'.op = "tick"))
    BY <1>2 DEF StayQueued, BeginPass, Unlocked, Lock
  <2>2. run # "success"
    BY <2>1 DEF EndInv, Honest
  <2> QED BY <2>1, <2>2, EndQuiet
<1>3. ASSUME NEW t \in Tasks, ExpandRun(t) PROVE EndInv'
  <2>1. /\ run # "success" /\ UNCHANGED <<run, suppress, mu>>
        /\ \A u \in Tasks : rows'[u] = rows[u] \/ rows'[u] = "scheduled"
    BY <1>0, <1>3 DEF ExpandRun, EndInv, Honest, TypeOK
  <2> QED BY <2>1 DEF EndInv, Suppressed, Settled, Honest
<1>4. CASE ProcessRun
  <2>1. /\ tick.pc = "expand" /\ mu.op = "tick" /\ run # "success" /\ suppress' = suppress
        /\ run' = "running" \/ run' = run
    BY <1>0, <1>4 DEF ProcessRun, EndInv, Honest, PassInv, TickLock
  <2>2. \A t \in Tasks : rows'[t] = rows[t] \/ rows'[t] \notin {"queued", "running"}
    BY <1>0, <1>4, PassRows
  <2>3. Settled
    BY DEF EndInv
  <2>4. Suppressed' /\ Honest'
    BY <2>1 DEF EndInv, Suppressed, Honest
  <2>5. Settled'
    BY <2>1, <2>2, <2>3 DEF Settled
  <2> QED BY <2>4, <2>5 DEF EndInv
<1>5. CASE StartRefused \/ NotOverdue
  <2>1. mu.op = "tick" /\ mu'.op = "none" /\ tick'.pc = "admit" /\ UNCHANGED <<run, rows, suppress>>
    BY <1>0, <1>5 DEF StartRefused, NotOverdue, PassInv, TickLock, TypeOK
  <2> QED BY <2>1, EndQuiet
<1>6. CASE FinalizeRun
  <2>1. /\ tick.pc = "final" /\ mu.op = "tick" /\ AllTerminal /\ rows' = rows /\ mu'.op = "none"
        /\ tick'.pc = "admit" /\ run # "success"
    BY <1>0, <1>6 DEF FinalizeRun, TypeOK, EndInv, Honest
  <2>2. suppress' => run' = "running"
    <3>1. suppress => run = "running"
      BY <2>1 DEF EndInv, Suppressed
    <3>2. "running" \in LegalPriorRunStates("failed") /\ "running" \in LegalPriorRunStates("cancelled")
      BY DEF LegalPriorRunStates
    <3> QED BY <1>6, <3>1, <3>2, OutcomeType DEF FinalizeRun
  <2>3. \A t \in Tasks : rows'[t] \in TerminalTask
    BY <2>1 DEF AllTerminal
  <2>4. run' = "success" => \A t \in Tasks : rows'[t] \in {"success", "skipped"}
    <3>1. run' = "success" => Outcome(rows) = "success"
      BY <1>6, <2>1 DEF FinalizeRun
    <3>2. Outcome(rows) = "success" => \A t \in Tasks : rows[t] \notin {"failed", "upstream_failed", "timed_out", "cancelled"}
      BY DEF Outcome
    <3> QED BY <2>1, <2>3, <3>1, <3>2 DEF TerminalTask
  <2> QED BY <2>1, <2>2, <2>3, <2>4 DEF EndInv, Suppressed, Settled, Honest, TerminalTask
<1>7. CASE TimeoutRun
  <2>1. run = "running" /\ run' = "timed_out" /\ mu'.op = "timeout"
    BY <1>0, <1>7 DEF TimeoutRun, PassInv, StalePass, Lock
  <2> QED BY <2>1 DEF EndInv, Suppressed, Settled, Honest
<1>8. CASE AdmitReady
  <2>1. (rows' = rows \/ run = "running") /\ UNCHANGED <<run, mu, suppress>> /\ tick' = IdleTick
    BY <1>8, PassAdmit DEF AdmitReady
  <2> QED BY <2>1 DEF EndInv, Suppressed, Settled, Honest
<1> QED BY <1>1, <1>2, <1>3, <1>4, <1>5, <1>6, <1>7, <1>8 DEF Tick, Decide

\* The operators and the operation in progress.
LEMMA EndOperate == ASSUME Undisturbed, Inv, EndInv, Operate \/ Complete PROVE EndInv'
<1> USE FreeType, RunSplit
<1>0. TypeOK /\ PassInv /\ Drained
  BY DEF Inv, Types
<1>1. CASE CancelRun
  BY <1>1 DEF CancelRun, Lock, EndInv, Suppressed, Settled, Honest
<1>2. ASSUME NEW ids, Retry(ids) PROVE EndInv'
  <2>1. mu.op = "none" /\ run \in TerminalRun /\ UNCHANGED <<run, tick, suppress>> /\ mu'.op = "retry"
    BY <1>2 DEF Retry, Unlocked, Lock
  <2> QED BY <2>1 DEF EndInv, Suppressed, Settled, Honest
<1>3. ASSUME NEW t, NEW target, MarkTask(t, target) PROVE EndInv'
  <2>1. mu.op = "none" /\ UNCHANGED <<run, tick, suppress>> /\ mu'.op = "mark"
    BY <1>3 DEF MarkTask, Unlocked
  <2> QED BY <2>1 DEF EndInv, Suppressed, Settled, Honest
<1>4. CASE SetDagRunHeld
  BY <1>4, EndQuiet DEF SetDagRunHeld
<1>5. \A target : ~MarkRun(target)
  BY DEF MarkRun, Offered, Undisturbed
<1>6. CASE Operate
  BY <1>1, <1>2, <1>3, <1>4, <1>5, <1>6 DEF Operate, RetryRun, RetryTask
<1>7. ASSUME NEW t \in Tasks, WriteRow(t) PROVE EndInv'
  <2>1. mu.op \in {"cancel", "timeout", "retry", "mark"} /\ mu'.op = mu.op /\ UNCHANGED <<run, tick, suppress>>
    BY <1>0, <1>7 DEF WriteRow, TypeOK, Drained, Holder
  <2>2. mu.op \in {"cancel", "timeout"} => run # "success"
    BY <1>0 DEF PassInv, LockRun
  <2> QED BY <2>1, <2>2 DEF EndInv, Suppressed, Settled, Honest
<1>8. CASE MarkSelf
  <2>1. mu.op = "mark" /\ mu'.op = "mark" /\ UNCHANGED <<run, tick, suppress>>
    BY <1>0, <1>8 DEF MarkSelf, TypeOK
  <2> QED BY <2>1 DEF EndInv, Suppressed, Settled, Honest
<1>9. CASE StopDone
  <2>1. /\ mu.op \in {"cancel", "timeout"} /\ mu.todo = {} /\ mu'.op = "none" /\ suppress' = FALSE
        /\ UNCHANGED <<run, rows, tick>> /\ run # "success"
    BY <1>0, <1>9 DEF StopDone, ClearSLAKeys, PassInv, LockRun
  <2>2. \A t \in Tasks : rows[t] \notin {"queued", "running"}
    BY <1>0, <2>1, RowSplit DEF PassInv, Stopped, TerminalTask
  <2> QED BY <2>1, <2>2 DEF EndInv, Suppressed, Settled, Honest
<1>10. CASE RetryDone \/ MarkDone
  <2>1. /\ mu.op \in {"retry", "mark"} /\ mu'.op = "none"
        /\ \/ run' = "running"
           \/ run' = run /\ run \in ActiveRun /\ suppress' = suppress
    BY <1>0, <1>10 DEF RetryDone, MarkDone, Reactivate, PassInv, LockRun, TypeOK
  <2> QED BY <2>1 DEF EndInv, Suppressed, Settled, Honest, ActiveRun
<1> QED BY <1>6, <1>7, <1>8, <1>9, <1>10 DEF Complete

\* The promises are kept by every step.
LEMMA EndStep == ASSUME Undisturbed, Inv, EndInv, [Next]_vars PROVE EndInv'
<1>0. TypeOK
  BY DEF Inv, Types
<1>1. ASSUME NEW t \in Tasks, Attempt(t) PROVE EndInv'
  <2>1. rows[t] \in {"queued", "running"} /\ UNCHANGED <<run, tick, mu, suppress>>
    BY <1>1 DEF Attempt, Start, Resolve, GiveBack
  <2>2. (run \in TerminalRun => mu.op \notin {"none", "tick"}) /\ (run = "success" => mu.op \in {"retry", "mark"})
    BY <2>1 DEF EndInv, Settled, Honest
  <2> QED BY <2>1, <2>2 DEF EndInv, Suppressed, Settled, Honest
<1>2. ~Crash
  BY <1>0 DEF Crash, Undisturbed, TypeOK
<1>3. CASE Events \/ Deadline \/ UNCHANGED vars
  BY <1>3, EndQuiet DEF Events, ReadEvent, TriggerDownstreams, ConsumeEvent, Deadline, vars
<1> QED BY <1>1, <1>2, <1>3, EndTick, EndOperate DEF Next

\* RunInv for every DAG, every number of retries and any number of cancels,
\* retries, marks of tasks, holds and deadlines: a run that ended has nothing
\* in flight, a run recorded as success has only succeeded or skipped tasks,
\* and the suppression of a notification ends with the run it was meant for.
THEOREM RunSafe == ASSUME Undisturbed PROVE Spec => []RunInv
<1>1. ExpandsWhole
  BY DEF Undisturbed, ExpandsWhole
<1>2. Init => Inv /\ EndInv
  <2>1. Init => EndInv
    BY FreeType, RunSplit DEF Init, EndInv, Suppressed, Settled, Honest
  <2> QED BY <2>1, InvInit
<1>3. Inv /\ EndInv /\ [Next]_vars => Inv' /\ EndInv'
  BY <1>1, InvStep, EndStep
<1>4. Inv /\ EndInv => RunInv
  BY DEF Inv, Types, EndInv, Suppressed, Settled, Honest, RunInv, RunSettled, SuccessHonest, SuppressScoped, Unlocked
<1> QED BY <1>2, <1>3, <1>4, PTL DEF Spec

\* An ended run is at rest, with marks of runs too: without Honest.
LEMMA SettledStep == ASSUME MaxCrash = 0, Inv, Settled, [Next]_vars PROVE Settled'
<1> USE FreeType, IdleType, RunSplit
<1>0. TypeOK /\ PassInv /\ Drained
  BY DEF Inv, Types
<1>1. ASSUME UNCHANGED <<run, rows>>, mu'.op = mu.op \/ {mu.op, mu'.op} = {"none", "tick"} PROVE Settled'
  BY <1>1 DEF Settled
<1>2. ASSUME run' = run \/ run' = "running", mu'.op = mu.op \/ {mu.op, mu'.op} = {"none", "tick"},
             \A t \in Tasks : rows'[t] = rows[t] \/ rows'[t] \notin {"queued", "running"}
      PROVE  Settled'
  BY <1>2 DEF Settled
<1>3. CASE Tick
  <2>1. CASE ListRuns \/ StayQueued \/ BeginPass
    BY <1>1, <2>1 DEF ListRuns, StayQueued, BeginPass, Unlocked, Lock
  <2>2. ASSUME NEW t \in Tasks, ExpandRun(t) PROVE Settled'
    <3>1. \A u \in Tasks : rows'[u] = rows[u] \/ rows'[u] = "scheduled"
      BY <1>0, <2>2 DEF ExpandRun, TypeOK
    <3> QED BY <1>2, <2>2, <3>1 DEF ExpandRun
  <2>3. CASE ProcessRun
    <3>1. \A t \in Tasks : rows'[t] = rows[t] \/ rows'[t] \notin {"queued", "running"}
      BY <1>0, <2>3, PassRows
    <3>2. mu.op = "tick" /\ mu'.op \in {"none", "tick"} /\ (run' = run \/ run' = "running")
      BY <1>0, <2>3 DEF ProcessRun, PassInv, TickLock
    <3> QED BY <1>2, <3>1, <3>2
  <2>4. CASE StartRefused \/ NotOverdue
    <3>1. mu.op = "tick" /\ mu'.op = "none" /\ UNCHANGED <<run, rows>>
      BY <1>0, <2>4 DEF StartRefused, NotOverdue, PassInv, TickLock
    <3> QED BY <1>1, <3>1
  <2>5. CASE FinalizeRun
    BY <2>5 DEF FinalizeRun, AllTerminal, Settled, TerminalTask
  <2>6. CASE TimeoutRun
    <3>1. mu'.op = "timeout"
      BY <1>0, <2>6 DEF TimeoutRun, PassInv, StalePass, Lock
    <3> QED BY <3>1 DEF Settled
  <2>7. CASE AdmitReady
    <3>1. (rows' = rows \/ run = "running") /\ UNCHANGED <<run, mu>>
      BY <2>7, PassAdmit DEF AdmitReady
    <3> QED BY <3>1 DEF Settled
  <2> QED BY <1>3, <2>1, <2>2, <2>3, <2>4, <2>5, <2>6, <2>7 DEF Tick, Decide
<1>4. CASE Operate
  <2>1. ASSUME NEW ids, Retry(ids) PROVE Settled'
    BY <2>1 DEF Retry, Lock, Settled
  <2>2. ASSUME NEW target \in {"success", "failed"}, MarkRun(target) PROVE Settled'
    <3>1. mu.op = "none" /\ run \in TerminalRun /\ UNCHANGED <<rows, mu>>
      BY <2>2 DEF MarkRun, Unlocked
    <3> QED BY <3>1 DEF Settled
  <2>3. CASE CancelRun
    BY <2>3 DEF CancelRun, Lock, Settled
  <2>4. ASSUME NEW t, NEW target, MarkTask(t, target) PROVE Settled'
    BY <2>4 DEF MarkTask, Settled
  <2>5. CASE SetDagRunHeld
    BY <1>1, <2>5 DEF SetDagRunHeld
  <2> QED BY <1>4, <2>1, <2>2, <2>3, <2>4, <2>5 DEF Operate, RetryRun, RetryTask
<1>5. CASE Complete
  <2>1. ASSUME NEW t \in Tasks, WriteRow(t) PROVE Settled'
    <3>1. mu.op \notin {"none", "tick"} /\ mu'.op = mu.op
      BY <1>0, <2>1 DEF WriteRow, TypeOK, Drained
    <3> QED BY <3>1 DEF Settled
  <2>2. CASE MarkSelf
    <3>1. mu'.op = "mark"
      BY <1>0, <2>2 DEF MarkSelf, TypeOK
    <3> QED BY <3>1 DEF Settled
  <2>3. CASE StopDone
    <3>1. mu.op \in {"cancel", "timeout"} /\ mu.todo = {} /\ rows' = rows
      BY <2>3 DEF StopDone
    <3>2. \A t \in Tasks : rows[t] \notin {"queued", "running"}
      BY <1>0, <3>1, RowSplit DEF PassInv, Stopped, TerminalTask
    <3> QED BY <3>1, <3>2 DEF Settled
  <2>4. CASE RetryDone \/ MarkDone
    <3>1. run' = "running" \/ (run' = run /\ run \in ActiveRun)
      BY <1>0, <2>4 DEF RetryDone, MarkDone, Reactivate, PassInv, LockRun, TypeOK
    <3> QED BY <3>1 DEF Settled, ActiveRun
  <2> QED BY <1>5, <2>1, <2>2, <2>3, <2>4 DEF Complete
<1>6. ASSUME NEW t \in Tasks, Attempt(t) PROVE Settled'
  <2>1. rows[t] \in {"queued", "running"} /\ UNCHANGED <<run, mu>>
    BY <1>6 DEF Attempt, Start, Resolve, GiveBack
  <2> QED BY <2>1 DEF Settled
<1>7. ~Crash
  BY <1>0 DEF Crash, TypeOK
<1>8. CASE Events \/ Deadline \/ UNCHANGED vars
  BY <1>1, <1>8 DEF Events, ReadEvent, TriggerDownstreams, ConsumeEvent, Deadline, vars
<1> QED BY <1>3, <1>4, <1>5, <1>6, <1>7, <1>8 DEF Next

\* RunSettled for every set of operators, those who mark runs included: as
\* long as no crash separates the writes of a cancel, a deadline or a mark, an
\* ended run has nothing in flight.
THEOREM EndedAtRest == ASSUME MaxCrash = 0 PROVE Spec => []RunSettled
<1>1. ExpandsWhole
  BY DEF ExpandsWhole
<1>2. Init => Inv /\ Settled
  <2>1. Init => Settled
    BY FreeType, RunSplit DEF Init, Settled
  <2> QED BY <2>1, InvInit
<1>3. Inv /\ Settled /\ [Next]_vars => Inv' /\ Settled'
  BY <1>1, InvStep, SettledStep
<1>4. Inv /\ Settled => RunSettled
  BY DEF Settled, RunSettled, Unlocked
<1> QED BY <1>2, <1>3, <1>4, PTL DEF Spec

\* Suppression and the lock of the pass, which crashes do not disturb either.
Scoped == Suppressed /\ TickLock

\* The scope of the suppression, step by step.
LEMMA ScopedStep == ASSUME Types, Drained, Scoped, [Next]_vars PROVE Scoped'
<1> USE FreeType, IdleType, RunSplit
<1>0. TypeOK
  BY DEF Types
<1>1. ASSUME suppress' = suppress, run' = run \/ run' = "running", mu'.op = mu.op, tick'.pc = tick.pc PROVE Scoped'
  BY <1>1 DEF Scoped, Suppressed, TickLock
<1>2. CASE Tick
  <2>1. CASE ListRuns \/ StayQueued
    <3>1. tick.pc \in {"idle", "listed"} /\ tick'.pc \in {"idle", "listed"} /\ UNCHANGED <<run, mu, suppress>>
      BY <2>1 DEF ListRuns, StayQueued
    <3> QED BY <3>1 DEF Scoped, Suppressed, TickLock
  <2>2. CASE BeginPass
    <3>1. mu.op = "none" /\ mu'.op = "tick" /\ tick'.pc = "expand" /\ UNCHANGED <<run, suppress>>
      BY <1>0, <2>2 DEF BeginPass, Unlocked, Lock, TypeOK
    <3> QED BY <3>1 DEF Scoped, Suppressed, TickLock
  <2>3. ASSUME NEW t \in Tasks, ExpandRun(t) PROVE Scoped'
    BY <1>1, <2>3 DEF ExpandRun
  <2>4. CASE ProcessRun \/ StartRefused \/ NotOverdue
    <3>1. /\ mu.op = "tick" /\ suppress' = suppress /\ (run' = run \/ run' = "running")
          /\ \/ mu'.op = "none" /\ tick'.pc = "admit"
             \/ mu' = mu /\ tick'.pc = "final"
      BY <1>0, <2>4 DEF ProcessRun, StartRefused, NotOverdue, Scoped, TickLock, TypeOK
    <3> QED BY <3>1 DEF Scoped, Suppressed, TickLock
  <2>5. CASE FinalizeRun
    <3>1. mu.op = "tick" /\ mu'.op = "none" /\ tick'.pc = "admit"
      BY <1>0, <2>5 DEF FinalizeRun, TypeOK
    <3>2. suppress => run = "running"
      BY <3>1 DEF Scoped, Suppressed
    <3>3. "running" \in LegalPriorRunStates("failed") /\ "running" \in LegalPriorRunStates("cancelled")
      BY DEF LegalPriorRunStates
    <3>4. ~suppress'
      BY <2>5, <3>2, <3>3, OutcomeType DEF FinalizeRun
    <3> QED BY <3>1, <3>4 DEF Scoped, Suppressed, TickLock
  <2>6. CASE TimeoutRun
    <3>1. mu.op = "tick" /\ mu'.op \in {"timeout", "none"} /\ tick'.pc = "admit" /\ suppress' = suppress
          /\ (run = "running" => mu'.op = "timeout")
      BY <1>0, <2>6 DEF TimeoutRun, Lock, TypeOK
    <3> QED BY <3>1 DEF Scoped, Suppressed, TickLock
  <2>7. CASE AdmitReady
    <3>1. tick.pc = "admit" /\ tick'.pc = "idle" /\ UNCHANGED <<run, mu, suppress>>
      BY <2>7 DEF AdmitReady
    <3> QED BY <3>1 DEF Scoped, Suppressed, TickLock
  <2> QED BY <1>2, <2>1, <2>2, <2>3, <2>4, <2>5, <2>6, <2>7 DEF Tick, Decide
<1>3. CASE Operate
  <2>1. ASSUME NEW ids, Retry(ids) PROVE Scoped'
    BY <2>1 DEF Retry, Unlocked, Lock, Scoped, Suppressed, TickLock
  <2>2. ASSUME NEW target \in {"success", "failed"}, MarkRun(target) PROVE Scoped'
    <3>1. mu.op = "none" /\ run \in TerminalRun /\ UNCHANGED <<tick, mu, suppress>>
      BY <2>2 DEF MarkRun, Unlocked
    <3> QED BY <3>1 DEF Scoped, Suppressed, TickLock
  <2>3. CASE CancelRun
    BY <2>3 DEF CancelRun, Unlocked, Lock, Scoped, Suppressed, TickLock
  <2>4. ASSUME NEW t, NEW target, MarkTask(t, target) PROVE Scoped'
    BY <2>4 DEF MarkTask, Unlocked, Scoped, Suppressed, TickLock
  <2>5. CASE SetDagRunHeld
    BY <1>1, <2>5 DEF SetDagRunHeld
  <2> QED BY <1>3, <2>1, <2>2, <2>3, <2>4, <2>5 DEF Operate, RetryRun, RetryTask
<1>4. CASE Complete
  <2>1. CASE MarkSelf \/ \E t \in Tasks : WriteRow(t)
    <3>1. mu'.op = mu.op /\ UNCHANGED <<run, tick, suppress>>
      BY <1>0, <2>1 DEF MarkSelf, WriteRow, TypeOK
    <3> QED BY <1>1, <3>1
  <2>2. CASE StopDone
    BY <2>2 DEF StopDone, ClearSLAKeys, Scoped, Suppressed, TickLock
  <2>3. CASE RetryDone \/ MarkDone
    <3>1. /\ mu.op \in {"retry", "mark"} /\ mu'.op = "none" /\ tick'.pc = tick.pc
          /\ \/ run' = "running"
             \/ run' = run /\ suppress' = suppress
      BY <1>0, <2>3 DEF RetryDone, MarkDone, Reactivate, TypeOK
    <3> QED BY <3>1 DEF Scoped, Suppressed, TickLock
  <2> QED BY <1>4, <2>1, <2>2, <2>3 DEF Complete
<1>5. CASE Crash
  BY <1>5 DEF Crash, Scoped, Suppressed, TickLock
<1>6. CASE Events \/ Deadline \/ UNCHANGED vars \/ \E t \in Tasks : Attempt(t)
  BY <1>1, <1>6 DEF Events, ReadEvent, TriggerDownstreams, ConsumeEvent, Deadline, vars, Attempt, Start, Resolve, GiveBack
<1> QED BY <1>2, <1>3, <1>4, <1>5, <1>6 DEF Next

\* SuppressScoped for every set of operators and any number of crashes: the
\* suppression of a notification (notifySuppress) ends with the run it was
\* meant for.
THEOREM SuppressionScoped == Spec => []SuppressScoped
<1>1. Init => Types /\ Drained /\ Scoped
  <2>1. Init => Scoped
    BY FreeType, IdleType DEF Init, Scoped, Suppressed, TickLock
  <2> QED BY <2>1, TypesInit, FreeType DEF Init, Drained
<1>2. Types /\ Drained /\ Scoped /\ [Next]_vars => Types' /\ Drained' /\ Scoped'
  BY TypesStep, DrainedStep, ScopedStep DEF Types
<1>3. Scoped => SuppressScoped
  BY DEF Scoped, Suppressed, SuppressScoped, Unlocked
<1> QED BY <1>1, <1>2, <1>3, PTL DEF Spec

-----------------------------------------------------------------------------
(* Dispatch.                                                               *)

\* The rows a cancel or a deadline has still to write: it overwrites what their
\* attempts may have come to since.
Stopping == IF mu.op \in {"cancel", "timeout"} THEN mu.todo ELSE {}

\* The trigger rule of t holds whatever becomes of the dependencies that have not
\* ended or are being stopped.
Firm(t) ==
    \A st \in [Tasks -> RowState] :
      (\A d \in Deps[t] : rows[d] \in TerminalTask /\ d \notin Stopping => st[d] = rows[d])
        => Ready(Rule[t], Deps[t], st)

\* Every task of the harvest is firm, unless an operator has rewritten one of its
\* dependencies.
Fresh == \A t \in ready : Deps[t] \cap redone # {} \/ Firm(t)

\* A trigger rule that holds goes on holding while finished dependencies stay
\* as they are.
LEMMA ReadyStable ==
    ASSUME NEW t \in Tasks, NEW st, NEW new, Ready(Rule[t], Deps[t], st),
           \A d \in Deps[t] : st[d] \in TerminalTask => new[d] = st[d]
    PROVE  Ready(Rule[t], Deps[t], new)
<1>1. FailedDep \subseteq TerminalTask /\ "success" \in TerminalTask /\ "skipped" \in TerminalTask
  BY DEF FailedDep, TerminalTask
<1> QED BY <1>1 DEF Ready, AllIn, SomeIn

\* A firm task stays firm while those of its dependencies that have ended, and
\* are not being stopped, stay as they are.
LEMMA FirmKept ==
    ASSUME NEW t \in Tasks, Firm(t),
           \A d \in Deps[t] : rows[d] \in TerminalTask /\ d \notin Stopping
                             => rows'[d] = rows[d] /\ d \notin Stopping'
    PROVE  Firm(t)'
<1> SUFFICES ASSUME NEW st \in [Tasks -> RowState],
                    \A d \in Deps[t] : rows'[d] \in TerminalTask /\ d \notin Stopping' => st[d] = rows'[d]
             PROVE  Ready(Rule[t], Deps[t], st)
  BY DEF Firm
<1>1. \A d \in Deps[t] : rows[d] \in TerminalTask /\ d \notin Stopping => st[d] = rows[d]
  OBVIOUS
<1> QED BY <1>1 DEF Firm

\* Steps that leave the harvest and what operators rewrote alone, and touch no
\* finished task that is not being stopped.
LEMMA FreshKept ==
    ASSUME Inv, Fresh, UNCHANGED <<ready, redone>>,
           \A d \in Tasks : rows[d] \in TerminalTask /\ d \notin Stopping
                             => rows'[d] = rows[d] /\ d \notin Stopping'
    PROVE  Fresh'
<1>1. ready \subseteq Tasks
  BY DEF Inv, Types, TypeOK
<1>2. ASSUME NEW t \in ready, Firm(t) PROVE Firm(t)'
  <2>1. t \in Tasks /\ \A d \in Deps[t] : d \in Tasks
    BY <1>1
  <2> QED BY <1>2, <2>1, FirmKept
<1> QED BY <1>2 DEF Fresh

\* An operator's write of a row is remembered by the harvest it falls into.
LEMMA FreshRedo ==
    ASSUME Inv, Fresh, NEW u \in Tasks, mu.op \in {"retry", "mark"}, mu'.op = mu.op, Redo(u), ready' = ready,
           \A d \in Tasks \ {u} : rows'[d] = rows[d]
    PROVE  Fresh'
<1>1. ready \subseteq Tasks
  BY DEF Inv, Types, TypeOK
<1>2. Stopping' = {}
  BY DEF Stopping
<1>3. ASSUME NEW t \in ready PROVE Deps[t] \cap redone' # {} \/ Firm(t)'
  <2>1. redone' = redone \cup {u}
    BY <1>3 DEF Redo
  <2>2. CASE u \in Deps[t] \/ Deps[t] \cap redone # {}
    BY <2>1, <2>2
  <2>3. CASE u \notin Deps[t] /\ Firm(t)
    <3>1. t \in Tasks /\ \A d \in Deps[t] : d \in Tasks \ {u}
      BY <1>1, <2>3
    <3> QED BY <1>2, <2>3, <3>1, FirmKept
  <2> QED BY <2>2, <2>3 DEF Fresh
<1> QED BY <1>3 DEF Fresh

\* The harvest stays fresh.
LEMMA FreshStep ==
    ASSUME Inv, Inv', Fresh, [Next]_vars
    PROVE  Fresh'
<1> USE FreeType, IdleType
<1>0. TypeOK /\ PassInv /\ Drained /\ TypeOK'
  BY DEF Inv, Types
<1>1. ASSUME ready' = {} PROVE Fresh'
  BY <1>1 DEF Fresh
<1>2. ASSUME UNCHANGED <<rows, ready, redone>>, mu'.op \in {"none", "tick", "retry", "mark"} PROVE Fresh'
  BY <1>2, FreshKept DEF Stopping
<1>3. CASE Tick
  <2>1. CASE ProcessRun
    <3>1. mu.op = "tick" /\ ready = {}
      BY <1>0, <2>1 DEF ProcessRun, PassInv, TickLock, Harvest
    <3>2. \/ ready' = {}
          \/ mu' = mu /\ ready' \subseteq Tasks /\ \A t \in ready' : Ready(Rule[t], Deps[t], rows')
      BY <1>0, <2>1, <3>1, PassRows
    <3>3. ASSUME mu' = mu, ready' \subseteq Tasks, NEW t \in ready', Ready(Rule[t], Deps[t], rows') PROVE Firm(t)'
      <4>1. Stopping' = {} /\ t \in Tasks
        BY <3>1, <3>3 DEF Stopping
      <4> SUFFICES ASSUME NEW st \in [Tasks -> RowState],
                          \A d \in Deps[t] : rows'[d] \in TerminalTask => st[d] = rows'[d]
                   PROVE  Ready(Rule[t], Deps[t], st)
        BY <4>1 DEF Firm
      <4> QED BY <3>3, <4>1, ReadyStable
    <3> QED BY <1>1, <3>2, <3>3 DEF Fresh
  <2>2. CASE AdmitReady
    BY <1>1, <2>2 DEF AdmitReady
  <2>3. CASE TimeoutRun
    <3>1. UNCHANGED <<rows, ready, redone>>
      BY <2>3 DEF TimeoutRun
    <3>2. mu'.op = "none" \/ (mu'.op = "timeout" /\ mu'.todo = {t \in Tasks : rows[t] \in LiveRow})
      BY <2>3, LockType DEF TimeoutRun, Holder
    <3>3. \A d \in Tasks : rows[d] \in TerminalTask => d \notin Stopping'
      BY <3>2 DEF Stopping, LiveRow
    <3> QED BY <3>1, <3>3, FreshKept
  <2>5. ASSUME NEW t \in Tasks, ExpandRun(t) PROVE Fresh'
    BY <1>0, <1>1, <2>5 DEF ExpandRun, PassInv, Harvest
  <2>6. CASE ListRuns \/ StayQueued
    BY <2>6, FreshKept DEF ListRuns, StayQueued, Stopping
  <2>7. CASE BeginPass \/ StartRefused \/ NotOverdue \/ FinalizeRun
    BY <1>2, <2>7 DEF BeginPass, StartRefused, NotOverdue, FinalizeRun, Lock
  <2> QED BY <1>3, <2>1, <2>2, <2>3, <2>5, <2>6, <2>7 DEF Tick, Decide
<1>4. CASE Operate
  <2>1. CASE CancelRun
    <3>1. UNCHANGED <<rows, ready, redone>>
      BY <2>1 DEF CancelRun
    <3>2. mu'.todo = {t \in Tasks : rows[t] \in LiveRow}
      BY <2>1, LockType DEF CancelRun, ToCancel, Holder
    <3>3. \A d \in Tasks : rows[d] \in TerminalTask => d \notin Stopping'
      BY <3>2 DEF Stopping, LiveRow
    <3> QED BY <3>1, <3>3, FreshKept
  <2>2. ASSUME NEW ids, Retry(ids) PROVE Fresh'
    <3>1. UNCHANGED <<ready, redone>> /\ mu'.op = "retry"
      BY <2>2 DEF Retry, Lock
    <3>2. \A d \in Tasks : rows[d] \in TerminalTask => rows'[d] = rows[d]
      BY <2>2 DEF Retry, Set, InState, TerminalTask
    <3>3. Stopping' = {}
      BY <3>1 DEF Stopping
    <3> QED BY <3>1, <3>2, <3>3, FreshKept
  <2>3. ASSUME NEW t \in Tasks, NEW target \in Markable, MarkTask(t, target) PROVE Fresh'
    BY <1>2, <2>3 DEF MarkTask
  <2>4. CASE SetDagRunHeld \/ \E target \in {"success", "failed"} : MarkRun(target)
    BY <2>4, FreshKept DEF SetDagRunHeld, MarkRun, Stopping
  <2> QED BY <1>4, <2>1, <2>2, <2>3, <2>4 DEF Operate, RetryRun, RetryTask
<1>5. CASE Complete
  <2>1. ASSUME NEW u \in Tasks, WriteRow(u) PROVE Fresh'
    <3>1. /\ u \in mu.todo /\ mu'.op = mu.op /\ mu'.todo = mu.todo \ {u} /\ ready' = ready /\ Redo(u)
          /\ \A d \in Tasks \ {u} : rows'[d] = rows[d]
      BY <1>0, <2>1 DEF WriteRow, TypeOK
    <3>2. CASE mu.op \in {"retry", "mark"}
      BY <3>1, <3>2, FreshRedo
    <3>3. CASE mu.op \in {"cancel", "timeout"}
      <4>1. u \in Stopping /\ Stopping' \subseteq Stopping /\ redone' = redone
        BY <3>1, <3>3 DEF Stopping, Redo
      <4> QED BY <3>1, <4>1, FreshKept
    <3>4. mu.op \in {"cancel", "timeout", "retry", "mark"}
      BY <1>0, <3>1 DEF TypeOK, Drained, Holder
    <3> QED BY <3>2, <3>3, <3>4
  <2>2. CASE MarkSelf
    <3>1. /\ mu.op = "mark" /\ mu.task \in Tasks /\ mu'.op = mu.op /\ ready' = ready /\ Redo(mu.task)
          /\ \A d \in Tasks \ {mu.task} : rows'[d] = rows[d]
      BY <1>0, <2>2 DEF MarkSelf, TypeOK
    <3> QED BY <3>1, FreshRedo
  <2>3. CASE StopDone \/ RetryDone \/ MarkDone
    BY <1>2, <2>3 DEF StopDone, RetryDone, MarkDone
  <2> QED BY <1>5, <2>1, <2>2, <2>3 DEF Complete
<1>6. ASSUME NEW t \in Tasks, Attempt(t) PROVE Fresh'
  <2>1. /\ rows[t] \in {"queued", "running"} /\ UNCHANGED <<mu, ready, redone>>
        /\ \A u \in Tasks \ {t} : rows'[u] = rows[u]
    BY <1>0, <1>6 DEF Attempt, Start, Resolve, GiveBack, TypeOK
  <2>2. rows[t] \notin TerminalTask /\ Stopping' = Stopping
    BY <2>1 DEF TerminalTask, Stopping
  <2> QED BY <2>1, <2>2, FreshKept
<1>7. CASE Events \/ Deadline \/ UNCHANGED vars
  <2>1. UNCHANGED <<rows, mu, ready, redone>>
    BY <1>7 DEF Events, ReadEvent, TriggerDownstreams, ConsumeEvent, Deadline, vars
  <2> QED BY <2>1, FreshKept DEF Stopping
<1>8. CASE Crash
  BY <1>1, <1>8 DEF Crash
<1> QED BY <1>3, <1>4, <1>5, <1>6, <1>7, <1>8 DEF Next

\* Only admitReady dispatches.
LEMMA OnlyAdmission ==
    ASSUME Inv, [Next]_vars, ~AdmitReady, NEW t \in Tasks, rows[t] # "queued"
    PROVE  rows'[t] # "queued"
<1>0. TypeOK
  BY DEF Inv, Types
<1>1. CASE ProcessRun
  BY <1>0, <1>1, PassRows
<1>2. ASSUME NEW u \in Tasks, ExpandRun(u) \/ Attempt(u) PROVE rows'[t] # "queued"
  BY <1>0, <1>2 DEF ExpandRun, Attempt, Start, Resolve, GiveBack, TypeOK
<1>3. ASSUME NEW u \in Tasks, WriteRow(u) PROVE rows'[t] # "queued"
  BY <1>0, <1>3, WrittenType DEF WriteRow, TypeOK
<1>4. CASE MarkSelf
  BY <1>0, <1>4 DEF MarkSelf, TypeOK, Markable
<1>5. CASE Operate
  <2>1. \A u \in Tasks : rows'[u] = rows[u] \/ rows'[u] = "scheduled"
    BY <1>5 DEF Operate, CancelRun, RetryRun, RetryTask, Retry, SetDagRunHeld, MarkTask, MarkRun, Set, InState
  <2> QED BY <2>1
<1> QED BY <1>1, <1>2, <1>3, <1>4, <1>5
           DEF Next, Tick, Decide, ListRuns, StayQueued, BeginPass, StartRefused, FinalizeRun, NotOverdue, TimeoutRun,
               Complete, StopDone, RetryDone, MarkDone, Events, ReadEvent, TriggerDownstreams, ConsumeEvent,
               Deadline, Crash, vars

\* What admitReady dispatches is ready at that moment, in a running run.
LEMMA DispatchStep ==
    ASSUME Inv, Fresh, [Next]_vars
    PROVE  [\A t \in Tasks : rows[t] # "queued" /\ rows'[t] = "queued"
              => /\ run = "running"
                 /\ Ready(Rule[t], Deps[t], rows) \/ Deps[t] \cap redone # {}]_vars
<1> SUFFICES ASSUME NEW t \in Tasks, rows[t] # "queued", rows'[t] = "queued"
             PROVE  /\ run = "running"
                    /\ Ready(Rule[t], Deps[t], rows) \/ Deps[t] \cap redone # {}
  OBVIOUS
<1>1. AdmitReady
  BY OnlyAdmission
<1>2. run = "running"
  BY <1>1, PassAdmit
<1>3. t \in ready /\ rows \in [Tasks -> RowState]
  BY <1>1 DEF AdmitReady, Set, Admissible, Inv, Types, TypeOK
<1>4. Firm(t) => Ready(Rule[t], Deps[t], rows)
  BY <1>3 DEF Firm
<1> QED BY <1>2, <1>3, <1>4 DEF Fresh

\* DispatchReady for every DAG and trigger rule, any number of operations,
\* deadlines, gates and crashes, retries and marks between the harvest and its
\* admission included: what admitReady dispatches runs in a running run and
\* satisfies its trigger rule at that moment, unless an operator has rewritten
\* one of its dependencies since the harvest.
THEOREM DispatchSound == ASSUME ExpandsWhole PROVE Spec => DispatchReady
<1>1. Init => Inv /\ Fresh
  <2>1. Init => Fresh
    BY DEF Init, Fresh
  <2> QED BY <2>1, InvInit
<1>2. Inv /\ Fresh /\ [Next]_vars => Inv' /\ Fresh'
  BY InvStep, FreshStep
<1>3. Inv /\ Fresh /\ [Next]_vars
        => [\A t \in Tasks : rows[t] # "queued" /\ rows'[t] = "queued"
              => /\ run = "running"
                 /\ Ready(Rule[t], Deps[t], rows) \/ Deps[t] \cap redone # {}]_vars
  BY DispatchStep
<1> QED BY <1>1, <1>2, <1>3, PTL DEF Spec, DispatchReady

-----------------------------------------------------------------------------
(* The dependency event.                                                   *)

\* Operators do not mark runs, or there is at most one operation.  Otherwise a
\* mark can fall between the tick's decision that a run is not successful and
\* its write of "consumed", and the event the mark published is lost.
Calm == "mark_run" \notin Operators \/ MaxOps <= 1

\* The reader and the pass are one goroutine; the reader gives an event up
\* only for a run that some operation took back from success.
ReaderInv ==
    /\ reader # "idle" => tick.pc = "idle"
    /\ reader # "idle" => event # "none"
    /\ reader = "consume" /\ ~down => run # "success" /\ ops >= 1

\* Before the first operation an event belongs to a run that has succeeded,
\* and such a run is in no pass.
FirstEvent ==
    ops = 0 =>
      /\ event # "none" => run = "success"
      /\ run = "success" => tick.pc \in {"idle", "admit"}
      /\ mu.op \in {"none", "tick", "timeout"}

EventInv == ReaderInv /\ FirstEvent /\ NoLostTrigger

\* Steps that neither write the run nor touch the event.
LEMMA EventQuiet ==
    ASSUME EventInv, UNCHANGED <<run, event, down>>,
           reader' = reader \/ reader' = "idle",
           ops' = ops \/ (ops' >= 1 /\ (ops >= 1 => ops' >= 1)),
           ops' = 0 => mu'.op \in {mu.op, "none", "tick"},
           tick'.pc = tick.pc \/ tick'.pc = "idle" \/ (reader' = "idle" /\ (run = "success" => tick'.pc = "admit"))
    PROVE  EventInv'
BY DEF EventInv, ReaderInv, FirstEvent, NoLostTrigger

\* The tick's pass: only its verdict makes the run a success, and publishes.
LEMMA EventTick == ASSUME TypeOK, EventInv, Tick PROVE EventInv'
<1> USE FreeType, IdleType, RunSplit
<1>1. CASE ListRuns
  <2>1. reader = "idle" /\ run # "success" /\ UNCHANGED <<run, event, down, reader, ops, mu>>
    BY <1>1 DEF ListRuns, ActiveRun
  <2> QED BY <2>1, EventQuiet
<1>2. CASE StayQueued \/ AdmitReady
  <2>1. tick'.pc = "idle" /\ UNCHANGED <<run, event, down, reader, ops, mu>>
    BY <1>2 DEF StayQueued, AdmitReady
  <2> QED BY <2>1, EventQuiet
<1>3. ASSUME tick.pc \in {"listed", "expand", "final"}, UNCHANGED <<run, event, down, reader, ops>>,
             mu'.op \in {mu.op, "none", "tick"}
      PROVE  EventInv'
  <2>1. reader = "idle" /\ (ops = 0 => run # "success")
    BY <1>3 DEF EventInv, ReaderInv, FirstEvent
  <2> QED BY <1>3, <2>1 DEF EventInv, ReaderInv, FirstEvent, NoLostTrigger
<1>4. CASE BeginPass \/ StartRefused \/ NotOverdue \/ \E t \in Tasks : ExpandRun(t)
  BY <1>3, <1>4 DEF BeginPass, StartRefused, NotOverdue, ExpandRun, Lock
<1>5. CASE ProcessRun
  <2>1. /\ tick.pc = "expand" /\ UNCHANGED <<event, down, reader, ops>> /\ (run' = run \/ run' = "running")
        /\ mu' = mu \/ mu' = Free
    BY <1>5, PassRows DEF ProcessRun
  <2>2. reader = "idle" /\ (ops = 0 => run # "success" /\ event = "none")
    BY <2>1 DEF EventInv, ReaderInv, FirstEvent
  <2> QED BY <2>1, <2>2 DEF EventInv, ReaderInv, FirstEvent, NoLostTrigger
<1>6. CASE FinalizeRun
  <2>1. /\ tick.pc = "final" /\ UNCHANGED <<down, reader, ops>> /\ mu'.op = "none" /\ tick'.pc = "admit"
        /\ \/ run' = "success" /\ event' = "pending"
           \/ run' \in {run, Outcome(rows)} /\ Outcome(rows) # "success" /\ event' = event
    BY <1>6 DEF FinalizeRun, Publish, TypeOK
  <2>2. reader = "idle" /\ (ops = 0 => run # "success" /\ event = "none")
    BY <2>1 DEF EventInv, ReaderInv, FirstEvent
  <2> QED BY <2>1, <2>2 DEF EventInv, ReaderInv, FirstEvent, NoLostTrigger
<1>7. CASE TimeoutRun
  <2>1. /\ tick.pc = "final" /\ UNCHANGED <<event, down, reader, ops>> /\ run' \in {run, "timed_out"}
        /\ mu'.op \in {"none", "timeout"} /\ tick'.pc = "admit"
    BY <1>7 DEF TimeoutRun, Lock, TypeOK
  <2>2. reader = "idle" /\ (ops = 0 => run # "success" /\ event = "none")
    BY <2>1 DEF EventInv, ReaderInv, FirstEvent
  <2> QED BY <2>1, <2>2 DEF EventInv, ReaderInv, FirstEvent, NoLostTrigger
<1> QED BY <1>1, <1>2, <1>4, <1>5, <1>6, <1>7 DEF Tick, Decide

\* The operators: after the first operation nobody marks a run.
LEMMA EventOperate == ASSUME Calm, TypeOK, EventInv, Operate PROVE EventInv'
<1> USE RunSplit
<1>0. ops \in Nat /\ MaxOps \in Nat
  BY DEF TypeOK
<1>1. \A op : Offered(op) => ops' = ops + 1 /\ ops' >= 1 /\ ops < MaxOps /\ op \in Operators
  BY <1>0 DEF Offered
<1>2. CASE CancelRun
  BY <1>0, <1>1, <1>2 DEF CancelRun, EventInv, ReaderInv, FirstEvent, NoLostTrigger
<1>3. ASSUME ops' >= 1, ops' # 0, UNCHANGED <<run, event, down, reader, tick>> PROVE EventInv'
  BY <1>3 DEF EventInv, ReaderInv, FirstEvent, NoLostTrigger
<1>4. CASE RetryRun \/ SetDagRunHeld \/ \E t \in Tasks : RetryTask(t) \/ \E target \in Markable : MarkTask(t, target)
  <2>1. ops' >= 1 /\ ops' # 0 /\ UNCHANGED <<run, event, down, reader, tick>>
    BY <1>0, <1>1, <1>4 DEF RetryRun, RetryTask, Retry, SetDagRunHeld, MarkTask
  <2> QED BY <1>3, <2>1
<1>5. ASSUME NEW target \in {"success", "failed"}, MarkRun(target) PROVE EventInv'
  <2>1. /\ ops' = ops + 1 /\ ops < MaxOps /\ "mark_run" \in Operators /\ UNCHANGED <<reader, tick, mu>>
        /\ \/ run' = "success" /\ (down' = TRUE \/ (event' = "pending" /\ down' = down))
           \/ run' \in {run, "failed"} /\ UNCHANGED <<event, down>>
        /\ event' = event \/ event' \in {"pending", "consumed"}
    BY <1>1, <1>5 DEF MarkRun, Publish
  <2>2. ops = 0 /\ ops' = 1
    BY <1>0, <2>1 DEF Calm
  <2>3. reader = "consume" => down
    BY <2>2 DEF EventInv, ReaderInv
  <2>4. /\ reader' # "idle" => tick'.pc = "idle"
        /\ reader' # "idle" => event' # "none"
        /\ reader' = "consume" => down'
    BY <2>1, <2>3 DEF EventInv, ReaderInv
  <2>5. run' = "success" => down' \/ event' = "pending"
    BY <2>1 DEF EventInv, NoLostTrigger
  <2> QED BY <2>2, <2>4, <2>5 DEF EventInv, ReaderInv, FirstEvent, NoLostTrigger
<1> QED BY <1>2, <1>4, <1>5 DEF Operate

\* The operation in progress, the reader and everything else.
LEMMA EventStep == ASSUME Calm, Types, Drained, EventInv, [Next]_vars PROVE EventInv'
<1> USE FreeType, IdleType, RunSplit
<1>0. TypeOK /\ ops \in Nat
  BY DEF Types, TypeOK
<1>1. CASE Complete
  <2>1. CASE RetryDone \/ MarkDone
    <3>1. /\ mu.op \in {"retry", "mark"} /\ UNCHANGED <<event, down, reader, ops>>
          /\ run' = run \/ run' = "running"
          /\ tick'.pc = tick.pc
      BY <1>0, <2>1 DEF RetryDone, MarkDone, Reactivate, TypeOK
    <3>2. ops # 0
      BY <3>1 DEF EventInv, FirstEvent
    <3> QED BY <3>1, <3>2 DEF EventInv, ReaderInv, FirstEvent, NoLostTrigger
  <2>2. CASE StopDone \/ MarkSelf \/ \E t \in Tasks : WriteRow(t)
    <3>1. UNCHANGED <<run, event, down, reader, ops, tick>> /\ mu'.op \in {mu.op, "none"}
      BY <1>0, <2>2 DEF StopDone, MarkSelf, WriteRow, TypeOK
    <3> QED BY <3>1, EventQuiet
  <2> QED BY <1>1, <2>1, <2>2 DEF Complete
<1>2. CASE ReadEvent
  <2>1. /\ tick.pc = "idle" /\ event = "pending" /\ UNCHANGED <<run, event, down, tick, ops, mu>>
        /\ reader' = IF run = "success" THEN "success" ELSE "consume"
    BY <1>2 DEF ReadEvent
  <2>2. run # "success" => ops >= 1
    BY <1>0, <2>1 DEF EventInv, FirstEvent
  <2> QED BY <2>1, <2>2 DEF EventInv, ReaderInv, FirstEvent, NoLostTrigger
<1>3. CASE TriggerDownstreams
  <2>1. /\ reader = "success" /\ UNCHANGED <<run, event, tick, ops, mu>>
        /\ \/ reader' = "consume" /\ down' = (down \/ run = "success")
           \/ reader' = "idle" /\ down' = down
    BY <1>3 DEF TriggerDownstreams
  <2>2. run # "success" => ops >= 1
    BY <1>0, <2>1 DEF EventInv, ReaderInv, FirstEvent
  <2>3. down => down'
    BY <2>1
  <2>4. ReaderInv'
    BY <2>1, <2>2 DEF EventInv, ReaderInv
  <2> QED BY <2>1, <2>3, <2>4 DEF EventInv, FirstEvent, NoLostTrigger
<1>4. CASE ConsumeEvent
  <2>1. reader = "consume" /\ reader' = "idle" /\ event' = "consumed" /\ UNCHANGED <<run, down, tick, ops, mu>>
    BY <1>4 DEF ConsumeEvent
  <2>2. run = "success" => down
    BY <2>1 DEF EventInv, ReaderInv
  <2>3. run # "success" => ops >= 1
    BY <1>0, <2>1 DEF EventInv, ReaderInv, FirstEvent
  <2> QED BY <1>0, <2>1, <2>2, <2>3 DEF EventInv, ReaderInv, FirstEvent, NoLostTrigger
<1>5. CASE Crash
  <2>1. reader' = "idle" /\ tick'.pc = "idle" /\ mu'.op = "none" /\ UNCHANGED <<run, event, down, ops>>
    BY <1>5 DEF Crash
  <2> QED BY <2>1, EventQuiet
<1>6. CASE Deadline \/ UNCHANGED vars \/ \E t \in Tasks : Attempt(t)
  BY <1>6, EventQuiet DEF Deadline, vars, Attempt, Start, Resolve, GiveBack
<1> QED BY <1>0, <1>1, <1>2, <1>3, <1>4, <1>5, <1>6, EventTick, EventOperate DEF Next, Events

\* NoLostTrigger for every DAG, any number of cancels, retries, marks of tasks
\* and crashes: the downstream run of a successful run exists or its event is
\* still pending, whatever the reader and the finalizer do in between.
THEOREM TriggerNotLost == ASSUME Calm PROVE Spec => []NoLostTrigger
<1>1. Init => EventInv
  BY FreeType, IdleType DEF Init, EventInv, ReaderInv, FirstEvent, NoLostTrigger
<1>2. Types /\ Drained /\ EventInv /\ [Next]_vars => EventInv'
  BY EventStep
<1>3. EventInv => NoLostTrigger
  BY DEF EventInv
<1> QED BY <1>1, <1>2, <1>3, RunTypes, PTL DEF Spec

-----------------------------------------------------------------------------
(* The gate of a task, for every finite set of dependencies.               *)

\* Gates keep their rule and dependencies stay in the known states.
THEOREM GateType == GateSpec => []GateTypeOK
<1>1. GateInit => GateTypeOK
  BY DEF GateInit, GateTypeOK, DepState
<1>2. GateTypeOK /\ [GateNext]_gateVars => GateTypeOK'
  BY DEF GateTypeOK, GateNext, Advance, gateVars, DepState
<1> QED BY <1>1, <1>2, PTL DEF GateSpec

\* The argument is by rule: each rule's two answers are complementary once all
\* dependencies are terminal.
LEMMA DecidesStep == GateTypeOK => GateDecides
BY DEF GateTypeOK, GateDecides, GateReady, GateBlocked, Ready, Blocked, AllIn, SomeIn,
       TriggerRule, DepState, TaskState, TerminalTask, FailedDep

\* EvalTriggerRule's answers exclude each other and leave no finished set of
\* dependencies undecided, for every rule and every number of dependencies.
THEOREM GateAlwaysDecides == GateSpec => []GateDecides
BY GateType, DecidesStep, PTL

\* A dependency that is terminal keeps its state.
LEMMA TerminalKept ==
    ASSUME GateTypeOK, [GateNext]_gateVars
    PROVE  /\ rule' = rule
           /\ \A d \in Dep : deps[d] \in TerminalTask => deps'[d] = deps[d]
BY DEF GateTypeOK, GateNext, Advance, gateVars

\* Ready and blocked are permanent, so the tick may act on them later.
THEOREM GateNeverRevoked == GateSpec => GateStable
<1>1. GateTypeOK /\ [GateNext]_gateVars => [(GateReady => GateReady') /\ (GateBlocked => GateBlocked')]_gateVars
  <2> SUFFICES ASSUME GateTypeOK, [GateNext]_gateVars
               PROVE  (GateReady => GateReady') /\ (GateBlocked => GateBlocked')
    OBVIOUS
  <2>1. rule' = rule /\ \A d \in Dep : deps[d] \in TerminalTask => deps'[d] = deps[d]
    BY TerminalKept
  <2>2. GateReady => GateReady'
    BY <2>1 DEF GateTypeOK, GateReady, Ready, AllIn, SomeIn, TerminalTask, FailedDep, TriggerRule
  <2>3. GateBlocked => GateBlocked'
    BY <2>1 DEF GateTypeOK, GateBlocked, Blocked, AllIn, SomeIn, TerminalTask, FailedDep, TriggerRule
  <2> QED BY <2>2, <2>3
<1> QED BY <1>1, GateType, PTL DEF GateSpec, GateStable

-----------------------------------------------------------------------------
\* The three facts about counting that the code relies on: nothing counted
\* means no dependency in the class, something means some, all means all.
LEMMA CountFacts ==
    ASSUME NEW S
    PROVE  /\ Count(S) \in Nat
           /\ Count(S) = 0 <=> \A d \in Dep : deps[d] \notin S
           /\ Count(S) = Cardinality(Dep) <=> \A d \in Dep : deps[d] \in S
<1> DEFINE C == {d \in Dep : deps[d] \in S}
<1>1. IsFiniteSet(Dep) /\ C \subseteq Dep
  BY DepFinite
<1>2. IsFiniteSet(C) /\ Cardinality(C) \in Nat /\ Cardinality(Dep) \in Nat
  BY <1>1, FS_Subset, FS_CardinalityType
<1>3. Cardinality(C) = 0 <=> C = {}
  BY <1>2, FS_EmptySet
<1>4. Cardinality(C) = Cardinality(Dep) <=> C = Dep
  BY <1>1, <1>2, FS_Subset
<1>5. Count(S) = Cardinality(C)
  BY DEF Count
<1>6. C = {} <=> \A d \in Dep : deps[d] \notin S
  OBVIOUS
<1>7. C = Dep <=> \A d \in Dep : deps[d] \in S
  OBVIOUS
<1> HIDE DEF C
<1> QED BY <1>2, <1>3, <1>4, <1>5, <1>6, <1>7

\* A terminal state is a success, a failure or a skip.
LEMMA TerminalSplit ==
    /\ TerminalTask = {"success", "skipped"} \cup FailedDep
    /\ "success" \notin FailedDep /\ "skipped" \notin FailedDep
BY DEF TerminalTask, FailedDep

\* The two answers of each branch of EvalTriggerRule, one rule at a time.
LEMMA EvalStep == GateTypeOK => EvalIsReadyBlocked
<1> SUFFICES ASSUME GateTypeOK PROVE EvalTriggerRule = <<GateReady, GateBlocked>>
  BY DEF EvalIsReadyBlocked
<1> DEFINE n == Cardinality(Dep)
           succ == Count({"success"})
           fail == Count(FailedDep)
           skip == Count({"skipped"})
           done == Count(TerminalTask)
<1>1. n \in Nat /\ (n = 0 <=> Dep = {})
  BY DepFinite, FS_CardinalityType, FS_EmptySet
<1>2. /\ succ \in Nat /\ fail \in Nat /\ skip \in Nat
      /\ succ = 0 <=> ~SomeIn(Dep, deps, {"success"})
      /\ fail = 0 <=> ~SomeIn(Dep, deps, FailedDep)
      /\ skip = 0 <=> ~SomeIn(Dep, deps, {"skipped"})
      /\ succ = n <=> AllIn(Dep, deps, {"success"})
      /\ fail = n <=> AllIn(Dep, deps, FailedDep)
      /\ done = n <=> AllIn(Dep, deps, TerminalTask)
  BY CountFacts DEF SomeIn, AllIn
<1>3. CASE n = 0
  BY <1>1, <1>3 DEF EvalTriggerRule, Eval, GateReady, GateBlocked, Ready, Blocked
<1>4. CASE n # 0
  <2>1. Dep # {}
    BY <1>1, <1>4
  <2>2. CASE rule = "all_success"
    <3>1. EvalTriggerRule = <<succ = n, fail > 0 \/ skip > 0>>
      BY <1>4, <2>2 DEF EvalTriggerRule, Eval
    <3>2. GateReady <=> succ = n
      BY <1>2, <2>1, <2>2, TerminalSplit DEF GateReady, Ready, AllIn, SomeIn, FailedDep
    <3>3. GateBlocked <=> (fail > 0 \/ skip > 0)
      BY <1>2, <2>1, <2>2, TerminalSplit DEF GateBlocked, Blocked, AllIn, SomeIn, FailedDep
    <3> QED BY <3>1, <3>2, <3>3
  <2>3. CASE rule = "all_done"
    <3>1. EvalTriggerRule = <<done = n, FALSE>>
      BY <1>4, <2>3 DEF EvalTriggerRule, Eval
    <3>2. GateReady <=> done = n
      BY <1>2, <2>1, <2>3, TerminalSplit DEF GateReady, Ready, AllIn, SomeIn, FailedDep
    <3>3. GateBlocked <=> FALSE
      BY <1>2, <2>1, <2>3, TerminalSplit DEF GateBlocked, Blocked, AllIn, SomeIn, FailedDep
    <3> QED BY <3>1, <3>2, <3>3
  <2>4. CASE rule = "one_success"
    <3>1. EvalTriggerRule = <<succ >= 1, done = n /\ succ = 0>>
      BY <1>4, <2>4 DEF EvalTriggerRule, Eval
    <3>2. (succ >= 1) = (succ # 0)
      BY <1>2
    <3>3. GateReady <=> succ # 0
      BY <1>2, <2>1, <2>4 DEF GateReady, Ready
    <3>4. GateBlocked <=> (done = n /\ succ = 0)
      BY <1>2, <2>1, <2>4, TerminalSplit DEF GateBlocked, Blocked, AllIn, SomeIn, FailedDep
    <3> QED BY <3>1, <3>2, <3>3, <3>4
  <2>5. CASE rule = "one_failed"
    <3>1. EvalTriggerRule = <<fail >= 1, done = n /\ fail = 0>>
      BY <1>4, <2>5 DEF EvalTriggerRule, Eval
    <3>2. (fail >= 1) = (fail # 0)
      BY <1>2
    <3>3. GateReady <=> fail # 0
      BY <1>2, <2>1, <2>5 DEF GateReady, Ready
    <3>4. GateBlocked <=> (done = n /\ fail = 0)
      BY <1>2, <2>1, <2>5, TerminalSplit DEF GateBlocked, Blocked, AllIn, SomeIn, FailedDep
    <3> QED BY <3>1, <3>2, <3>3, <3>4
  <2>6. CASE rule = "all_failed"
    <3>1. EvalTriggerRule = <<done = n /\ fail = n, succ > 0 \/ skip > 0>>
      BY <1>4, <2>6 DEF EvalTriggerRule, Eval
    <3>2. GateReady <=> (done = n /\ fail = n)
      BY <1>2, <2>1, <2>6, TerminalSplit DEF GateReady, Ready, AllIn, SomeIn, FailedDep
    <3>3. GateBlocked <=> (succ > 0 \/ skip > 0)
      BY <1>2, <2>1, <2>6, TerminalSplit DEF GateBlocked, Blocked, AllIn, SomeIn, FailedDep
    <3> QED BY <3>1, <3>2, <3>3
  <2>7. CASE rule = "none_failed"
    <3>1. EvalTriggerRule = <<done = n /\ fail = 0, fail > 0>>
      BY <1>4, <2>7 DEF EvalTriggerRule, Eval
    <3>2. (fail > 0) = (fail # 0)
      BY <1>2
    <3>3. GateReady <=> (done = n /\ fail = 0)
      BY <1>2, <2>1, <2>7, TerminalSplit DEF GateReady, Ready, AllIn, SomeIn, FailedDep
    <3>4. GateBlocked <=> fail # 0
      BY <1>2, <2>1, <2>7 DEF GateBlocked, Blocked
    <3> QED BY <3>1, <3>2, <3>3, <3>4
  <2> QED BY <2>2, <2>3, <2>4, <2>5, <2>6, <2>7 DEF GateTypeOK, TriggerRule
<1> QED BY <1>3, <1>4

\* The counting code agrees with the gateVars of the run model on every input.
THEOREM EvalAgrees == GateSpec => []EvalIsReadyBlocked
BY GateType, EvalStep, PTL
=============================================================================
