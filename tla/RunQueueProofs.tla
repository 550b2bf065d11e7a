--------------------------- MODULE RunQueueProofs ---------------------------
(***************************************************************************)
(* Theorems about RunQueue, for every set of DAGs, schedules, policies and *)
(* limits: the bounds of the queue and of what the tick promotes, the      *)
(* order in which a DAG's queue drains, schedules that never go back, and  *)
(* events consumed only when every subscriber was served.                  *)
(***************************************************************************)
EXTENDS RunQueue, FiniteSetTheorems, TLAPS

USE QueueConstants

-----------------------------------------------------------------------------
(* What a step does to the run rows.                                       *)

RunsFcn == runs \in [DOMAIN runs -> Row] /\ IsFiniteSet(DOMAIN runs)

Promoted(d) == {r \in Of(d, {"running"}) : ~runs[r].revived}

QueueLimit == IF MaxManualQueueGlobal > MaxQueuedRunsGlobal
              THEN MaxManualQueueGlobal ELSE MaxQueuedRunsGlobal

\* A run that did not exist is queued.
Added(r, date) ==
    /\ r \notin DOMAIN runs /\ DOMAIN runs' = DOMAIN runs \cup {r}
    /\ \A q \in DOMAIN runs : runs'[q] = runs[q]
    /\ runs'[r].state = "queued" /\ runs'[r].date = date

\* The state, hold or history of one row is written; none becomes queued.
Rewritten(r) ==
    /\ r \in DOMAIN runs /\ DOMAIN runs' = DOMAIN runs
    /\ \A q \in DOMAIN runs \ {r} : runs'[q] = runs[q]
    /\ runs'[r].date = runs[r].date /\ runs'[r].prio = runs[r].prio
    /\ runs'[r].state = "queued" => runs[r].state = "queued"

\* An insert that succeeds adds the run, any other leaves the rows alone.
LEMMA InsertEffect ==
    ASSUME RunsFcn, NEW r \in RunId, NEW date \in 0..MaxTime, NEW prio \in Prios \cup {0}, NEW result,
           result = "ok" => r \notin DOMAIN runs, Insert(r, date, prio, result)
    PROVE  /\ runs' = runs \/ (result = "ok" /\ Added(r, date))
           /\ RunsFcn'
<1>1. CASE result = "ok"
  <2> DEFINE new == [state |-> "queued", date |-> date, prio |-> prio, held |-> FALSE, revived |-> FALSE]
  <2>1. runs' = [q \in DOMAIN runs \cup {r} |-> IF q = r THEN new ELSE runs[q]]
    BY <1>1 DEF Insert
  <2>2. new \in Row /\ new.state = "queued" /\ new.date = date
    BY DEF Row, RunState
  <2> HIDE DEF new
  <2>3. Added(r, date)
    BY <1>1, <2>1, <2>2 DEF Added
  <2>4. runs' \in [DOMAIN runs' -> Row]
    BY <2>1, <2>2 DEF RunsFcn
  <2>5. IsFiniteSet(DOMAIN runs')
    BY <2>3, FS_AddElement DEF Added, RunsFcn
  <2> QED BY <1>1, <2>3, <2>4, <2>5 DEF RunsFcn
<1>2. CASE result # "ok"
  BY <1>2 DEF Insert, RunsFcn
<1> QED BY <1>1, <1>2

\* A guarded write of a state.
LEMMA WriteEffect ==
    ASSUME RunsFcn, NEW r \in DOMAIN runs, NEW s \in RunState \ {"queued"}, NEW v \in BOOLEAN, SetState(r, s, v)
    PROVE  /\ Rewritten(r) /\ RunsFcn'
           /\ runs'[r].state = UpdateDagRunState(runs[r].state, s)
           /\ runs'[r].revived = v
<1> DEFINE new == [state |-> UpdateDagRunState(runs[r].state, s), date |-> runs[r].date,
                   prio |-> runs[r].prio, held |-> runs[r].held, revived |-> v]
<1>1. runs' = [runs EXCEPT ![r] = new]
  BY DEF SetState
<1>2. runs[r] \in Row
  BY DEF RunsFcn
<1>3. UpdateDagRunState(runs[r].state, s) \in {runs[r].state, s} /\ s # "queued"
  BY DEF UpdateDagRunState
<1>4. new \in Row
  BY <1>2, <1>3 DEF Row
<1>5. new.state = UpdateDagRunState(runs[r].state, s) /\ new.date = runs[r].date /\ new.prio = runs[r].prio /\ new.revived = v
  OBVIOUS
<1> HIDE DEF new
<1>6. DOMAIN runs' = DOMAIN runs /\ runs'[r] = new /\ \A q \in DOMAIN runs \ {r} : runs'[q] = runs[q]
  BY <1>1 DEF RunsFcn
<1>7. runs' \in [DOMAIN runs' -> Row]
  BY <1>1, <1>4 DEF RunsFcn
<1> QED BY <1>3, <1>5, <1>6, <1>7 DEF Rewritten, RunsFcn

-----------------------------------------------------------------------------
(* Types, and the schedule's high-water mark.                              *)

\* Where the tick and the backfill stand.
TickInv ==
    /\ tick.by \in [Dags -> Nat]
    /\ tick.pc \in {"events", "due"} => tick.now \in 0..now
    /\ tick.pc = "due" => tick.todo \subseteq Scheduled
    /\ tick.pc \in {"idle", "events", "due"} => tick.listed = {} /\ tick.slots = {}
    /\ ~up => tick.pc = "idle"
    /\ \A b \in bf : b[1] \in Scheduled /\ b[2] <= now

\* Retention never removes a DAG's newest scheduled run, so that the next
\* period can be told from the rows alone.
HighInv ==
    \A d \in Dags :
      IF ScheduledRuns(d) = {} THEN high[d] = 0
      ELSE /\ \E r \in ScheduledRuns(d) : runs[r].date = high[d]
           /\ \A q \in ScheduledRuns(d) : runs[q].date <= high[d]

Types == TypeOK /\ RunsFcn /\ TickInv

\* The first boundary after a time is a later multiple of the interval.
LEMMA Boundary ==
    ASSUME NEW t \in Nat
    PROVE  /\ NextBoundary(t) \in Nat /\ NextBoundary(t) > t /\ NextBoundary(t) % Every = 0
<1>1. \A n \in Nat \ {0}, u \in Nat : u \div n \in Nat /\ (u \div n + 1) * n \in Nat
  OBVIOUS
<1>2. \A n \in Nat \ {0}, u \in Nat : (u \div n + 1) * n > u
  OBVIOUS
<1>3. \A n \in Nat \ {0}, k \in Nat : (k * n) % n = 0
  OBVIOUS
<1>4. t \div Every + 1 \in Nat /\ Every \in Nat \ {0}
  BY <1>1
<1> QED BY <1>1, <1>2, <1>3, <1>4 DEF NextBoundary

\* The next due period of a schedule is a boundary after everything it has
\* scheduled before.
LEMMA DueFacts ==
    ASSUME Types, HighInv, NEW d \in Dags
    PROVE  NextDue(d) \in Nat /\ NextDue(d) > high[d] /\ NextDue(d) % Every = 0
<1>0. high[d] \in Nat /\ boot \in Nat
  BY DEF Types, TypeOK
<1>1. CASE ScheduledRuns(d) # {}
  <2>1. PICK r \in ScheduledRuns(d) : runs[r].date = high[d]
    BY <1>1 DEF HighInv
  <2>2. \A q \in ScheduledRuns(d) : runs[q].date <= runs[r].date
    BY <1>1, <2>1 DEF HighInv
  <2>3. /\ LatestScheduledRun(d) \in ScheduledRuns(d)
        /\ \A q \in ScheduledRuns(d) : runs[q].date <= runs[LatestScheduledRun(d)].date
    BY <2>2 DEF LatestScheduledRun
  <2>4. \A q \in ScheduledRuns(d) : runs[q].date \in Nat
    BY DEF Types, TypeOK, ScheduledRuns, Row
  <2>5. runs[LatestScheduledRun(d)].date = high[d]
    <3> DEFINE a == runs[LatestScheduledRun(d)].date
               b == runs[r].date
    <3>1. a \in Nat /\ b \in Nat /\ a <= b /\ b <= a
      BY <2>2, <2>3, <2>4
    <3> HIDE DEF a, b
    <3>2. a = b
      BY <3>1
    <3> QED BY <2>1, <3>2 DEF a, b
  <2> QED BY <1>0, <1>1, <2>5, Boundary DEF NextDue
<1>2. CASE ScheduledRuns(d) = {}
  <2>1. high[d] = 0
    BY <1>2 DEF HighInv
  <2>2. Every \in Nat /\ Every > 0 /\ Every % Every = 0
    OBVIOUS
  <2>3. NextBoundary(boot) \in Nat /\ NextBoundary(boot) > 0 /\ NextBoundary(boot) % Every = 0
    BY <1>0, Boundary
  <2> QED BY <1>2, <2>1, <2>2, <2>3 DEF NextDue
<1> QED BY <1>1, <1>2

\* A run added.
LEMMA AddedTyped ==
    ASSUME Types, RunsFcn', NEW r \in RunId, NEW date \in 0..now, runs' = runs \/ Added(r, date), now' = now
    PROVE  /\ DOMAIN runs' \subseteq RunId /\ DOMAIN runs \subseteq DOMAIN runs'
           /\ \A q \in DOMAIN runs' : runs'[q] \in Row /\ runs'[q].date <= now
<1>1. \A q \in DOMAIN runs' : runs'[q] \in Row
  BY DEF RunsFcn
<1>2. \A q \in DOMAIN runs : runs[q].date <= now
  BY DEF Types, TypeOK
<1>3. now \in Nat /\ date <= now /\ DOMAIN runs \subseteq RunId
  BY DEF Types, TypeOK
<1> QED BY <1>1, <1>2, <1>3 DEF Added

\* A row rewritten.
LEMMA RewrittenTyped ==
    ASSUME Types, RunsFcn', NEW r, Rewritten(r), now' = now
    PROVE  /\ DOMAIN runs' = DOMAIN runs
           /\ \A q \in DOMAIN runs' : runs'[q] \in Row /\ runs'[q].date <= now
<1>1. \A q \in DOMAIN runs' : runs'[q] \in Row
  BY DEF RunsFcn
<1>2. \A q \in DOMAIN runs : runs[q].date <= now
  BY DEF Types, TypeOK
<1> QED BY <1>1, <1>2 DEF Rewritten

\* Who may be inserted: what the conditions of the INSERT let through is new,
\* and there was room for it.
LEMMA InsertNew ==
    ASSUME NEW r, NEW date, NEW room, InsertResult(r, date, room) = "ok"
    PROVE  r \notin DOMAIN runs /\ room
BY DEF InsertResult, Taken

\* A run is created only while the queue is below its limit.
Created(r, date) ==
    /\ runs' = runs \/ (Added(r, date) /\ Cardinality(In({"queued"})) < QueueLimit)
    /\ RunsFcn'

\* The queue's size is a number, and so is every part of it.
LEMMA Sizes ==
    ASSUME RunsFcn
    PROVE  \A S : IsFiniteSet(In(S)) /\ Cardinality(In(S)) \in Nat
<1> SUFFICES ASSUME NEW S PROVE IsFiniteSet(In(S)) /\ Cardinality(In(S)) \in Nat
  OBVIOUS
<1>1. In(S) \subseteq DOMAIN runs
  BY DEF In
<1>2. IsFiniteSet(In(S))
  BY <1>1, FS_Subset DEF RunsFcn
<1> QED BY <1>2, FS_CardinalityType

\* Deliver creates the subscriber's run at the present date.
LEMMA DeliverCreates ==
    ASSUME Types, NEW e \in Events, NEW d \in Dags, Deliver(e, d)
    PROVE  /\ <<d, "event", e>> \in RunId /\ now \in 0..now
           /\ Created(<<d, "event", e>>, now)
<1> DEFINE r == <<d, "event", e>>
           result == CreateDagRunBounded(r, now)
<1>1. r \in RunId /\ now \in 0..now /\ now \in 0..MaxTime /\ 0 \in Prios \cup {0} /\ RunsFcn
  BY DEF RunId, Types, TypeOK
<1>2. CASE ~dags[d].cached \/ dags[d].paused
  BY <1>1, <1>2 DEF Deliver, Created, RunsFcn
<1>3. CASE ~(~dags[d].cached \/ dags[d].paused)
  <2>1. Insert(r, now, 0, result)
    BY <1>3 DEF Deliver
  <2>2. result = "ok" => r \notin DOMAIN runs /\ Room
    BY InsertNew DEF CreateDagRunBounded
  <2>3. Room => Cardinality(In({"queued"})) < QueueLimit
    BY <1>1, Sizes DEF Room, QueueLimit
  <2> HIDE DEF r, result
  <2>4. (runs' = runs \/ (result = "ok" /\ Added(r, now))) /\ RunsFcn'
    BY <1>1, <2>1, <2>2, InsertEffect
  <2>5. Created(r, now)
    BY <2>2, <2>3, <2>4 DEF Created
  <2> QED BY <1>1, <2>5 DEF r
<1> QED BY <1>2, <1>3

\* The due run of a schedule.
LEMMA DueCreates ==
    ASSUME Types, HighInv, NEW d \in Dags, CreateDueRun(d)
    PROVE  \/ runs' = runs /\ high' = high /\ RunsFcn'
           \/ /\ <<d, "schedule", NextDue(d)>> \in RunId /\ NextDue(d) \in 0..now
              /\ Created(<<d, "schedule", NextDue(d)>>, NextDue(d))
              /\ \/ runs' = runs /\ high' = high
                 \/ /\ Added(<<d, "schedule", NextDue(d)>>, NextDue(d))
                    /\ high' = [high EXCEPT ![d] = NextDue(d)]
<1> DEFINE p == NextDue(d)
           r == <<d, "schedule", p>>
           result == CreateDagRunBounded(r, p)
<1>1. CASE ~IsDue(d)
  BY <1>1 DEF CreateDueRun, Types, RunsFcn
<1>2. CASE IsDue(d)
  <2>1. p \in Nat /\ p % Every = 0 /\ p <= tick.now /\ d \in Scheduled
    BY <1>2, DueFacts DEF CreateDueRun, IsDue, Types, TickInv
  <2>2. tick.now \in 0..now /\ now \in 0..MaxTime
    BY DEF CreateDueRun, Types, TickInv, TypeOK
  <2>3. p \in 0..now /\ p \in 0..MaxTime
    BY <2>1, <2>2
  <2>4. r \in RunId /\ 0 \in Prios \cup {0} /\ RunsFcn
    BY <2>1, <2>3 DEF RunId, Periods, Types
  <2>5. Insert(r, p, 0, result) /\ high' = IF result = "ok" THEN [high EXCEPT ![d] = p] ELSE high
    BY <1>2 DEF CreateDueRun
  <2>6. result = "ok" => r \notin DOMAIN runs /\ Room
    BY InsertNew DEF CreateDagRunBounded
  <2>7. Room => Cardinality(In({"queued"})) < QueueLimit
    BY <2>4, Sizes DEF Room, QueueLimit
  <2>8. result # "ok" => runs' = runs
    BY <2>5 DEF Insert
  <2> HIDE DEF p, r, result
  <2>9. (runs' = runs \/ (result = "ok" /\ Added(r, p))) /\ RunsFcn'
    BY <2>3, <2>4, <2>5, <2>6, InsertEffect
  <2>10. result = "ok" => Added(r, p)
    BY <2>3, <2>4, <2>5, <2>6, <2>9 DEF Added, Insert, RunsFcn
  <2> QED BY <2>3, <2>4, <2>5, <2>6, <2>7, <2>8, <2>9, <2>10 DEF Created, p, r
<1> QED BY <1>1, <1>2

\* An operator's run.
LEMMA ManualCreates ==
    ASSUME Types, NEW d \in Dags, NEW prio \in Prios, TriggerManual(d, prio)
    PROVE  /\ <<d, "manual", ops>> \in RunId /\ now \in 0..now
           /\ Created(<<d, "manual", ops>>, now)
<1> DEFINE r == <<d, "manual", ops>>
           result == InsertResult(r, now, ManualRoom(d))
<1>1. ops \in 0..(MaxOps - 1) /\ now \in 0..now /\ now \in 0..MaxTime /\ prio \in Prios \cup {0} /\ RunsFcn
  BY QueueConstants DEF TriggerManual, Operator, Types, TypeOK
<1>2. r \in RunId
  BY <1>1 DEF RunId
<1>3. Insert(r, now, prio, result)
  BY DEF TriggerManual
<1>4. result = "ok" => r \notin DOMAIN runs /\ ManualRoom(d)
  BY InsertNew
<1>5. ManualRoom(d) => Cardinality(In({"queued"})) < QueueLimit
  BY <1>1, Sizes DEF ManualRoom, QueueLimit
<1> HIDE DEF r, result
<1>6. (runs' = runs \/ (result = "ok" /\ Added(r, now))) /\ RunsFcn'
  BY <1>1, <1>2, <1>3, <1>4, InsertEffect
<1> QED BY <1>1, <1>2, <1>4, <1>5, <1>6 DEF Created, r

\* The child of a subdag task.
LEMMA SubdagCreates ==
    ASSUME Types, NEW d \in Subdags, NEW prio \in Prios, advanceSubdag(d, prio)
    PROVE  /\ <<d, "subdag", ops>> \in RunId /\ now \in 0..now
           /\ Created(<<d, "subdag", ops>>, now)
<1> DEFINE r == <<d, "subdag", ops>>
           result == CreateDagRunBounded(r, now)
<1>1. ops \in 0..(MaxOps - 1) /\ now \in 0..now /\ now \in 0..MaxTime /\ prio \in Prios \cup {0} /\ RunsFcn
  BY QueueConstants DEF advanceSubdag, Operator, Types, TypeOK
<1>2. r \in RunId
  BY <1>1 DEF RunId
<1>3. Insert(r, now, prio, result)
  BY DEF advanceSubdag
<1>4. result = "ok" => r \notin DOMAIN runs /\ Room
  BY InsertNew DEF CreateDagRunBounded
<1>5. Room => Cardinality(In({"queued"})) < QueueLimit
  BY <1>1, Sizes DEF Room, QueueLimit
<1> HIDE DEF r, result
<1>6. (runs' = runs \/ (result = "ok" /\ Added(r, now))) /\ RunsFcn'
  BY <1>1, <1>2, <1>3, <1>4, InsertEffect
<1> QED BY <1>1, <1>2, <1>4, <1>5, <1>6 DEF Created, r

\* A run that upstream runs of its date have set off.
LEMMA DependencyCreates ==
    ASSUME Types, NEW d \in Downstream, NEW date \in 0..now, DependencyRun(d, date)
    PROVE  <<d, "dependency", date>> \in RunId /\ Created(<<d, "dependency", date>>, date)
<1> DEFINE r == <<d, "dependency", date>>
           result == CreateDagRunBounded(r, date)
<1>1. now \in 0..MaxTime /\ date \in 0..MaxTime /\ 0 \in Prios \cup {0} /\ RunsFcn
  BY DEF Types, TypeOK
<1>2. r \in RunId
  BY <1>1 DEF RunId
<1>3. Insert(r, date, 0, result)
  BY DEF DependencyRun
<1>4. result = "ok" => r \notin DOMAIN runs /\ Room
  BY InsertNew DEF CreateDagRunBounded
<1>5. Room => Cardinality(In({"queued"})) < QueueLimit
  BY <1>1, Sizes DEF Room, QueueLimit
<1> HIDE DEF r, result
<1>6. (runs' = runs \/ (result = "ok" /\ Added(r, date))) /\ RunsFcn'
  BY <1>1, <1>2, <1>3, <1>4, InsertEffect
<1> QED BY <1>1, <1>2, <1>4, <1>5, <1>6 DEF Created, r

\* A period of a backfill.
LEMMA BackfillCreates ==
    ASSUME Types, NEW d \in Dags, NEW p \in Periods, BackfillPeriod(d, p)
    PROVE  <<d, "backfill", p>> \in RunId /\ p \in 0..now /\ Created(<<d, "backfill", p>>, p)
<1> DEFINE r == <<d, "backfill", p>>
           result == CreateDagRunBounded(r, p)
<1>1. <<d, p>>[1] \in Scheduled /\ <<d, p>>[2] <= now
  BY DEF BackfillPeriod, Types, TickInv
<1>2. p \in 0..now /\ p \in 0..MaxTime /\ d \in Scheduled /\ 0 \in Prios \cup {0} /\ RunsFcn
  BY <1>1 DEF Periods, Types, TypeOK
<1>3. r \in RunId
  BY <1>2 DEF RunId
<1>4. Insert(r, p, 0, result)
  BY DEF BackfillPeriod
<1>5. result = "ok" => r \notin DOMAIN runs /\ Room
  BY InsertNew DEF CreateDagRunBounded
<1>6. Room => Cardinality(In({"queued"})) < QueueLimit
  BY <1>2, Sizes DEF Room, QueueLimit
<1> HIDE DEF r, result
<1>7. (runs' = runs \/ (result = "ok" /\ Added(r, p))) /\ RunsFcn'
  BY <1>2, <1>3, <1>4, <1>5, InsertEffect
<1> QED BY <1>2, <1>3, <1>5, <1>6, <1>7 DEF Created, r

\* A write that starts no queued run, and makes no promoted run of one that
\* was not.
Demoted(r) ==
    runs'[r].state = "running" =>
        /\ runs[r].state # "queued"
        /\ ~runs'[r].revived => runs[r].state = "running" /\ ~runs[r].revived

\* The tick starts a run it listed.
LEMMA StartRewrites ==
    ASSUME Types, NEW r, NEW s, StartRun(r, s)
    PROVE  r \in DOMAIN runs /\ Rewritten(r) /\ RunsFcn'
<1>1. r \in DOMAIN runs /\ RunsFcn /\ "running" \in RunState \ {"queued"} /\ SetState(r, "running", FALSE)
  BY DEF StartRun, Fills, Types, TypeOK, RunState
<1> QED BY <1>1, WriteEffect

\* The tick passes a run over, or discards it.
LEMMA PassOverRewrites ==
    ASSUME Types, NEW r, NEW s, PassOver(r, s)
    PROVE  RunsFcn' /\ (runs' = runs \/ (Rewritten(r) /\ Demoted(r)))
<1>1. r \in DOMAIN runs /\ RunsFcn /\ "cancelled" \in RunState \ {"queued"} /\ runs[r].state \in RunState
  BY DEF PassOver, Fills, Types, TypeOK, RunState, Row
<1>2. CASE SetState(r, "cancelled", FALSE)
  <2>1. Rewritten(r) /\ RunsFcn' /\ runs'[r].state = UpdateDagRunState(runs[r].state, "cancelled")
    BY <1>1, <1>2, WriteEffect
  <2>2. UpdateDagRunState(runs[r].state, "cancelled") # "running"
    BY DEF UpdateDagRunState, LegalPriorRunStates
  <2> QED BY <2>1, <2>2 DEF Demoted
<1>3. CASE runs' = runs
  BY <1>1, <1>3 DEF RunsFcn
<1> QED BY <1>2, <1>3 DEF PassOver

\* A run ends, is cancelled, reactivated or held.
LEMMA OtherRewrites ==
    ASSUME Types, NEW r \in DOMAIN runs,
           \/ \E s \in Outcomes : Finish(r, s)
           \/ CancelRun(r) \/ Reactivate(r)
           \/ \E h \in BOOLEAN : SetDagRunHeld(r, h)
    PROVE  RunsFcn' /\ Rewritten(r) /\ Demoted(r)
<1>0. RunsFcn /\ runs[r] \in Row
  BY DEF Types, RunsFcn
<1>1. ASSUME NEW s \in Outcomes, Finish(r, s) PROVE RunsFcn' /\ Rewritten(r) /\ Demoted(r)
  <2>1. s \in RunState \ {"queued"} /\ s \in TerminalRun /\ runs[r].state = "running" /\ SetState(r, s, FALSE)
    BY <1>1 DEF TerminalRun, RunState, Finish
  <2>2. Rewritten(r) /\ RunsFcn' /\ runs'[r].state = UpdateDagRunState("running", s)
    BY <1>0, <2>1, WriteEffect
  <2>3. UpdateDagRunState("running", s) # "running"
    BY <2>1 DEF UpdateDagRunState, LegalPriorRunStates, TerminalRun
  <2> QED BY <2>2, <2>3 DEF Demoted
<1>2. CASE CancelRun(r)
  <2>1. "cancelled" \in RunState \ {"queued"} /\ runs[r].state \in ActiveRun /\ SetState(r, "cancelled", FALSE)
    BY <1>2 DEF RunState, CancelRun
  <2>2. Rewritten(r) /\ RunsFcn' /\ runs'[r].state = UpdateDagRunState(runs[r].state, "cancelled")
    BY <1>0, <2>1, WriteEffect
  <2>3. UpdateDagRunState(runs[r].state, "cancelled") # "running"
    BY <2>1 DEF UpdateDagRunState, LegalPriorRunStates, ActiveRun
  <2> QED BY <2>2, <2>3 DEF Demoted
<1>3. CASE Reactivate(r)
  <2>1. /\ "running" \in RunState \ {"queued"} /\ SetState(r, "running", TRUE)
        /\ runs[r].state # "queued"
    BY <1>3 DEF RunState, TerminalRun, Reactivate
  <2>2. Rewritten(r) /\ RunsFcn' /\ runs'[r].revived = TRUE
    BY <1>0, <2>1, WriteEffect
  <2> QED BY <2>1, <2>2 DEF Demoted
<1>4. ASSUME NEW h \in BOOLEAN, SetDagRunHeld(r, h) PROVE RunsFcn' /\ Rewritten(r) /\ Demoted(r)
  <2> DEFINE new == [state |-> runs[r].state, date |-> runs[r].date, prio |-> runs[r].prio,
                     held |-> h, revived |-> runs[r].revived]
  <2>1. runs' = [runs EXCEPT ![r] = new]
    BY <1>4 DEF SetDagRunHeld
  <2>2. /\ new \in Row /\ new.state = runs[r].state /\ new.date = runs[r].date /\ new.prio = runs[r].prio
        /\ new.revived = runs[r].revived
    BY <1>0 DEF Row
  <2> HIDE DEF new
  <2>3. DOMAIN runs' = DOMAIN runs /\ runs'[r] = new /\ \A q \in DOMAIN runs \ {r} : runs'[q] = runs[q]
    BY <1>0, <2>1 DEF RunsFcn
  <2>4. runs' \in [DOMAIN runs' -> Row]
    BY <1>0, <2>1, <2>2 DEF RunsFcn
  <2> QED BY <1>0, <2>2, <2>3, <2>4 DEF RunsFcn, Rewritten, Demoted
<1> QED BY <1>1, <1>2, <1>3, <1>4

\* Retention removes rows, and keeps each DAG's newest scheduled one.
LEMMA Prunes ==
    ASSUME Types, PruneRuns
    PROVE  /\ RunsFcn' /\ DOMAIN runs' \subseteq DOMAIN runs
           /\ \A q \in DOMAIN runs' : runs'[q] = runs[q]
           /\ \A q \in DOMAIN runs : Kept(q) => q \in DOMAIN runs'
           /\ tick' = tick /\ tick.pc = "idle"
<1>1. PICK old \in SUBSET {r \in In(TerminalRun) : runs[r].date + Retention <= now /\ ~Kept(r)} :
         runs' = [r \in DOMAIN runs \ old |-> runs[r]]
  BY DEF PruneRuns
<1>2. DOMAIN runs' = DOMAIN runs \ old /\ \A q \in DOMAIN runs' : runs'[q] = runs[q]
  BY <1>1
<1>3. IsFiniteSet(DOMAIN runs')
  BY <1>2, FS_Subset DEF Types, RunsFcn
<1>4. runs' \in [DOMAIN runs' -> Row]
  BY <1>1, <1>2 DEF Types, RunsFcn
<1> QED BY <1>1, <1>2, <1>3, <1>4 DEF RunsFcn, PruneRuns

-----------------------------------------------------------------------------
(* Every step changes the rows in one of four ways.                        *)

\* A run is created, and a schedule's mark moves on with its runs.
Creates(r, date) ==
    /\ r \in RunId /\ date \in 0..now /\ Added(r, date)
    /\ Cardinality(In({"queued"})) < QueueLimit
    /\ \/ Kind(r) # "schedule" /\ high' = high
       \/ /\ Kind(r) = "schedule" /\ Dag(r) \in Dags /\ date = NextDue(Dag(r))
          /\ high' = [high EXCEPT ![Dag(r)] = date]

Rewrites(r) ==
    Rewritten(r) /\ high' = high /\ (Demoted(r) \/ \E s : StartRun(r, s))

Pruned ==
    /\ DOMAIN runs' \subseteq DOMAIN runs /\ \A q \in DOMAIN runs' : runs'[q] = runs[q]
    /\ \A q \in DOMAIN runs : Kept(q) => q \in DOMAIN runs'
    /\ tick' = tick /\ tick.pc = "idle" /\ high' = high

RowStep ==
    /\ RunsFcn'
    /\ \/ runs' = runs /\ high' = high
       \/ \E r, date : Creates(r, date)
       \/ \E r : Rewrites(r)
       \/ Pruned

\* A creation that leaves the marks of schedules alone.
LEMMA CreatedStep ==
    ASSUME NEW r \in RunId, NEW date \in 0..now, Created(r, date), Kind(r) # "schedule", high' = high
    PROVE  RowStep
<1>1. CASE runs' = runs
  BY <1>1 DEF RowStep, Created
<1>2. CASE Added(r, date) /\ Cardinality(In({"queued"})) < QueueLimit
  <2>1. Creates(r, date)
    BY <1>2 DEF Creates
  <2> QED BY <2>1 DEF RowStep, Created
<1> QED BY <1>1, <1>2 DEF Created

\* Every step is one of the four.
LEMMA Rows ==
    ASSUME Types, HighInv, [Next]_vars
    PROVE  RowStep
<1>0. RunsFcn
  BY DEF Types
<1>a. ASSUME runs' = runs, high' = high PROVE RowStep
  BY <1>a, <1>0 DEF RowStep, RunsFcn
<1>1. ASSUME NEW e \in Events, NEW d \in Dags, Deliver(e, d) PROVE RowStep
  <2> DEFINE r == <<d, "event", e>>
  <2>1. r \in RunId /\ now \in 0..now /\ Created(r, now)
    BY <1>1, DeliverCreates
  <2>2. Kind(r) # "schedule" /\ high' = high
    BY <1>1 DEF Kind, Deliver
  <2> HIDE DEF r
  <2> QED BY <2>1, <2>2, CreatedStep
<1>2. ASSUME NEW d \in Dags, CreateDueRun(d) PROVE RowStep
  <2> DEFINE r == <<d, "schedule", NextDue(d)>>
  <2>1. \/ runs' = runs /\ high' = high /\ RunsFcn'
        \/ /\ r \in RunId /\ NextDue(d) \in 0..now /\ Created(r, NextDue(d))
           /\ \/ runs' = runs /\ high' = high
              \/ Added(r, NextDue(d)) /\ high' = [high EXCEPT ![d] = NextDue(d)]
    BY <1>2, DueCreates
  <2>2. Kind(r) = "schedule" /\ Dag(r) = d
    BY DEF Kind, Dag
  <2> HIDE DEF r
  <2>3. CASE runs' = runs /\ high' = high
    BY <2>3, <1>a
  <2>4. CASE /\ r \in RunId /\ NextDue(d) \in 0..now /\ Created(r, NextDue(d))
             /\ Added(r, NextDue(d)) /\ high' = [high EXCEPT ![d] = NextDue(d)]
    <3>1. runs' # runs
      BY <2>4 DEF Added
    <3>2. Creates(r, NextDue(d))
      BY <2>2, <2>4, <3>1 DEF Creates, Created
    <3> QED BY <2>4, <3>2 DEF RowStep, Created
  <2> QED BY <2>1, <2>3, <2>4
<1>3. ASSUME NEW d \in Dags, NEW p \in Prios, TriggerManual(d, p) PROVE RowStep
  <2> DEFINE r == <<d, "manual", ops>>
  <2>1. r \in RunId /\ now \in 0..now /\ Created(r, now)
    BY <1>3, ManualCreates
  <2>2. Kind(r) # "schedule" /\ high' = high
    BY <1>3 DEF Kind, TriggerManual
  <2> HIDE DEF r
  <2> QED BY <2>1, <2>2, CreatedStep
<1>3a. ASSUME NEW d \in Subdags, NEW p \in Prios, advanceSubdag(d, p) PROVE RowStep
  <2> DEFINE r == <<d, "subdag", ops>>
  <2>1. r \in RunId /\ now \in 0..now /\ Created(r, now)
    BY <1>3a, SubdagCreates
  <2>2. Kind(r) # "schedule" /\ high' = high
    BY <1>3a DEF Kind, advanceSubdag
  <2> HIDE DEF r
  <2> QED BY <2>1, <2>2, CreatedStep
<1>3b. ASSUME NEW d \in Downstream, NEW date \in 0..now, DependencyRun(d, date) PROVE RowStep
  <2> DEFINE r == <<d, "dependency", date>>
  <2>1. r \in RunId /\ Created(r, date)
    BY <1>3b, DependencyCreates
  <2>2. Kind(r) # "schedule" /\ high' = high
    BY <1>3b DEF Kind, DependencyRun
  <2> HIDE DEF r
  <2> QED BY <2>1, <2>2, CreatedStep
<1>4. ASSUME NEW d \in Dags, NEW p \in Periods, BackfillPeriod(d, p) PROVE RowStep
  <2> DEFINE r == <<d, "backfill", p>>
  <2>1. r \in RunId /\ p \in 0..now /\ Created(r, p)
    BY <1>4, BackfillCreates
  <2>2. Kind(r) # "schedule" /\ high' = high
    BY <1>4 DEF Kind, BackfillPeriod
  <2> HIDE DEF r
  <2> QED BY <2>1, <2>2, CreatedStep
<1>5. ASSUME NEW r, NEW s, StartRun(r, s) PROVE RowStep
  <2>1. Rewritten(r) /\ RunsFcn' /\ high' = high
    BY <1>5, StartRewrites DEF StartRun
  <2> QED BY <1>5, <2>1 DEF RowStep, Rewrites
<1>6. ASSUME NEW r, NEW s, PassOver(r, s) PROVE RowStep
  <2>1. high' = high /\ RunsFcn' /\ (runs' = runs \/ (Rewritten(r) /\ Demoted(r)))
    BY <1>6, PassOverRewrites DEF PassOver
  <2> QED BY <2>1 DEF RowStep, Rewrites
<1>7. ASSUME NEW r \in DOMAIN runs,
             \/ \E s \in Outcomes : Finish(r, s)
             \/ CancelRun(r) \/ Reactivate(r)
             \/ \E h \in BOOLEAN : SetDagRunHeld(r, h)
      PROVE  RowStep
  <2>1. RunsFcn' /\ Rewritten(r) /\ Demoted(r)
    BY <1>7, OtherRewrites
  <2>2. high' = high
    BY <1>7 DEF Finish, CancelRun, Reactivate, SetDagRunHeld
  <2> QED BY <2>1, <2>2 DEF RowStep, Rewrites
<1>8. CASE PruneRuns
  <2>1. high' = high
    BY <1>8 DEF PruneRuns
  <2> QED BY <1>8, <2>1, Prunes DEF RowStep, Pruned
<1>9. CASE TickStep
  <2>1. CASE BeginTick \/ BeginDue \/ ListQueued \/ ListRunning \/ EndTick
    BY <2>1, <1>a DEF BeginTick, BeginDue, ListQueued, ListRunning, EndTick
  <2>2. ASSUME NEW e \in Events, ConsumeEvent(e) PROVE RowStep
    BY <2>2, <1>a DEF ConsumeEvent
  <2> QED BY <1>9, <2>1, <2>2, <1>1, <1>2, <1>5, <1>6 DEF TickStep
<1>10. CASE OperatorStep
  <2>1. ASSUME NEW e \in Events, PublishEvent(e) PROVE RowStep
    BY <2>1, <1>a DEF PublishEvent
  <2>2. ASSUME NEW d \in Dags, (\E p \in BOOLEAN : SetPaused(d, p)) \/ DeleteDAG(d) PROVE RowStep
    BY <2>2, <1>a DEF SetPaused, DeleteDAG
  <2>3. ASSUME NEW d \in Scheduled, NEW p \in Periods, NEW q \in Periods, Backfill(d, p, q) PROVE RowStep
    BY <2>3, <1>a DEF Backfill
  <2> QED BY <1>10, <2>1, <2>2, <2>3, <1>3, <1>3a, <1>3b, <1>7 DEF OperatorStep
<1>11. CASE Background
  <2>1. ASSUME NEW d \in Dags, SoftDeleteDAG(d) \/ Evict(d) PROVE RowStep
    BY <2>1, <1>a DEF SoftDeleteDAG, Evict
  <2>2. CASE Restart
    BY <2>2, <1>a DEF Restart
  <2> QED BY <1>11, <2>1, <2>2, <1>4 DEF Background
<1>12. CASE Clock \/ Crash
  BY <1>12, <1>a DEF Clock, Crash
<1>13. CASE UNCHANGED vars
  BY <1>13, <1>a DEF vars
<1> QED BY <1>7, <1>8, <1>9, <1>10, <1>11, <1>12, <1>13 DEF Next

\* What the rows and marks are after a step.
LEMMA RowsTyped ==
    ASSUME Types, RowStep
    PROVE  /\ DOMAIN runs' \subseteq RunId
           /\ \A q \in DOMAIN runs' : runs'[q] \in Row /\ runs'[q].date <= now
           /\ DOMAIN runs \subseteq DOMAIN runs' \/ (tick' = tick /\ tick.pc = "idle")
           /\ high' \in [Dags -> 0..MaxTime]
<1>1. \A q \in DOMAIN runs' : runs'[q] \in Row
  BY DEF RowStep, RunsFcn
<1>2. /\ \A q \in DOMAIN runs : runs[q].date <= now
      /\ now \in 0..MaxTime /\ DOMAIN runs \subseteq RunId /\ high \in [Dags -> 0..MaxTime]
  BY DEF Types, TypeOK
<1>3. CASE runs' = runs /\ high' = high
  BY <1>1, <1>2, <1>3
<1>4. ASSUME NEW r, NEW date, Creates(r, date)
      PROVE  /\ DOMAIN runs' \subseteq RunId /\ DOMAIN runs \subseteq DOMAIN runs'
             /\ \A q \in DOMAIN runs' : runs'[q].date <= now
             /\ high' \in [Dags -> 0..MaxTime]
  <2>1. r \in RunId /\ date \in 0..now /\ date <= now /\ date \in 0..MaxTime /\ Added(r, date)
    BY <1>2, <1>4 DEF Creates
  <2>2. high' \in [Dags -> 0..MaxTime]
    BY <1>2, <1>4, <2>1 DEF Creates
  <2> QED BY <1>2, <2>1, <2>2 DEF Added
<1>5. ASSUME NEW r, Rewrites(r)
      PROVE  DOMAIN runs' = DOMAIN runs /\ high' = high /\ \A q \in DOMAIN runs' : runs'[q].date <= now
  BY <1>2, <1>5 DEF Rewrites, Rewritten
<1>6. CASE Pruned
  BY <1>1, <1>2, <1>6 DEF Pruned
<1> QED BY <1>1, <1>2, <1>3, <1>4, <1>5, <1>6 DEF RowStep

\* A schedule's mark stays the date of its newest run.
LEMMA HighStep ==
    ASSUME Types, HighInv, RowStep
    PROVE  HighInv'
<1> SUFFICES ASSUME NEW d \in Dags
             PROVE  IF ScheduledRuns(d)' = {} THEN high'[d] = 0
                    ELSE /\ \E r \in ScheduledRuns(d)' : runs'[r].date = high'[d]
                         /\ \A q \in ScheduledRuns(d)' : runs'[q].date <= high'[d]
  BY DEF HighInv
<1>0. IF ScheduledRuns(d) = {} THEN high[d] = 0
      ELSE /\ \E r \in ScheduledRuns(d) : runs[r].date = high[d]
           /\ \A q \in ScheduledRuns(d) : runs[q].date <= high[d]
  BY DEF HighInv
<1>a. high \in [Dags -> 0..MaxTime] /\ high[d] \in Nat /\ \A q \in DOMAIN runs : runs[q].date \in Nat
  BY DEF Types, TypeOK, Row
<1>1. ASSUME high'[d] = high[d], ScheduledRuns(d)' = ScheduledRuns(d),
             \A q \in ScheduledRuns(d) : runs'[q].date = runs[q].date
      PROVE  IF ScheduledRuns(d)' = {} THEN high'[d] = 0
             ELSE /\ \E r \in ScheduledRuns(d)' : runs'[r].date = high'[d]
                  /\ \A q \in ScheduledRuns(d)' : runs'[q].date <= high'[d]
  BY <1>0, <1>1
<1>2. CASE runs' = runs /\ high' = high
  BY <1>1, <1>2 DEF ScheduledRuns
<1>3. ASSUME NEW r, Rewrites(r)
      PROVE  /\ high'[d] = high[d] /\ ScheduledRuns(d)' = ScheduledRuns(d)
             /\ \A q \in ScheduledRuns(d) : runs'[q].date = runs[q].date
  BY <1>3 DEF Rewrites, Rewritten, ScheduledRuns
<1>4. ASSUME NEW r, NEW date, Creates(r, date)
      PROVE  IF ScheduledRuns(d)' = {} THEN high'[d] = 0
             ELSE /\ \E s \in ScheduledRuns(d)' : runs'[s].date = high'[d]
                  /\ \A q \in ScheduledRuns(d)' : runs'[q].date <= high'[d]
  <2>0. Added(r, date)
    BY <1>4 DEF Creates
  <2>1. CASE Kind(r) = "schedule" /\ Dag(r) = d
    <3>1. ScheduledRuns(d)' = ScheduledRuns(d) \cup {r}
      BY <2>0, <2>1 DEF Added, ScheduledRuns
    <3>2. runs'[r].date = date /\ \A q \in ScheduledRuns(d) : runs'[q].date = runs[q].date
      BY <2>0 DEF Added, ScheduledRuns
    <3>3. date = NextDue(d) /\ high'[d] = date
      BY <1>4, <1>a, <2>1 DEF Creates
    <3>4. NextDue(d) \in Nat /\ NextDue(d) > high[d]
      BY DueFacts
    <3>5. \A q \in ScheduledRuns(d) : runs[q].date \in Nat /\ runs[q].date <= high[d]
      BY <1>0, <1>a DEF ScheduledRuns
    <3>6. \A q \in ScheduledRuns(d) : runs'[q].date <= high'[d]
      BY <1>a, <3>2, <3>3, <3>4, <3>5
    <3>7. runs'[r].date <= high'[d]
      BY <3>2, <3>3, <3>4
    <3> QED BY <3>1, <3>2, <3>3, <3>6, <3>7
  <2>2. CASE ~(Kind(r) = "schedule" /\ Dag(r) = d)
    <3>1. ScheduledRuns(d)' = ScheduledRuns(d) /\ \A q \in ScheduledRuns(d) : runs'[q].date = runs[q].date
      BY <2>0, <2>2 DEF Added, ScheduledRuns
    <3>2. high'[d] = high[d]
      BY <1>4, <1>a, <2>2 DEF Creates
    <3> QED BY <1>1, <3>1, <3>2
  <2> QED BY <2>1, <2>2
<1>5. CASE Pruned
  <2>1. CASE ScheduledRuns(d) = {}
    <3>1. ScheduledRuns(d)' = {}
      BY <1>5, <2>1 DEF Pruned, ScheduledRuns
    <3> QED BY <1>0, <1>5, <2>1, <3>1 DEF Pruned
  <2>2. CASE ScheduledRuns(d) # {}
    <3>1. PICK r \in ScheduledRuns(d) : runs[r].date = high[d]
      BY <1>0, <2>2
    <3>2. Kept(r)
      BY <1>0, <2>2, <3>1 DEF Kept, ScheduledRuns
    <3>3. r \in DOMAIN runs' /\ runs'[r] = runs[r] /\ high' = high
      BY <1>5, <3>1, <3>2 DEF Pruned, ScheduledRuns
    <3>4. r \in ScheduledRuns(d)'
      BY <3>1, <3>3 DEF ScheduledRuns
    <3>5. \A q \in ScheduledRuns(d)' : q \in ScheduledRuns(d) /\ runs'[q] = runs[q]
      BY <1>5 DEF Pruned, ScheduledRuns
    <3> QED BY <1>0, <2>2, <3>1, <3>3, <3>4, <3>5
  <2> QED BY <2>1, <2>2
<1> QED BY <1>1, <1>2, <1>3, <1>4, <1>5 DEF RowStep

\* The counts the tick takes are numbers.
LEMMA Counts ==
    ASSUME RunsFcn, NEW S
    PROVE  [d \in Dags |-> Cardinality(Of(d, S))] \in [Dags -> Nat]
<1> SUFFICES ASSUME NEW d \in Dags PROVE Cardinality(Of(d, S)) \in Nat
  OBVIOUS
<1>1. Of(d, S) \subseteq In(S) /\ IsFiniteSet(In(S))
  BY Sizes DEF Of
<1> QED BY <1>1, FS_Subset, FS_CardinalityType

\* The clock, the operators' part of the state and the backfill are typed.
PlainTypes ==
    /\ now \in 0..MaxTime /\ boot \in 0..now /\ up \in BOOLEAN
    /\ policy \in Policies
    /\ events \in [Events -> {"none", "pending", "consumed"}]
    /\ dags \in [Dags -> [paused : BOOLEAN, deleted : BOOLEAN, cached : BOOLEAN]]
    /\ deleting \subseteq Dags /\ bf \subseteq Dags \X Periods
    /\ \A b \in bf : b[1] \in Scheduled /\ b[2] <= now
    /\ ops \in 0..MaxOps /\ crashes \in 0..MaxCrash

\* The place of the tick is typed.
TickTypes ==
    /\ tick.pc \in {"idle", "events", "due", "running", "start"}
    /\ tick.by \in [Dags -> Nat]
    /\ tick.pc \in {"events", "due"} => tick.now \in 0..now
    /\ tick.pc = "due" => tick.todo \subseteq Scheduled
    /\ tick.pc \in {"idle", "events", "due"} => tick.listed = {} /\ tick.slots = {}
    /\ ~up => tick.pc = "idle"
    /\ tick.listed \subseteq DOMAIN runs /\ tick.slots \subseteq DOMAIN runs

\* Time only moves forward.
LEMMA Forward ==
    ASSUME Types, [Next]_vars
    PROVE  now' \in 0..MaxTime /\ now <= now'
<1>1. now \in 0..MaxTime
  BY DEF Types, TypeOK
<1>2. CASE Clock
  BY <1>1, <1>2 DEF Clock
<1>3. CASE now' = now
  BY <1>1, <1>3
<1> QED BY <1>2, <1>3 DEF Next, TickStep, OperatorStep, Background, BeginTick, BeginDue, ListQueued, ListRunning,
     EndTick, ConsumeEvent, Deliver, CreateDueRun, StartRun, PassOver, PublishEvent, TriggerManual, advanceSubdag, DependencyRun, SetPaused,
     DeleteDAG, Backfill, CancelRun, Reactivate, SetDagRunHeld, SoftDeleteDAG, Evict, BackfillPeriod, Restart,
     Finish, PruneRuns, Crash, vars

\* Steps that write none of the plain state.
LEMMA PlainSame ==
    ASSUME PlainTypes, UNCHANGED <<now, up, boot, policy, events, dags, deleting, bf, ops, crashes>>
    PROVE  PlainTypes'
BY DEF PlainTypes

\* The operators, the restarts and the deletions keep the plain state typed.
LEMMA PlainStep ==
    ASSUME PlainTypes, [Next]_vars
    PROVE  PlainTypes'
<1>1. CASE TickStep
  <2>1. ASSUME NEW e \in Events, ConsumeEvent(e) PROVE PlainTypes'
    <3>1. events[e] \in {"none", "pending", "consumed"}
      BY DEF PlainTypes
    <3>2. events' \in [Events -> {"none", "pending", "consumed"}]
      BY <2>1, <3>1 DEF ConsumeEvent, PlainTypes
    <3> QED BY <2>1, <3>2 DEF ConsumeEvent, PlainTypes
  <2>2. CASE \/ BeginTick \/ BeginDue \/ ListQueued \/ ListRunning \/ EndTick
             \/ (\E e \in Events, d \in Dags : Deliver(e, d)) \/ (\E d \in Dags : CreateDueRun(d))
             \/ \E r, s : StartRun(r, s) \/ PassOver(r, s)
    BY <2>2, PlainSame DEF BeginTick, BeginDue, ListQueued, ListRunning, EndTick, Deliver, CreateDueRun, StartRun, PassOver
  <2> QED BY <1>1, <2>1, <2>2 DEF TickStep
<1>2. CASE OperatorStep
  <2>1. ASSUME NEW e \in Events, PublishEvent(e) PROVE PlainTypes'
    <3>1. events' \in [Events -> {"none", "pending", "consumed"}] /\ ops' \in 0..MaxOps
      BY <2>1 DEF PublishEvent, Operator, PlainTypes
    <3> QED BY <2>1, <3>1 DEF PublishEvent, PlainTypes
  <2>2. ASSUME NEW d \in Dags, NEW p \in BOOLEAN, SetPaused(d, p) PROVE PlainTypes'
    <3>1. dags' \in [Dags -> [paused : BOOLEAN, deleted : BOOLEAN, cached : BOOLEAN]] /\ ops' \in 0..MaxOps
      BY <2>2 DEF SetPaused, SetDag, Operator, PlainTypes
    <3> QED BY <2>2, <3>1 DEF SetPaused, PlainTypes
  <2>3. ASSUME NEW d \in Dags, DeleteDAG(d) PROVE PlainTypes'
    BY <2>3 DEF DeleteDAG, Operator, PlainTypes
  <2>4. ASSUME NEW d \in Scheduled, NEW p \in Periods, NEW q \in Periods, Backfill(d, p, q) PROVE PlainTypes'
    <3>1. p \in Nat /\ q \in Nat /\ now \in Nat /\ d \in Dags
      BY DEF Periods, PlainTypes
    <3>2. Least(q, now) \in Nat /\ Least(q, now) <= now
      BY <3>1 DEF Least
    <3>3. bf' = {<<d, x>> : x \in {y \in Periods : p <= y /\ y <= Least(q, now)}}
      BY <2>4 DEF Backfill
    <3>4. \A x \in Periods : x <= Least(q, now) => x <= now
      BY <3>1, <3>2 DEF Periods
    <3>5. bf' \subseteq Dags \X Periods /\ \A b \in bf' : b[1] \in Scheduled /\ b[2] <= now
      BY <3>1, <3>3, <3>4
    <3>6. ops' \in 0..MaxOps
      BY <2>4 DEF Backfill, Operator, PlainTypes
    <3> QED BY <2>4, <3>5, <3>6 DEF Backfill, PlainTypes
  <2>5. ASSUME \/ Operator("trigger") \/ Operator("subdag") \/ Operator("dependency") \/ Operator("cancel")
                  \/ Operator("retry") \/ Operator("hold"),
               UNCHANGED <<now, up, boot, policy, events, dags, deleting, bf, crashes>>
        PROVE  PlainTypes'
    BY <2>5 DEF Operator, PlainTypes
  <2> QED BY <1>2, <2>1, <2>2, <2>3, <2>4, <2>5 DEF OperatorStep, TriggerManual, advanceSubdag, DependencyRun, CancelRun, Reactivate, SetDagRunHeld
<1>3. CASE Background
  <2>1. ASSUME NEW d \in Dags, SoftDeleteDAG(d) PROVE PlainTypes'
    <3>1. dags' \in [Dags -> [paused : BOOLEAN, deleted : BOOLEAN, cached : BOOLEAN]]
      BY <2>1 DEF SoftDeleteDAG, SetDag, PlainTypes
    <3> QED BY <2>1, <3>1 DEF SoftDeleteDAG, PlainTypes
  <2>2. ASSUME NEW d \in Dags, Evict(d) PROVE PlainTypes'
    <3>1. dags' \in [Dags -> [paused : BOOLEAN, deleted : BOOLEAN, cached : BOOLEAN]]
      BY <2>2 DEF Evict, SetDag, PlainTypes
    <3> QED BY <2>2, <3>1 DEF Evict, PlainTypes
  <2>3. ASSUME NEW d \in Dags, NEW p \in Periods, BackfillPeriod(d, p) PROVE PlainTypes'
    <3>1. bf' \subseteq bf
      BY <2>3 DEF BackfillPeriod
    <3> QED BY <2>3, <3>1 DEF BackfillPeriod, PlainTypes
  <2>4. CASE Restart
    <3>1. dags' \in [Dags -> [paused : BOOLEAN, deleted : BOOLEAN, cached : BOOLEAN]]
      BY <2>4 DEF Restart, PlainTypes
    <3> QED BY <2>4, <3>1 DEF Restart, PlainTypes
  <2> QED BY <1>3, <2>1, <2>2, <2>3, <2>4 DEF Background
<1>4. CASE Clock
  <2>1. now' \in 0..MaxTime /\ boot' \in 0..now' /\ now \in Nat /\ now < now'
    BY <1>4 DEF Clock, PlainTypes
  <2>2. \A b \in bf : b[1] \in Scheduled /\ b[2] \in Nat /\ b[2] <= now'
    BY <2>1 DEF PlainTypes, Periods
  <2> QED BY <1>4, <2>1, <2>2 DEF Clock, PlainTypes
<1>5. CASE Crash
  <2>1. crashes' \in 0..MaxCrash
    BY <1>5 DEF Crash, PlainTypes
  <2>2. up' \in BOOLEAN /\ deleting' \subseteq Dags /\ bf' = {}
    BY <1>5 DEF Crash
  <2> QED BY <1>5, <2>1, <2>2 DEF Crash, PlainTypes
<1>6. CASE PruneRuns \/ (\E r \in DOMAIN runs, s \in Outcomes : Finish(r, s)) \/ UNCHANGED vars
  BY <1>6, PlainSame DEF PruneRuns, Finish, vars
<1> QED BY <1>1, <1>2, <1>3, <1>4, <1>5, <1>6 DEF Next

\* The tick goes round its places, its lists are rows that exist.
LEMMA TickTyped ==
    ASSUME Types, RowStep, [Next]_vars
    PROVE  TickTypes'
<1>0. /\ DOMAIN runs \subseteq DOMAIN runs' \/ (tick' = tick /\ tick.pc = "idle")
      /\ now \in 0..MaxTime /\ now' \in 0..MaxTime /\ now <= now'
  BY RowsTyped, Forward DEF Types, TypeOK
<1>1. /\ tick.pc \in {"idle", "events", "due", "running", "start"} /\ tick.by \in [Dags -> Nat] /\ TickInv
      /\ tick.listed \subseteq DOMAIN runs /\ tick.slots \subseteq DOMAIN runs /\ RunsFcn
  BY DEF Types, TypeOK, TickInv
<1>2. ASSUME tick' = tick, up' = up \/ up' = TRUE PROVE TickTypes'
  <2>1. tick.pc \in {"events", "due"} => tick.now \in 0..now'
    BY <1>0, <1>1 DEF TickInv
  <2>2. tick.listed \subseteq DOMAIN runs' /\ tick.slots \subseteq DOMAIN runs'
    BY <1>0, <1>1 DEF TickInv
  <2> QED BY <1>1, <1>2, <2>1, <2>2 DEF TickTypes, TickInv
<1>3. Zero \in [Dags -> Nat]
  BY DEF Zero
<1>4. ASSUME tick' = Idle PROVE TickTypes'
  BY <1>3, <1>4 DEF Idle, At, TickTypes
<1>5. ASSUME NEW t, NEW de, NEW mi, tick' = Done(t, de, mi), tick.pc \in {"events", "due"}, up' = up, now' = now PROVE TickTypes'
  BY <1>1, <1>5 DEF Done, At, TickTypes, TickInv
<1>6. ASSUME NEW r, NEW s, NEW by \in [Dags -> Nat], TurnOver(r, s, by), tick.pc = "start", up' = up PROVE TickTypes'
  <2>1. tick.listed \subseteq DOMAIN runs' /\ tick.slots \subseteq DOMAIN runs'
    BY <1>0, <1>1, <1>6 DEF TickInv
  <2> QED BY <1>1, <1>6, <2>1 DEF TurnOver, At, TickTypes, TickInv
<1>7. CASE TickStep
  <2>1. CASE BeginTick
    BY <1>0, <1>1, <1>3, <2>1 DEF BeginTick, At, TickTypes, TickInv
  <2>2. CASE BeginDue
    <3>1. [d \in Dags |-> Cardinality(Of(d, CountsActive))] \in [Dags -> Nat]
      BY <1>1, Counts
    <3> HIDE DEF CountsActive
    <3> QED BY <1>0, <1>1, <2>2, <3>1 DEF BeginDue, At, TickTypes, TickInv
  <2>3. CASE ListQueued
    <3>1. PICK Q \in SUBSET In({"queued"}) : tick' = At("running", 0, {}, {}, {}, Zero, Q, {r \in Q : runs[r].held}, Q)
      BY <2>3 DEF ListQueued
    <3>2. Q \subseteq DOMAIN runs' /\ up' = up /\ up
      BY <1>1, <2>3 DEF ListQueued, In, TickInv, Types, TypeOK
    <3> QED BY <1>3, <3>1, <3>2 DEF At, TickTypes
  <2>4. CASE ListRunning
    <3>1. [d \in Dags |-> Cardinality(Of(d, CountsRunning))] \in [Dags -> Nat]
      BY <1>1, Counts
    <3>2. up' = up /\ up /\ tick.listed \subseteq DOMAIN runs' /\ tick.slots \subseteq DOMAIN runs'
      BY <1>1, <2>4 DEF ListRunning, TickInv, Types, TypeOK
    <3> QED BY <2>4, <3>1, <3>2 DEF ListRunning, At, TickTypes
  <2>5. CASE EndTick
    BY <1>4, <2>5 DEF EndTick
  <2>6. ASSUME NEW e \in Events, ConsumeEvent(e) PROVE TickTypes'
    BY <1>5, <2>6 DEF ConsumeEvent
  <2>7. ASSUME NEW e \in Events, NEW d \in Dags, Deliver(e, d) PROVE TickTypes'
    BY <1>5, <2>7 DEF Deliver
  <2>8. ASSUME NEW d \in Dags, CreateDueRun(d) PROVE TickTypes'
    BY <1>5, <2>8 DEF CreateDueRun
  <2>9. ASSUME NEW r, NEW s, StartRun(r, s) PROVE TickTypes'
    <3>1. r \in RunId
      BY <1>1, <2>9 DEF StartRun, Fills, Types, TypeOK
    <3>2. Dag(r) \in Dags
      BY <3>1 DEF RunId, Dag
    <3>3. tick.by[Dag(r)] + 1 \in Nat
      BY <1>1, <3>2
    <3>4. [tick.by EXCEPT ![Dag(r)] = @ + 1] \in [Dags -> Nat]
      BY <1>1, <3>3
    <3> QED BY <1>6, <2>9, <3>4 DEF StartRun
  <2>10. ASSUME NEW r, NEW s, PassOver(r, s) PROVE TickTypes'
    BY <1>1, <1>6, <2>10 DEF PassOver
  <2> QED BY <1>7, <2>1, <2>2, <2>3, <2>4, <2>5, <2>6, <2>7, <2>8, <2>9, <2>10 DEF TickStep
<1>8. CASE OperatorStep
  BY <1>2, <1>8 DEF OperatorStep, PublishEvent, TriggerManual, advanceSubdag, DependencyRun, SetPaused, DeleteDAG, Backfill, CancelRun, Reactivate, SetDagRunHeld
<1>9. CASE Background
  BY <1>2, <1>9 DEF Background, SoftDeleteDAG, Evict, BackfillPeriod, Restart
<1>10. CASE Crash
  BY <1>4, <1>10 DEF Crash
<1>11. CASE PruneRuns \/ Clock \/ (\E r \in DOMAIN runs, s \in Outcomes : Finish(r, s)) \/ UNCHANGED vars
  BY <1>2, <1>11 DEF PruneRuns, Clock, Finish, vars
<1> QED BY <1>7, <1>8, <1>9, <1>10, <1>11 DEF Next

\* Initially there is nothing.
LEMMA TypesInit ==
    ASSUME Init
    PROVE  Types /\ HighInv
<1>1. DOMAIN runs = {}
  BY DEF Init
<1>2. runs \in [DOMAIN runs -> Row] /\ IsFiniteSet(DOMAIN runs)
  BY <1>1, FS_EmptySet DEF Init
<1>3. Zero \in [Dags -> 0..MaxTime] /\ Zero \in [Dags -> Nat]
  BY DEF Zero
<1>4. /\ tick.pc = "idle" /\ tick.by = Zero /\ tick.listed = {} /\ tick.slots = {}
  BY DEF Init, Idle, At
<1>5. TypeOK
  BY <1>1, <1>3, <1>4 DEF Init, TypeOK
<1>6. TickInv
  BY <1>3, <1>4 DEF Init, TickInv
<1>7. HighInv
  BY <1>1 DEF Init, HighInv, ScheduledRuns, Zero
<1> QED BY <1>2, <1>5, <1>6, <1>7 DEF Types, RunsFcn

\* Every step keeps the types, and the marks.
LEMMA TypesStep ==
    ASSUME Types, HighInv, [Next]_vars
    PROVE  Types' /\ HighInv'
<1>1. RowStep
  BY Rows
<1>2. HighInv' /\ TickTypes' /\ RunsFcn'
  BY <1>1, HighStep, TickTyped DEF RowStep
<1>3. PlainTypes
  BY DEF Types, TypeOK, TickInv, PlainTypes
<1>4. PlainTypes'
  BY <1>3, PlainStep
<1>5. /\ DOMAIN runs' \subseteq RunId /\ \A q \in DOMAIN runs' : runs'[q] \in Row /\ runs'[q].date <= now
      /\ high' \in [Dags -> 0..MaxTime]
  BY <1>1, RowsTyped
<1>6. now \in Nat /\ now' \in Nat /\ now <= now'
  BY Forward DEF Types, TypeOK
<1>7. \A q \in DOMAIN runs' : runs'[q].date <= now'
  BY <1>5, <1>6 DEF Row
<1>8. TypeOK'
  BY <1>2, <1>4, <1>5, <1>7 DEF TypeOK, PlainTypes, TickTypes
<1>9. TickInv'
  BY <1>2, <1>4 DEF TickInv, PlainTypes, TickTypes
<1> QED BY <1>2, <1>8, <1>9 DEF Types

-----------------------------------------------------------------------------
(* The bounds of the queue and of what the tick promotes.                  *)

\* Nothing joins the queue but a run created while there is room.
LEMMA BoundStep ==
    ASSUME Types, RowStep, QueueBound
    PROVE  QueueBound'
<1> DEFINE Q == In({"queued"})
<1>1. RunsFcn /\ RunsFcn'
  BY DEF Types, RowStep
<1>2. IsFiniteSet(Q) /\ Cardinality(Q) \in Nat /\ QueueLimit \in Nat /\ Cardinality(Q) <= QueueLimit
  BY <1>1, Sizes DEF QueueLimit, QueueBound
<1>3. SUFFICES Cardinality(Q') <= QueueLimit
  BY <1>1 DEF QueueBound, QueueLimit
<1>4. ASSUME Q' \subseteq Q PROVE Cardinality(Q') <= QueueLimit
  <2>1. Cardinality(Q') \in Nat /\ Cardinality(Q') <= Cardinality(Q)
    BY <1>2, <1>4, FS_Subset, FS_CardinalityType
  <2> QED BY <1>2, <2>1
<1>5. ASSUME NEW r, NEW date, Creates(r, date) PROVE Cardinality(Q') <= QueueLimit
  <2>1. Added(r, date) /\ Cardinality(Q) < QueueLimit
    BY <1>5 DEF Creates
  <2>2. Q' = Q \cup {r} /\ r \notin Q
    BY <2>1 DEF Added, In
  <2> HIDE DEF Q
  <2>3. Cardinality(Q \cup {r}) = Cardinality(Q) + 1
    BY <1>2, <2>2, FS_AddElement
  <2> QED BY <1>2, <2>1, <2>2, <2>3
<1>6. ASSUME NEW r, Rewrites(r) PROVE Q' \subseteq Q
  BY <1>6 DEF Rewrites, Rewritten, In
<1>7. CASE Pruned
  <2>1. Q' \subseteq Q
    BY <1>7 DEF Pruned, In
  <2> QED BY <1>4, <2>1
<1>8. CASE runs' = runs
  <2>1. Q' \subseteq Q
    BY <1>8 DEF In
  <2> QED BY <1>4, <2>1
<1> HIDE DEF Q
<1> QED BY <1>4, <1>5, <1>6, <1>7, <1>8 DEF RowStep

\* Only a start adds to a DAG's promoted runs, and it adds one.
LEMMA PromotedStep ==
    ASSUME Types, RowStep, NEW d \in Dags
    PROVE  \/ Promoted(d)' \subseteq Promoted(d)
           \/ \E r, s : StartRun(r, s) /\ Dag(r) = d /\ Promoted(d)' \subseteq Promoted(d) \cup {r}
<1>1. CASE runs' = runs
  BY <1>1 DEF Promoted, Of, In
<1>2. ASSUME NEW r, NEW date, Creates(r, date) PROVE Promoted(d)' \subseteq Promoted(d)
  BY <1>2 DEF Creates, Added, Promoted, Of, In
<1>3. CASE Pruned
  BY <1>3 DEF Pruned, Promoted, Of, In
<1>4. ASSUME NEW r, Rewritten(r), Demoted(r) PROVE Promoted(d)' \subseteq Promoted(d)
  BY <1>4 DEF Rewritten, Demoted, Promoted, Of, In
<1>5. ASSUME NEW r, Rewritten(r), NEW s, StartRun(r, s)
      PROVE  \/ Promoted(d)' \subseteq Promoted(d)
             \/ StartRun(r, s) /\ Dag(r) = d /\ Promoted(d)' \subseteq Promoted(d) \cup {r}
  BY <1>5 DEF Rewritten, Promoted, Of, In
<1> QED BY <1>1, <1>2, <1>3, <1>4, <1>5 DEF RowStep, Rewrites

\* While it promotes, the tick has counted every run it promoted.
CapInv == tick.pc = "start" => \A d \in Dags : Cardinality(Promoted(d)) <= tick.by[d]

\* What the policy of a DAG allows.
PolicyCap(d) == IF policy[d] = "parallel" /\ MaxActiveRuns[d] > 0 THEN MaxActiveRuns[d] ELSE 1

\* The tick's cap is within the policy's, also for a DAG the cache has lost.
LEMMA CapWithin ==
    ASSUME NEW d \in Dags
    PROVE  Cap(d) \in Nat /\ PolicyCap(d) \in Nat /\ Cap(d) <= PolicyCap(d)
<1>1. MaxActiveRuns[d] \in Nat
  OBVIOUS
<1>2. MaxActiveRuns[d] > 0 => 1 <= MaxActiveRuns[d]
  BY <1>1
<1> QED BY <1>1, <1>2 DEF Cap, PolicyCap, PolicyOf

\* Promoted runs are finitely many.
LEMMA PromotedSize ==
    ASSUME RunsFcn, NEW d
    PROVE  /\ IsFiniteSet(Promoted(d)) /\ Cardinality(Promoted(d)) \in Nat
           /\ Cardinality(Promoted(d)) <= Cardinality(Of(d, {"running"}))
<1>1. Of(d, {"running"}) \subseteq In({"running"}) /\ IsFiniteSet(In({"running"}))
  BY Sizes DEF Of
<1>2. IsFiniteSet(Of(d, {"running"}))
  BY <1>1, FS_Subset
<1>3. Promoted(d) \subseteq Of(d, {"running"})
  BY DEF Promoted
<1> QED BY <1>2, <1>3, FS_Subset, FS_CardinalityType

\* The tick is at its promotions after counting, or its counts only grow.
LEMMA Counted ==
    ASSUME Types, [Next]_vars, tick'.pc = "start"
    PROVE  \/ ListRunning
           \/ tick.pc = "start" /\ \A d \in Dags : tick'.by[d] \in Nat /\ tick.by[d] <= tick'.by[d]
<1>0. tick.by \in [Dags -> Nat]
  BY DEF Types, TickInv
<1>1. CASE tick' = tick
  BY <1>0, <1>1
<1>2. ASSUME NEW r, NEW s, StartRun(r, s) \/ PassOver(r, s)
      PROVE  tick.pc = "start" /\ \A d \in Dags : tick'.by[d] \in Nat /\ tick.by[d] <= tick'.by[d]
  <2>1. tick.pc = "start" /\ (tick'.by = tick.by \/ tick'.by = [tick.by EXCEPT ![Dag(r)] = @ + 1])
    <3>1. ASSUME NEW by, TurnOver(r, s, by) PROVE tick'.by = by
      BY <3>1 DEF TurnOver, At
    <3>2. CASE StartRun(r, s)
      BY <3>1, <3>2 DEF StartRun
    <3>3. CASE PassOver(r, s)
      BY <3>1, <3>3 DEF PassOver
    <3> QED BY <1>2, <3>2, <3>3
  <2>2. CASE tick'.by = tick.by
    BY <1>0, <2>1, <2>2
  <2>3. CASE tick'.by = [tick.by EXCEPT ![Dag(r)] = @ + 1]
    <3>1. \A d \in Dags : tick.by[d] \in Nat /\ (tick'.by[d] = tick.by[d] \/ tick'.by[d] = tick.by[d] + 1)
      BY <1>0, <2>3
    <3> QED BY <2>1, <3>1
  <2> QED BY <2>1, <2>2, <2>3
<1>3. CASE TickStep
  <2>1. ASSUME NEW t, NEW de, NEW mi, tick' = Done(t, de, mi) PROVE tick.pc = "start"
    BY <2>1 DEF Done, At
  <2>2. ~BeginTick /\ ~BeginDue /\ ~EndTick
    BY DEF BeginTick, BeginDue, EndTick, Idle, At
  <2>3. ~ListQueued
    BY DEF ListQueued, At
  <2>4. ASSUME NEW e \in Events, ConsumeEvent(e) PROVE FALSE
    BY <2>1, <2>4 DEF ConsumeEvent
  <2>5. ASSUME NEW e \in Events, NEW d \in Dags, Deliver(e, d) PROVE FALSE
    BY <2>1, <2>5 DEF Deliver
  <2>6. ASSUME NEW d \in Dags, CreateDueRun(d) PROVE FALSE
    BY <2>1, <2>6 DEF CreateDueRun
  <2> QED BY <1>2, <1>3, <2>2, <2>3, <2>4, <2>5, <2>6 DEF TickStep
<1>4. CASE OperatorStep
  BY <1>1, <1>4 DEF OperatorStep, PublishEvent, TriggerManual, advanceSubdag, DependencyRun, SetPaused, DeleteDAG, Backfill, CancelRun, Reactivate, SetDagRunHeld
<1>5. CASE Background
  BY <1>1, <1>5 DEF Background, SoftDeleteDAG, Evict, BackfillPeriod, Restart
<1>6. CASE Crash
  BY <1>6 DEF Crash, Idle, At
<1>7. CASE PruneRuns \/ Clock \/ (\E r \in DOMAIN runs, s \in Outcomes : Finish(r, s)) \/ UNCHANGED vars
  BY <1>1, <1>7 DEF PruneRuns, Clock, Finish, vars
<1> QED BY <1>3, <1>4, <1>5, <1>6, <1>7 DEF Next

\* The counts stay above the runs promoted, and these below the caps.
LEMMA CapStep ==
    ASSUME Types, RowStep, [Next]_vars, CapInv, CapRespected
    PROVE  CapInv' /\ CapRespected'
<1>0. RunsFcn /\ RunsFcn' /\ tick.by \in [Dags -> Nat]
  BY DEF Types, RowStep, TickInv
<1>1. \A d \in Dags : Cardinality(Promoted(d)) \in Nat /\ IsFiniteSet(Promoted(d))
  BY <1>0, PromotedSize
<1>2. ASSUME NEW d \in Dags, Promoted(d)' \subseteq Promoted(d)
      PROVE  Cardinality(Promoted(d)') \in Nat /\ Cardinality(Promoted(d)') <= Cardinality(Promoted(d))
  BY <1>1, <1>2, FS_Subset, FS_CardinalityType
<1>3. ASSUME NEW d \in Dags, NEW r, NEW s, StartRun(r, s), Dag(r) = d, Promoted(d)' \subseteq Promoted(d) \cup {r}
      PROVE  /\ Cardinality(Promoted(d)') \in Nat /\ Cardinality(Promoted(d)') <= tick.by[d] + 1
             /\ tick'.by[d] = tick.by[d] + 1 /\ tick.by[d] < Cap(d)
  <2>1. tick.pc = "start" /\ tick.by[d] < Cap(d) /\ tick'.by = [tick.by EXCEPT ![d] = @ + 1]
    BY <1>3 DEF StartRun, TurnOver, At
  <2>2. Cardinality(Promoted(d)) <= tick.by[d] /\ tick.by[d] \in Nat
    BY <1>0, <2>1 DEF CapInv
  <2>3. /\ IsFiniteSet(Promoted(d) \cup {r}) /\ Cardinality(Promoted(d) \cup {r}) \in Nat
        /\ Cardinality(Promoted(d) \cup {r}) <= Cardinality(Promoted(d)) + 1
    <3>1. IsFiniteSet(Promoted(d)) /\ Cardinality(Promoted(d)) \in Nat
      BY <1>1
    <3>2. /\ IsFiniteSet(Promoted(d) \cup {r})
          /\ \/ Cardinality(Promoted(d) \cup {r}) = Cardinality(Promoted(d))
             \/ Cardinality(Promoted(d) \cup {r}) = Cardinality(Promoted(d)) + 1
      BY <3>1, FS_AddElement
    <3> QED BY <3>1, <3>2
  <2>4. Cardinality(Promoted(d)') \in Nat /\ Cardinality(Promoted(d)') <= Cardinality(Promoted(d) \cup {r})
    BY <1>3, <2>3, FS_Subset, FS_CardinalityType
  <2> QED BY <1>0, <1>1, <2>1, <2>2, <2>3, <2>4
<1>4. CapInv'
  <2> SUFFICES ASSUME tick'.pc = "start", NEW d \in Dags PROVE Cardinality(Promoted(d)') <= tick'.by[d]
    BY DEF CapInv
  <2>1. CASE ListRunning
    <3>1. runs' = runs /\ tick'.by[d] = Cardinality(Of(d, {"running"}))
      BY <2>1 DEF ListRunning, At, CountsRunning
    <3>2. Promoted(d)' = Promoted(d)
      BY <3>1 DEF Promoted, Of, In
    <3> QED BY <1>0, <3>1, <3>2, PromotedSize
  <2>2. CASE tick.pc = "start" /\ tick'.by[d] \in Nat /\ tick.by[d] <= tick'.by[d]
    <3>1. Cardinality(Promoted(d)) <= tick.by[d] /\ tick.by[d] \in Nat
      BY <1>0, <2>2 DEF CapInv
    <3>2. CASE Promoted(d)' \subseteq Promoted(d)
      BY <1>1, <1>2, <2>2, <3>1, <3>2
    <3> QED BY <1>3, <3>2, PromotedStep
  <2> QED BY <2>1, <2>2, Counted
<1>5. CapRespected'
  <2> SUFFICES ASSUME NEW d \in Dags PROVE Cardinality(Promoted(d)') <= PolicyCap(d)'
    BY DEF CapRespected, Promoted, PolicyCap
  <2>1. policy' = policy
    BY DEF Next, TickStep, OperatorStep, Background, BeginTick, BeginDue, ListQueued, ListRunning,
     EndTick, ConsumeEvent, Deliver, CreateDueRun, StartRun, PassOver, PublishEvent, TriggerManual, advanceSubdag, DependencyRun, SetPaused,
     DeleteDAG, Backfill, CancelRun, Reactivate, SetDagRunHeld, SoftDeleteDAG, Evict, BackfillPeriod, Restart,
     Finish, Clock, PruneRuns, Crash, vars
  <2>2. PolicyCap(d)' = PolicyCap(d) /\ PolicyCap(d) \in Nat /\ Cap(d) \in Nat /\ Cap(d) <= PolicyCap(d)
    BY <2>1, CapWithin DEF PolicyCap
  <2>3. Cardinality(Promoted(d)) <= PolicyCap(d)
    BY DEF CapRespected, Promoted, PolicyCap
  <2>4. CASE Promoted(d)' \subseteq Promoted(d)
    BY <1>1, <1>2, <2>2, <2>3, <2>4
  <2>5. ASSUME NEW r, NEW s, StartRun(r, s), Dag(r) = d, Promoted(d)' \subseteq Promoted(d) \cup {r}
        PROVE  Cardinality(Promoted(d)') <= PolicyCap(d)
    <3>1. tick.by[d] \in Nat
      BY <1>0
    <3> QED BY <1>3, <2>2, <2>5, <3>1
  <2> QED BY <2>2, <2>4, <2>5, PromotedStep
<1> QED BY <1>4, <1>5

\* The queue keeps its bounds, and no DAG has more runs promoted by the tick
\* than its policy allows, whatever ends, is cancelled, reactivated, held or
\* deleted while the tick works from its lists: CreateDagRunBounded's insert
\* and the counts of tickOnce.
THEOREM QueueSafe == Spec => []QueueInv
<1> DEFINE I == Types /\ HighInv /\ QueueBound /\ CapInv /\ CapRespected
<1>1. Init => I
  <2> SUFFICES ASSUME Init PROVE I
    OBVIOUS
  <2>1. Types /\ HighInv
    BY TypesInit
  <2>2. DOMAIN runs = {} /\ tick.pc = "idle"
    BY DEF Init, Idle, At
  <2>3. In({"queued"}) = {} /\ \A d \in Dags : Promoted(d) = {}
    BY <2>2 DEF In, Of, Promoted
  <2>4. Cardinality({}) = 0 /\ QueueLimit \in Nat /\ \A d \in Dags : PolicyCap(d) \in Nat
    BY FS_EmptySet, CapWithin DEF QueueLimit
  <2>5. QueueBound
    BY <2>3, <2>4 DEF QueueBound, QueueLimit
  <2>6. CapRespected
    <3> SUFFICES ASSUME NEW d \in Dags PROVE Cardinality(Promoted(d)) <= PolicyCap(d)
      BY DEF CapRespected, Promoted, PolicyCap
    <3> QED BY <2>3, <2>4
  <2> QED BY <2>1, <2>2, <2>5, <2>6 DEF CapInv
<1>2. I /\ [Next]_vars => I'
  <2> SUFFICES ASSUME I, [Next]_vars PROVE I'
    OBVIOUS
  <2>1. RowStep
    BY Rows
  <2> QED BY <2>1, TypesStep, BoundStep, CapStep
<1>3. I => QueueInv
  BY DEF Types, QueueInv
<1> HIDE DEF I
<1> QED BY <1>1, <1>2, <1>3, PTL DEF Spec

-----------------------------------------------------------------------------
(* What a step may never do.                                               *)

\* A schedule never goes back: the newest scheduled run survives retention and
\* restarts, and the next period is the first boundary after it.
THEOREM NeverReplays == Spec => NoReplay
<1>1. Init => Types /\ HighInv
  BY TypesInit
<1>2. Types /\ HighInv /\ [Next]_vars => Types' /\ HighInv'
  BY TypesStep
<1>3. Types /\ HighInv /\ [Next]_vars
        => [\A d \in Dags : high'[d] >= high[d] /\ (ScheduledAt(d) => high'[d] > high[d])]_vars
  <2> SUFFICES ASSUME Types, HighInv, [Next]_vars, NEW d \in Dags
               PROVE  high'[d] >= high[d] /\ (ScheduledAt(d) => high'[d] > high[d])
    OBVIOUS
  <2>1. RowStep
    BY Rows
  <2>2. high \in [Dags -> 0..MaxTime] /\ high[d] \in Nat
    BY DEF Types, TypeOK
  <2>3. CASE high' = high /\ DOMAIN runs' \subseteq DOMAIN runs
    BY <2>2, <2>3 DEF ScheduledAt
  <2>4. ASSUME NEW r, NEW date, Creates(r, date)
        PROVE  high'[d] >= high[d] /\ (ScheduledAt(d) => high'[d] > high[d])
    <3>1. DOMAIN runs' \ DOMAIN runs = {r}
      BY <2>4 DEF Creates, Added
    <3>2. CASE Kind(r) = "schedule" /\ Dag(r) = d
      <4>1. high'[d] = NextDue(d)
        BY <2>2, <2>4, <3>2 DEF Creates
      <4>2. NextDue(d) \in Nat /\ NextDue(d) > high[d]
        BY DueFacts
      <4> QED BY <2>2, <4>1, <4>2
    <3>3. CASE ~(Kind(r) = "schedule" /\ Dag(r) = d)
      <4>1. ~ScheduledAt(d)
        BY <3>1, <3>3 DEF ScheduledAt
      <4>2. high'[d] = high[d]
        BY <2>2, <2>4, <3>3 DEF Creates
      <4> QED BY <2>2, <4>1, <4>2
    <3> QED BY <3>2, <3>3
  <2>5. CASE Pruned
    BY <2>3, <2>5 DEF Pruned
  <2>6. ASSUME NEW r, Rewrites(r) PROVE high' = high /\ DOMAIN runs' \subseteq DOMAIN runs
    BY <2>6 DEF Rewrites, Rewritten
  <2> QED BY <2>1, <2>3, <2>4, <2>5, <2>6 DEF RowStep
<1> QED BY <1>1, <1>2, <1>3, PTL DEF Spec, NoReplay

\* A queued run becomes running by the tick's promotion only.
LEMMA StartsOnly ==
    ASSUME Types, RowStep, NEW r \in DOMAIN runs, r \in DOMAIN runs',
           runs[r].state = "queued", runs'[r].state = "running"
    PROVE  \E s : StartRun(r, s)
<1>1. CASE runs' = runs
  BY <1>1
<1>2. ASSUME NEW q, NEW date, Creates(q, date) PROVE FALSE
  BY <1>2 DEF Creates, Added
<1>3. CASE Pruned
  BY <1>3 DEF Pruned
<1>4. ASSUME NEW q, Rewrites(q) PROVE q = r /\ ~Demoted(q)
  BY <1>4 DEF Rewrites, Rewritten, Demoted
<1> QED BY <1>1, <1>2, <1>3, <1>4 DEF RowStep, Rewrites

\* The tick starts no run while one it listed before it still waits:
\* reorderPriorityQueues, and the list by date.
THEOREM DrainsInOrder == Spec => InOrder
<1> DEFINE A == \A r \in DOMAIN runs \cap DOMAIN runs' :
         tick.pc = "start" /\ runs[r].state = "queued" /\ runs'[r].state = "running" =>
           ~\E q \in tick.listed : /\ Dag(q) = Dag(r) /\ runs[q].state = "queued"
                                   /\ q \notin tick.held
                                   /\ IF policy[Dag(r)] = "serial_priority" /\ dags[Dag(r)].cached
                                      THEN \/ runs[q].prio > runs[r].prio
                                           \/ runs[q].prio = runs[r].prio /\ Older(q, r)
                                      ELSE Older(q, r)
<1>1. Init => Types /\ HighInv
  BY TypesInit
<1>2. Types /\ HighInv /\ [Next]_vars => Types' /\ HighInv'
  BY TypesStep
<1>3. Types /\ HighInv /\ [Next]_vars => [A]_vars
  <2> SUFFICES ASSUME Types, HighInv, [Next]_vars, NEW r \in DOMAIN runs \cap DOMAIN runs',
                      runs[r].state = "queued", runs'[r].state = "running",
                      NEW q \in tick.listed, Dag(q) = Dag(r),
                      IF policy[Dag(r)] = "serial_priority" /\ dags[Dag(r)].cached
                      THEN \/ runs[q].prio > runs[r].prio
                           \/ runs[q].prio = runs[r].prio /\ Older(q, r)
                      ELSE Older(q, r)
               PROVE  FALSE
    OBVIOUS
  <2>1. PICK s : StartRun(r, s)
    BY Rows, StartsOnly
  <2>2. ~Before(q, r)
    BY <2>1 DEF StartRun, Fills
  <2>3. PolicyOf(Dag(r)) = "serial_priority" <=> policy[Dag(r)] = "serial_priority" /\ dags[Dag(r)].cached
    BY DEF PolicyOf
  <2>4. runs[q].prio \in Nat /\ runs[r].prio \in Nat
    <3>1. q \in DOMAIN runs /\ r \in DOMAIN runs
      BY DEF Types, TypeOK
    <3>2. runs[q] \in Row /\ runs[r] \in Row
      BY <3>1 DEF Types, TypeOK
    <3>3. \A x \in Row : x.prio \in Prios \cup {0}
      BY DEF Row
    <3>4. \A x \in Prios \cup {0} : x \in Nat
      OBVIOUS
    <3> QED BY <3>2, <3>3, <3>4
  <2> QED BY <2>2, <2>3, <2>4 DEF Before
<1> HIDE DEF A
<1>4. Spec => [][A]_vars
  BY <1>1, <1>2, <1>3, PTL DEF Spec
<1> QED BY <1>4 DEF InOrder, A

\* While the tick delivers, every subscriber of an event still to be consumed
\* is ahead of it, served, passed over, or reason to keep the event.
EvInv ==
    tick.pc = "events" => \A e \in Events : <<e>> \in tick.todo =>
        \A d \in Subs[e] : \/ <<e, d>> \in tick.todo \/ <<d, "event", e>> \in DOMAIN runs
                           \/ <<e, d>> \in tick.missed \/ e \in tick.deferred \/ ~dags[d].cached

\* Within a delivery the tick stands where it stood, or has just moved.
LEMMA Delivering ==
    ASSUME Types, [Next]_vars, tick'.pc = "events"
    PROVE  \/ BeginTick
           \/ \E e \in Events : ConsumeEvent(e) \/ \E d \in Dags : Deliver(e, d)
           \/ tick' = tick /\ \A d \in Dags : dags'[d].cached => dags[d].cached
<1>0. dags \in [Dags -> [paused : BOOLEAN, deleted : BOOLEAN, cached : BOOLEAN]]
  BY DEF Types, TypeOK
<1>1. CASE TickStep
  <2>1. ~BeginDue /\ ~EndTick /\ ~ListRunning
    BY DEF BeginDue, EndTick, ListRunning, Idle, At
  <2>2. ~ListQueued
    BY DEF ListQueued, At
  <2>3. ASSUME NEW d \in Dags, CreateDueRun(d) PROVE FALSE
    BY <2>3 DEF CreateDueRun, Done, At
  <2>4. ASSUME NEW r, NEW s, StartRun(r, s) \/ PassOver(r, s) PROVE FALSE
    <3>1. \E by : TurnOver(r, s, by)
      BY <2>4 DEF StartRun, PassOver
    <3> QED BY <3>1 DEF TurnOver, At
  <2> QED BY <1>1, <2>1, <2>2, <2>3, <2>4 DEF TickStep
<1>2. CASE OperatorStep
  <2>1. ASSUME NEW d \in Dags, NEW p \in BOOLEAN, SetPaused(d, p)
        PROVE  tick' = tick /\ \A x \in Dags : dags'[x].cached => dags[x].cached
    BY <1>0, <2>1 DEF SetPaused, SetDag
  <2>2. CASE tick' = tick /\ dags' = dags
    BY <2>2
  <2> QED BY <1>2, <2>1, <2>2 DEF OperatorStep, PublishEvent, TriggerManual, advanceSubdag, DependencyRun, DeleteDAG, Backfill, CancelRun, Reactivate, SetDagRunHeld
<1>3. CASE Background
  <2>1. ASSUME NEW d \in Dags, SoftDeleteDAG(d)
        PROVE  tick' = tick /\ \A x \in Dags : dags'[x].cached => dags[x].cached
    BY <1>0, <2>1 DEF SoftDeleteDAG, SetDag
  <2>2. ASSUME NEW d \in Dags, Evict(d)
        PROVE  tick' = tick /\ \A x \in Dags : dags'[x].cached => dags[x].cached
    BY <1>0, <2>2 DEF Evict, SetDag
  <2>3. ASSUME NEW d \in Dags, NEW p \in Periods, BackfillPeriod(d, p) PROVE tick' = tick /\ dags' = dags
    BY <2>3 DEF BackfillPeriod
  <2>4. ~Restart
    BY DEF Restart, Types, TickInv
  <2> QED BY <1>3, <2>1, <2>2, <2>3, <2>4 DEF Background
<1>4. CASE Crash
  BY <1>4 DEF Crash, Idle, At
<1>5. CASE PruneRuns \/ Clock \/ (\E r \in DOMAIN runs, s \in Outcomes : Finish(r, s)) \/ UNCHANGED vars
  BY <1>5 DEF PruneRuns, Clock, Finish, vars
<1> QED BY <1>1, <1>2, <1>3, <1>4, <1>5 DEF Next

\* The invariant of the deliveries, step by step.
LEMMA EvStep ==
    ASSUME Types, RowStep, [Next]_vars, EvInv
    PROVE  EvInv'
<1> SUFFICES ASSUME tick'.pc = "events", NEW e \in Events, <<e>> \in tick'.todo, NEW d \in Subs[e]
             PROVE  \/ <<e, d>> \in tick'.todo \/ <<d, "event", e>> \in DOMAIN runs'
                    \/ <<e, d>> \in tick'.missed \/ e \in tick'.deferred \/ ~dags'[d].cached
  BY DEF EvInv
<1>0. d \in Dags
  OBVIOUS
<1>1. CASE BeginTick
  <2> DEFINE pending == {x \in Events : events[x] = "pending"}
  <2>1. tick'.todo = {x \in pending \X Dags : x[2] \in Subs[x[1]] /\ dags[x[2]].cached} \cup {<<x>> : x \in pending}
        /\ dags' = dags
    BY <1>1 DEF BeginTick, At
  <2>2. e \in pending
    BY <2>1
  <2>3. <<e, d>> \in pending \X Dags /\ <<e, d>>[1] = e /\ <<e, d>>[2] = d
    BY <1>0, <2>2
  <2> HIDE DEF pending
  <2>4. dags[d].cached => <<e, d>> \in tick'.todo
    BY <2>1, <2>3
  <2> QED BY <2>1, <2>4
<1>2. ASSUME NEW f \in Events, ConsumeEvent(f)
      PROVE  \/ <<e, d>> \in tick'.todo \/ <<d, "event", e>> \in DOMAIN runs'
             \/ <<e, d>> \in tick'.missed \/ e \in tick'.deferred \/ ~dags'[d].cached
  <2>1. /\ tick.pc = "events" /\ tick'.todo = tick.todo \ {<<f>>} /\ tick'.deferred = tick.deferred
        /\ tick'.missed = {m \in tick.missed : m[1] # f} /\ runs' = runs /\ dags' = dags
    BY <1>2 DEF ConsumeEvent, Done, At
  <2>2. <<e>> \in tick.todo /\ e # f /\ <<e, d>> # <<f>> /\ <<e, d>>[1] = e
    BY <2>1
  <2>3. \/ <<e, d>> \in tick.todo \/ <<d, "event", e>> \in DOMAIN runs
        \/ <<e, d>> \in tick.missed \/ e \in tick.deferred \/ ~dags[d].cached
    BY <2>1, <2>2 DEF EvInv
  <2> QED BY <2>1, <2>2, <2>3
<1>3. ASSUME NEW f \in Events, NEW g \in Dags, Deliver(f, g)
      PROVE  \/ <<e, d>> \in tick'.todo \/ <<d, "event", e>> \in DOMAIN runs'
             \/ <<e, d>> \in tick'.missed \/ e \in tick'.deferred \/ ~dags'[d].cached
  <2>1. /\ tick.pc = "events" /\ tick'.todo = tick.todo \ {<<f, g>>} /\ dags' = dags
        /\ tick.deferred \subseteq tick'.deferred /\ tick.missed \subseteq tick'.missed
    BY <1>3 DEF Deliver, Done, At
  <2>2. DOMAIN runs \subseteq DOMAIN runs'
    BY <2>1, RowsTyped
  <2>3. <<e>> \in tick.todo
    BY <2>1
  <2>4. \/ <<e, d>> \in tick.todo \/ <<d, "event", e>> \in DOMAIN runs
        \/ <<e, d>> \in tick.missed \/ e \in tick.deferred \/ ~dags[d].cached
    BY <2>1, <2>3 DEF EvInv
  <2>5. CASE e = f /\ d = g
    <3>1. CASE ~dags[d].cached \/ dags[d].paused
      BY <1>3, <2>5, <3>1 DEF Deliver, Done, At
    <3>2. CASE ~(~dags[d].cached \/ dags[d].paused)
      <4> DEFINE r == <<d, "event", e>>
                 result == CreateDagRunBounded(r, now)
      <4>1. /\ Insert(r, now, 0, result)
            /\ Defers(result) => e \in tick'.deferred
        BY <1>3, <2>5, <3>2 DEF Deliver, Done, At
      <4>2. Kind(r) = "event"
        BY DEF Kind
      <4>3. result \in {"not found", "full", "ok"} \/ (result = "exists" /\ r \in DOMAIN runs)
        BY <4>2 DEF CreateDagRunBounded, InsertResult, Taken, Dated
      <4> HIDE DEF result, r
      <4>4. result = "ok" => r \in DOMAIN runs'
        BY <4>1 DEF Insert
      <4>5. r \in DOMAIN runs' \/ e \in tick'.deferred
        BY <2>2, <4>1, <4>3, <4>4 DEF Defers
      <4> QED BY <4>5 DEF r
    <3> QED BY <3>1, <3>2
  <2>6. CASE ~(e = f /\ d = g)
    <3>1. <<e, d>> # <<f, g>>
      BY <2>6
    <3> QED BY <2>1, <2>2, <2>4, <3>1
  <2> QED BY <2>5, <2>6
<1>4. CASE tick' = tick /\ \A x \in Dags : dags'[x].cached => dags[x].cached
  <2>1. DOMAIN runs \subseteq DOMAIN runs'
    BY <1>4, RowsTyped
  <2> QED BY <1>0, <1>4, <2>1 DEF EvInv
<1> QED BY <1>1, <1>2, <1>3, <1>4, Delivering

\* An event is consumed only when each subscriber the tick knew has its run,
\* was paused or was deleted: processExternalEvents defers it otherwise.
THEOREM EventsServed == Spec => EventServed
<1> DEFINE A == \A e \in Events : events'[e] = "consumed" /\ events[e] = "pending" =>
                  \A d \in Subs[e] : \/ <<d, "event", e>> \in DOMAIN runs
                                     \/ <<e, d>> \in tick.missed \/ ~dags[d].cached
           I == Types /\ HighInv /\ EvInv
<1>1. Init => I
  <2> SUFFICES ASSUME Init PROVE I
    OBVIOUS
  <2>1. EvInv
    BY DEF Init, Idle, At, EvInv
  <2> QED BY <2>1, TypesInit
<1>2. I /\ [Next]_vars => I'
  <2> SUFFICES ASSUME I, [Next]_vars PROVE I'
    OBVIOUS
  <2> QED BY Rows, TypesStep, EvStep
<1>3. I /\ [Next]_vars => [A]_vars
  <2> SUFFICES ASSUME I, [Next]_vars, NEW e \in Events, events'[e] = "consumed", events[e] = "pending", NEW d \in Subs[e]
               PROVE  \/ <<d, "event", e>> \in DOMAIN runs
                      \/ <<e, d>> \in tick.missed \/ ~dags[d].cached
    OBVIOUS
  <2>0. events \in [Events -> {"none", "pending", "consumed"}] /\ d \in Dags
    BY DEF Types, TypeOK
  <2>1. events' # events
    BY <2>0
  <2>2. ASSUME NEW f \in Events, PublishEvent(f) PROVE FALSE
    BY <2>0, <2>2 DEF PublishEvent
  <2>3. PICK f \in Events : ConsumeEvent(f)
    BY <2>1, <2>2 DEF Next, TickStep, OperatorStep, Background, BeginTick, BeginDue, ListQueued, ListRunning,
     EndTick, Deliver, CreateDueRun, StartRun, PassOver, TriggerManual, advanceSubdag, DependencyRun, SetPaused,
     DeleteDAG, Backfill, CancelRun, Reactivate, SetDagRunHeld, SoftDeleteDAG, Evict, BackfillPeriod, Restart,
     Finish, Clock, PruneRuns, Crash, vars
  <2>4. e = f /\ e \notin tick.deferred
    BY <2>0, <2>3 DEF ConsumeEvent
  <2>5. tick.pc = "events" /\ <<e>> \in tick.todo /\ <<e, d>> \notin tick.todo
    BY <2>0, <2>3, <2>4 DEF ConsumeEvent
  <2> QED BY <2>4, <2>5 DEF EvInv
<1> HIDE DEF A, I
<1>4. Spec => [][A]_vars
  BY <1>1, <1>2, <1>3, PTL DEF Spec
<1> QED BY <1>4 DEF EventServed, A
=============================================================================
