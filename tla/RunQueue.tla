------------------------------ MODULE RunQueue ------------------------------
(***************************************************************************)
(* How runs come to be and when they start: the tick creates the runs of   *)
(* external events and of schedules, operators trigger and backfill, runs  *)
(* that succeed or reach a subdag task start others, and the tick promotes *)
(* queued runs under per-DAG and global caps and the DAG's execution       *)
(* policy, while runs end, are cancelled, retried, held and pruned, DAGs   *)
(* are paused and deleted, and the scheduler restarts.                     *)
(*                                                                         *)
(* What happens inside a running run is RunLifecycle.  Time is discrete; a *)
(* schedule fires at the multiples of Every.                               *)
(***************************************************************************)
EXTENDS States, FiniteSets

CONSTANTS
    Dags, Scheduled, Catchup, MaxActiveRuns, \* definitions
    Downstream, Subdags,          \* DAGs with trigger_after; targets of subdag tasks
    Policies,                     \* assignments of execution policies
    Events, Subs,                 \* events, and the DAGs subscribed to each
    Every, MaxTime, Retention,
    MaxQueuedRunsGlobal, MaxManualQueuePerDAG, MaxManualQueueGlobal,
    MaxActiveRunsGlobal, Window,  \* queued runs one tick looks at
    Prios, Outcomes,              \* run priorities; how runs may end
    Ops, MaxOps, MaxCrash         \* what operators and other runs do, and bounds

ASSUME QueueConstants ==
    /\ Scheduled \subseteq Dags /\ Catchup \subseteq Scheduled
    /\ Downstream \subseteq Dags /\ Subdags \subseteq Dags
    /\ MaxActiveRuns \in [Dags -> Nat]
    /\ Policies \subseteq
         [Dags -> {"parallel", "serial_wait", "serial_priority", "serial_discard"}]
    /\ Events \subseteq 0..MaxOps /\ Subs \in [Events -> SUBSET Dags]
    /\ Every \in Nat \ {0} /\ MaxTime \in Nat /\ Retention \in Nat
    /\ MaxQueuedRunsGlobal \in Nat /\ MaxManualQueuePerDAG \in Nat
    /\ MaxManualQueueGlobal \in Nat /\ MaxActiveRunsGlobal \in Nat /\ Window \in Nat
    /\ Prios \subseteq Nat /\ Outcomes \subseteq TerminalRun
    /\ MaxOps \in Nat /\ MaxCrash \in Nat

VARIABLES
    now, up, boot, \* time; whether the scheduler runs, and since when
    policy,        \* execution_policy of each DAG
    runs,          \* dag_runs, by run id <<dag, trigger type, key>>; `revived` is
                   \* history: running because an operator reactivated it
    events,        \* external events
    dags,          \* paused; deleted_at in the store; present in the cache
    deleting,      \* DAGs whose delete has seen no active run
    bf,            \* periods the backfill in progress has still to create
    tick,          \* where tickOnce stands
    high,          \* history: the latest period scheduled, of each DAG
    ops, crashes

vars == <<now, up, boot, policy, runs, events, dags, deleting, bf, tick, high, ops, crashes>>

Periods == {p \in 0..MaxTime : p % Every = 0}
RunId == (Scheduled \X {"schedule", "backfill"} \X Periods)
           \cup (Downstream \X {"dependency"} \X (0..MaxTime))
           \cup (Dags \X {"manual"} \X (0..(MaxOps - 1)))
           \cup (Subdags \X {"subdag"} \X (0..(MaxOps - 1)))
           \cup (Dags \X {"event"} \X Events)
Row == [state : RunState, date : 0..MaxTime, prio : Prios \cup {0}, held : BOOLEAN, revived : BOOLEAN]

Dag(r) == r[1]
Kind(r) == r[2]
In(S) == {r \in DOMAIN runs : runs[r].state \in S}
Of(d, S) == {r \in In(S) : Dag(r) = d}

Least(a, b) == IF a < b THEN a ELSE b

\* A place in tickOnce: its time, what is left to do there, events not to be
\* consumed (and, as history, who was passed over), counts by DAG, the runs
\* listed (and held then), and the positions left.
At(pc, time, todo, deferred, missed, by, listed, held, slots) ==
    [pc |-> pc, now |-> time, todo |-> todo, deferred |-> deferred, missed |-> missed,
     by |-> by, listed |-> listed, held |-> held, slots |-> slots]

Zero == [d \in Dags |-> 0]
Idle == At("idle", 0, {}, {}, {}, Zero, {}, {}, {})

TypeOK ==
    /\ now \in 0..MaxTime /\ boot \in 0..now /\ up \in BOOLEAN
    /\ policy \in Policies
    /\ DOMAIN runs \subseteq RunId
    /\ \A r \in DOMAIN runs : runs[r] \in Row /\ runs[r].date <= now
    /\ events \in [Events -> {"none", "pending", "consumed"}]
    /\ dags \in [Dags -> [paused : BOOLEAN, deleted : BOOLEAN, cached : BOOLEAN]]
    /\ deleting \subseteq Dags /\ bf \subseteq Dags \X Periods
    /\ tick.pc \in {"idle", "events", "due", "running", "start"}
    /\ tick.listed \subseteq DOMAIN runs /\ tick.slots \subseteq DOMAIN runs
    /\ high \in [Dags -> 0..MaxTime] /\ ops \in 0..MaxOps /\ crashes \in 0..MaxCrash

Init ==
    /\ now = 0 /\ up = TRUE /\ boot = 0
    /\ policy \in Policies
    /\ runs = <<>>
    /\ events = [e \in Events |-> "none"]
    /\ dags = [d \in Dags |-> [paused |-> FALSE, deleted |-> FALSE, cached |-> TRUE]]
    /\ deleting = {} /\ bf = {} /\ tick = Idle
    /\ high = Zero
    /\ ops = 0 /\ crashes = 0

-----------------------------------------------------------------------------
(* Creating a run.                                                         *)

\* Runs dated by a period; the others are dated by the wall clock.
Dated == {"schedule", "backfill", "dependency"}

\* UNIQUE (dag_id, logical_date): wall-clock dates (manual, event and subdag
\* runs) have nanoseconds and never meet, those of periods do.
Taken(r, date) ==
    \/ r \in DOMAIN runs
    \/ /\ Kind(r) \in Dated
       /\ \E q \in DOMAIN runs : Dag(q) = Dag(r) /\ runs[q].date = date /\ Kind(q) \in Dated

\* Mutant: the global bound is not part of the insert.
InsertUnbounded(r, date, room) ==
    IF dags[Dag(r)].deleted THEN "not found"
    ELSE IF Taken(r, date) THEN "exists" ELSE "ok"

\* The conditions of the INSERT come before its constraints.
InsertResult(r, date, room) ==
    IF dags[Dag(r)].deleted THEN "not found"
    ELSE IF ~room THEN "full"
    ELSE IF Taken(r, date) THEN "exists" ELSE "ok"

Room == Cardinality(In({"queued"})) < MaxQueuedRunsGlobal

ManualRoom(d) ==
    /\ Cardinality(Of(d, ActiveRun)) < MaxManualQueuePerDAG
    /\ Cardinality(In({"queued"})) < MaxManualQueueGlobal

Insert(r, date, prio, result) ==
    runs' = IF result = "ok"
            THEN [q \in DOMAIN runs \cup {r} |->
                    IF q = r THEN [state |-> "queued", date |-> date, prio |-> prio,
                                   held |-> FALSE, revived |-> FALSE]
                    ELSE runs[q]]
            ELSE runs

CreateDagRunBounded(r, date) == InsertResult(r, date, Room)

-----------------------------------------------------------------------------
(* tickOnce: external events.                                              *)

\* Subscribers are those of the cache when the events were listed.
BeginTick ==
    /\ up /\ tick.pc = "idle"
    /\ LET pending == {e \in Events : events[e] = "pending"}
       IN  tick' = At("events", now,
                      {x \in pending \X Dags : x[2] \in Subs[x[1]] /\ dags[x[2]].cached}
                        \cup {<<e>> : e \in pending},
                      {}, {}, Zero, {}, {}, {})
    /\ UNCHANGED <<now, up, boot, policy, runs, events, dags, deleting, bf, high, ops, crashes>>

Done(t, deferred, missed) ==
    At(tick.pc, tick.now, tick.todo \ {t}, deferred, missed, tick.by, {}, {}, {})

\* Mutant: a full queue does not defer the event.
DefersMissing(result) == result = "not found"

Defers(result) == result \in {"full", "not found"}

\* A paused subscriber misses the event; a full queue defers it for all.
Deliver(e, d) ==
    /\ tick.pc = "events" /\ <<e, d>> \in tick.todo
    /\ IF ~dags[d].cached \/ dags[d].paused
       THEN /\ tick' = Done(<<e, d>>, tick.deferred, tick.missed \cup {<<e, d>>})
            /\ UNCHANGED runs
       ELSE LET r == <<d, "event", e>>
                result == CreateDagRunBounded(r, now)
            IN  /\ Insert(r, now, 0, result)
                /\ tick' = Done(<<e, d>>, IF Defers(result) THEN tick.deferred \cup {e}
                                          ELSE tick.deferred, tick.missed)
    /\ UNCHANGED <<now, up, boot, policy, events, dags, deleting, bf, high, ops, crashes>>

ConsumeEvent(e) ==
    /\ tick.pc = "events" /\ <<e>> \in tick.todo
    /\ \A d \in Dags : <<e, d>> \notin tick.todo
    /\ events' = [events EXCEPT ![e] = IF e \in tick.deferred THEN @ ELSE "consumed"]
    /\ tick' = Done(<<e>>, tick.deferred, {m \in tick.missed : m[1] # e})
    /\ UNCHANGED <<now, up, boot, policy, runs, dags, deleting, bf, high, ops, crashes>>

-----------------------------------------------------------------------------
(* tickOnce: due runs.                                                     *)

\* Mutant: ended runs are counted too.
CountsEnded == RunState

CountsActive == ActiveRun

BeginDue ==
    /\ tick.pc = "events" /\ tick.todo = {}
    /\ tick' = At("due", tick.now, {d \in Scheduled : dags[d].cached}, {}, {},
                  [d \in Dags |-> Cardinality(Of(d, CountsActive))], {}, {}, {})
    /\ UNCHANGED <<now, up, boot, policy, runs, events, dags, deleting, bf, high, ops, crashes>>

ScheduledRuns(d) == {r \in DOMAIN runs : Dag(r) = d /\ Kind(r) = "schedule"}

LatestScheduledRun(d) == CHOOSE r \in ScheduledRuns(d) :
    \A q \in ScheduledRuns(d) : runs[q].date <= runs[r].date

\* The first boundary after a time.
NextBoundary(t) == (t \div Every + 1) * Every

\* Next(scheduleAnchor(d)); start_date is the first boundary, and the store's
\* lookup of the latest scheduled run does not fail.
NextDue(d) ==
    IF ScheduledRuns(d) # {} THEN NextBoundary(runs[LatestScheduledRun(d)].date)
    ELSE IF d \in Catchup THEN Every ELSE NextBoundary(boot)

\* Gated by the counts taken when creation began, pause is read afresh.
IsDue(d) == /\ dags[d].cached /\ ~dags[d].paused
            /\ NextDue(d) <= tick.now /\ tick.by[d] < MaxActiveRuns[d]

CreateDueRun(d) ==
    /\ tick.pc = "due" /\ d \in tick.todo
    /\ IF IsDue(d)
       THEN LET p == NextDue(d)
                result == CreateDagRunBounded(<<d, "schedule", p>>, p)
            IN  /\ Insert(<<d, "schedule", p>>, p, 0, result)
                /\ high' = IF result = "ok" THEN [high EXCEPT ![d] = p] ELSE high
       ELSE UNCHANGED <<runs, high>>
    /\ tick' = Done(d, {}, {})
    /\ UNCHANGED <<now, up, boot, policy, events, dags, deleting, bf, ops, crashes>>

-----------------------------------------------------------------------------
(* tickOnce: promotion of queued runs.                                     *)

\* The oldest Window queued runs.
ListQueued ==
    /\ tick.pc = "due" /\ tick.todo = {}
    /\ \E Q \in SUBSET In({"queued"}) :
         /\ Cardinality(Q) = Least(Window, Cardinality(In({"queued"})))
         /\ \A q \in Q, r \in In({"queued"}) \ Q : runs[q].date <= runs[r].date
         /\ tick' = At("running", 0, {}, {}, {}, Zero, Q, {r \in Q : runs[r].held}, Q)
    /\ UNCHANGED <<now, up, boot, policy, runs, events, dags, deleting, bf, high, ops, crashes>>

\* Mutant: queued runs take up the slots they wait for.
CountsQueued == ActiveRun

CountsRunning == {"running"}

ListRunning ==
    /\ tick.pc = "running"
    /\ tick' = At("start", 0, {}, {}, {}, [d \in Dags |-> Cardinality(Of(d, CountsRunning))],
                  tick.listed, tick.held, tick.slots)
    /\ UNCHANGED <<now, up, boot, policy, runs, events, dags, deleting, bf, high, ops, crashes>>

Total(by) == Cardinality(UNION {{d} \X (1..by[d]) : d \in Dags})

PolicyOf(d) == IF dags[d].cached THEN policy[d] ELSE "parallel"

Cap(d) == IF dags[d].cached /\ PolicyOf(d) = "parallel" /\ MaxActiveRuns[d] > 0
          THEN MaxActiveRuns[d] ELSE 1

Older(q, r) == runs[q].date < runs[r].date

\* Mutant: priorities only order runs of the same date.
BeforeByDate(q, r) ==
    Older(q, r) \/ (PolicyOf(Dag(r)) = "serial_priority" /\ runs[q].date = runs[r].date
                    /\ runs[q].prio > runs[r].prio)

\* The order in which a DAG's queue drains.
Before(q, r) ==
    IF PolicyOf(Dag(r)) = "serial_priority" /\ runs[q].prio # runs[r].prio
    THEN runs[q].prio > runs[r].prio
    ELSE Older(q, r)

\* A position in the list belongs to a DAG by date; the run that fills it is the
\* DAG's next one (reorderPriorityQueues).
Position(s) == s \in tick.slots /\ \A q \in tick.slots : ~Older(q, s)
Fills(r, s) == /\ r \in tick.listed /\ Dag(r) = Dag(s)
               /\ \A q \in tick.listed : Dag(q) = Dag(s) => ~Before(q, r)

TurnOver(r, s, by) ==
    tick' = At("start", 0, {}, {}, {}, by, tick.listed \ {r}, tick.held, tick.slots \ {s})

SetState(r, s, revived) ==
    runs' = [runs EXCEPT ![r] =
        [state |-> UpdateDagRunState(@.state, s), date |-> @.date, prio |-> @.prio,
         held |-> @.held, revived |-> revived]]

\* processRun writes running over whatever the run has become since it was listed.
StartRun(r, s) ==
    /\ tick.pc = "start" /\ Total(tick.by) < MaxActiveRunsGlobal
    /\ Position(s) /\ Fills(r, s)
    /\ r \notin tick.held /\ tick.by[Dag(r)] < Cap(Dag(r))
    /\ SetState(r, "running", FALSE)
    /\ TurnOver(r, s, [tick.by EXCEPT ![Dag(r)] = @ + 1])
    /\ UNCHANGED <<now, up, boot, policy, events, dags, deleting, bf, high, ops, crashes>>

PassOver(r, s) ==
    /\ tick.pc = "start" /\ Total(tick.by) < MaxActiveRunsGlobal
    /\ Position(s) /\ Fills(r, s)
    /\ \/ r \in tick.held /\ UNCHANGED runs
       \/ /\ r \notin tick.held /\ tick.by[Dag(r)] >= Cap(Dag(r))
          /\ IF PolicyOf(Dag(r)) = "serial_discard"
             THEN SetState(r, "cancelled", FALSE)   \* discardRun
             ELSE UNCHANGED runs
    /\ TurnOver(r, s, tick.by)
    /\ UNCHANGED <<now, up, boot, policy, events, dags, deleting, bf, high, ops, crashes>>

EndTick ==
    /\ tick.pc = "start"
    /\ tick.slots = {} \/ Total(tick.by) >= MaxActiveRunsGlobal
    /\ tick' = Idle
    /\ UNCHANGED <<now, up, boot, policy, runs, events, dags, deleting, bf, high, ops, crashes>>

-----------------------------------------------------------------------------
(* Runs end, time passes, old runs are pruned, the scheduler restarts.     *)

\* A held run is not finalized.
Finish(r, s) ==
    /\ up /\ runs[r].state = "running" /\ ~runs[r].held
    /\ SetState(r, s, FALSE)
    /\ UNCHANGED <<now, up, boot, policy, events, dags, deleting, bf, tick, high, ops, crashes>>

Clock ==
    /\ now < MaxTime /\ now' = now + 1
    /\ UNCHANGED <<up, boot, policy, runs, events, dags, deleting, bf, tick, high, ops, crashes>>

\* Mutant: nothing is exempt from retention.
KeptNone(r) == FALSE

\* The newest scheduled run of a DAG is its anchor.
Kept(r) == /\ Kind(r) = "schedule"
           /\ \A q \in ScheduledRuns(Dag(r)) : runs[q].date <= runs[r].date

\* housekeeping, between ticks; 0 keeps runs for ever. A run finished at its
\* date at the earliest.
PruneRuns ==
    /\ up /\ tick.pc = "idle" /\ Retention > 0
    /\ \E old \in SUBSET {r \in In(TerminalRun) : runs[r].date + Retention <= now /\ ~Kept(r)} :
         old # {} /\ runs' = [r \in DOMAIN runs \ old |-> runs[r]]
    /\ UNCHANGED <<now, up, boot, policy, events, dags, deleting, bf, tick, high, ops, crashes>>

Crash ==
    /\ up /\ crashes < MaxCrash
    /\ up' = FALSE /\ tick' = Idle /\ bf' = {} /\ deleting' = {} /\ crashes' = crashes + 1
    /\ UNCHANGED <<now, boot, policy, runs, events, dags, high, ops>>

\* Run: LoadDAGs skips what was deleted.
Restart ==
    /\ ~up
    /\ up' = TRUE /\ boot' = now
    /\ dags' = [d \in Dags |-> [paused |-> dags[d].paused, deleted |-> dags[d].deleted,
                                cached |-> ~dags[d].deleted]]
    /\ UNCHANGED <<now, policy, runs, events, deleting, bf, tick, high, ops, crashes>>

-----------------------------------------------------------------------------
(* Operators and other runs.                                               *)

Operator(op) == up /\ op \in Ops /\ ops < MaxOps /\ ops' = ops + 1

PublishEvent(e) ==
    /\ Operator("event") /\ events[e] = "none"
    /\ events' = [events EXCEPT ![e] = "pending"]
    /\ UNCHANGED <<now, up, boot, policy, runs, dags, deleting, bf, tick, high, crashes>>

TriggerManual(d, prio) ==
    /\ Operator("trigger") /\ dags[d].cached
    /\ LET r == <<d, "manual", ops>>
       IN  Insert(r, now, prio, InsertResult(r, now, ManualRoom(d)))
    /\ UNCHANGED <<now, up, boot, policy, events, dags, deleting, bf, tick, high, crashes>>

\* triggerDownstreams: an upstream run of that date has succeeded, the last of d's
\* upstreams. Pause is not asked for; a full queue keeps the upstream's event, and
\* the run is tried again.
DependencyRun(d, date) ==
    /\ Operator("dependency") /\ dags[d].cached
    /\ LET r == <<d, "dependency", date>>
       IN  Insert(r, date, 0, CreateDagRunBounded(r, date))
    /\ UNCHANGED <<now, up, boot, policy, events, dags, deleting, bf, tick, high, crashes>>

\* A task of another run starts d as its child, with its own run's priority.
advanceSubdag(d, prio) ==
    /\ Operator("subdag") /\ dags[d].cached
    /\ LET r == <<d, "subdag", ops>>
       IN  Insert(r, now, prio, CreateDagRunBounded(r, now))
    /\ UNCHANGED <<now, up, boot, policy, events, dags, deleting, bf, tick, high, crashes>>

\* The window is enumerated first and ends now at the latest.
Backfill(d, from, to) ==
    /\ Operator("backfill") /\ dags[d].cached /\ bf = {}
    /\ from < Least(to, now)
    /\ bf' = {<<d, p>> : p \in {q \in Periods : from <= q /\ q <= Least(to, now)}}
    /\ UNCHANGED <<now, up, boot, policy, runs, events, dags, deleting, tick, high, crashes>>

BackfillPeriod(d, p) ==
    /\ up /\ <<d, p>> \in bf /\ \A b \in bf : p <= b[2]
    /\ LET result == CreateDagRunBounded(<<d, "backfill", p>>, p)
       IN  /\ Insert(<<d, "backfill", p>>, p, 0, result)
           /\ bf' = IF result \in {"full", "not found"} THEN {} ELSE bf \ {<<d, p>>}
    /\ UNCHANGED <<now, up, boot, policy, events, dags, deleting, tick, high, ops, crashes>>

CancelRun(r) ==
    /\ Operator("cancel") /\ runs[r].state \in ActiveRun
    /\ SetState(r, "cancelled", FALSE)
    /\ UNCHANGED <<now, up, boot, policy, events, dags, deleting, bf, tick, high, crashes>>

\* A retry or a mark makes an ended run running again, caps or no caps.
Reactivate(r) ==
    /\ Operator("retry") /\ runs[r].state \in TerminalRun
    /\ SetState(r, "running", TRUE)
    /\ UNCHANGED <<now, up, boot, policy, events, dags, deleting, bf, tick, high, crashes>>

SetDagRunHeld(r, h) ==
    /\ Operator("hold") /\ runs[r].state \in ActiveRun
    /\ runs' = [runs EXCEPT ![r] = [state |-> @.state, date |-> @.date, prio |-> @.prio,
                                    held |-> h, revived |-> @.revived]]
    /\ UNCHANGED <<now, up, boot, policy, events, dags, deleting, bf, tick, high, crashes>>

SetDag(d, p, x, c) == dags' = [dags EXCEPT ![d] = [paused |-> p, deleted |-> x, cached |-> c]]

SetPaused(d, p) ==
    /\ Operator("pause")
    /\ SetDag(d, p, dags[d].deleted, dags[d].cached)
    /\ UNCHANGED <<now, up, boot, policy, runs, events, deleting, bf, tick, high, crashes>>

\* DeleteDAG looks for active runs, marks the row, and evicts the cache.
DeleteDAG(d) ==
    /\ Operator("delete") /\ ~dags[d].deleted /\ Of(d, ActiveRun) = {}
    /\ deleting' = deleting \cup {d}
    /\ UNCHANGED <<now, up, boot, policy, runs, events, dags, bf, tick, high, crashes>>

SoftDeleteDAG(d) ==
    /\ up /\ d \in deleting
    /\ SetDag(d, dags[d].paused, TRUE, dags[d].cached) /\ deleting' = deleting \ {d}
    /\ UNCHANGED <<now, up, boot, policy, runs, events, bf, tick, high, ops, crashes>>

Evict(d) ==
    /\ up /\ dags[d].deleted /\ dags[d].cached
    /\ SetDag(d, dags[d].paused, TRUE, FALSE)
    /\ UNCHANGED <<now, up, boot, policy, runs, events, deleting, bf, tick, high, ops, crashes>>

-----------------------------------------------------------------------------
TickStep ==
    \/ BeginTick \/ BeginDue \/ ListQueued \/ ListRunning \/ EndTick
    \/ \E e \in Events : ConsumeEvent(e) \/ \E d \in Dags : Deliver(e, d)
    \/ \E d \in Dags : CreateDueRun(d)
    \/ \E r, s \in tick.slots \cup tick.listed : StartRun(r, s) \/ PassOver(r, s)

OperatorStep ==
    \/ \E e \in Events : PublishEvent(e)
    \/ \E d \in Subdags, p \in Prios : advanceSubdag(d, p)
    \/ \E d \in Downstream, date \in 0..now : DependencyRun(d, date)
    \/ \E d \in Dags : \/ \E p \in Prios : TriggerManual(d, p)
                       \/ \E p \in BOOLEAN : SetPaused(d, p)
                       \/ DeleteDAG(d)
    \/ \E d \in Scheduled, p, q \in Periods : Backfill(d, p, q)
    \/ \E r \in DOMAIN runs : \/ CancelRun(r) \/ Reactivate(r)
                              \/ \E h \in BOOLEAN : SetDagRunHeld(r, h)

Background ==
    \/ \E d \in Dags : SoftDeleteDAG(d) \/ Evict(d) \/ \E p \in Periods : BackfillPeriod(d, p)
    \/ Restart

Next ==
    \/ TickStep \/ OperatorStep \/ Background
    \/ \E r \in DOMAIN runs, s \in Outcomes : Finish(r, s)
    \/ Clock \/ PruneRuns \/ Crash

Spec == Init /\ [][Next]_vars

\* The tick loop and calls in progress go on, runs end, time passes.
Fairness ==
    /\ WF_vars(TickStep) /\ WF_vars(Background) /\ WF_vars(Clock)
    /\ WF_vars(\E r \in DOMAIN runs, s \in Outcomes : Finish(r, s))

FairSpec == Spec /\ Fairness

-----------------------------------------------------------------------------
(* Properties.                                                             *)

\* The queue never grows beyond its bounds, whoever creates runs at once.
QueueBound ==
    Cardinality(In({"queued"})) <=
        IF MaxManualQueueGlobal > MaxQueuedRunsGlobal THEN MaxManualQueueGlobal ELSE MaxQueuedRunsGlobal

\* Runs the tick promoted stay within the DAG's cap: one for serial policies,
\* max_active_runs otherwise, although runs end, are cancelled and reactivated
\* while the tick works from its lists.
CapRespected ==
    \A d \in Dags : Cardinality({r \in Of(d, {"running"}) : ~runs[r].revived}) <=
        IF policy[d] = "parallel" /\ MaxActiveRuns[d] > 0 THEN MaxActiveRuns[d] ELSE 1

\* The types and both bounds, which every step keeps.
QueueInv == TypeOK /\ QueueBound /\ CapRespected

\* A DAG's queue drains in order: the tick starts no run while one it listed
\* before it, by priority for serial_priority and by date otherwise, still waits.
InOrder ==
    [][\A r \in DOMAIN runs \cap DOMAIN runs' :
         tick.pc = "start" /\ runs[r].state = "queued" /\ runs'[r].state = "running" =>
           ~\E q \in tick.listed : /\ Dag(q) = Dag(r) /\ runs[q].state = "queued"
                                   /\ q \notin tick.held
                                   /\ IF policy[Dag(r)] = "serial_priority" /\ dags[Dag(r)].cached
                                      THEN \/ runs[q].prio > runs[r].prio
                                           \/ runs[q].prio = runs[r].prio /\ Older(q, r)
                                      ELSE Older(q, r)]_vars

ScheduledAt(d) == \E r \in DOMAIN runs' \ DOMAIN runs : Dag(r) = d /\ Kind(r) = "schedule"

\* A schedule never goes back: no period at or before one that was scheduled
\* is scheduled again, through retention and restarts.
NoReplay == [][\A d \in Dags : high'[d] >= high[d] /\ (ScheduledAt(d) => high'[d] > high[d])]_vars

\* An event is consumed only when each subscriber known then has got its run,
\* was paused or was deleted.
EventServed ==
    [][\A e \in Events : events'[e] = "consumed" /\ events[e] = "pending" =>
         \A d \in Subs[e] : \/ <<d, "event", e>> \in DOMAIN runs
                            \/ <<e, d>> \in tick.missed \/ ~dags[d].cached]_vars

SomeHeld == \E r \in In(ActiveRun) : runs[r].held

\* A queued run does not wait for ever, unless something is held.
QueuedStarts ==
    \A r \in RunId : (r \in In({"queued"})) ~> (r \notin In({"queued"}) \/ SomeHeld)

Waiting(d, p) == NextDue(d) = p /\ p <= now /\ ~dags[d].paused /\ ~dags[d].deleted /\ up

\* A due period of a catch-up DAG is scheduled, unless something is held or a
\* backfill or a dependency run has taken that very period: the anchor moves
\* with scheduled runs only, so such a period keeps the schedule at it.
DueIsCreated ==
    \A d \in Catchup, p \in Periods :
        Waiting(d, p) ~> \/ ~Waiting(d, p) \/ SomeHeld
                         \/ \E k \in {"backfill", "dependency"} : <<d, k, p>> \in DOMAIN runs
=============================================================================
