# A TLA+ development of cronova: the scheduler and its console

cronova is a single-binary workflow scheduler: a tick loop turns schedules,
events and operator requests into DAG runs, drives the tasks of each run
through their dependencies, and hands every attempt to an executor that owns
the operating-system processes and survives scheduler restarts. What is hard
about it is not any single step but the number of parties that write the same
two rows, `dag_runs` and `task_instances`: the tick, one goroutine per attempt,
the HTTP handlers of the operators, the run deadline, and `Recover` after a
crash. Only some of them take `finalizeMu`; most of them read a row, talk to
the executor, and write the row back later.

The console (`internal/web/static`) is the other half: a single page in plain
JavaScript that keeps a DAG in memory, saves it behind a debounce timer, polls
runs, and lets the user go elsewhere while any number of answers are on their
way. It has one thread and no locks; every `await` is a place where the page, the
open DAG, the dialog or the session may have changed before the next line runs.

This directory models both, checks them with TLC on small instances and
proves most of the safety properties of both with TLAPS, for every value of the
constants.

## 1. Inventory

| Component | State | Operations | Talks to |
|---|---|---|---|
| Tick loop (`scheduler.go`: `Tick`, `processActiveRuns`, `processRun`, `admitReady`) | copy of the listed runs, harvest of ready tasks, SLA and suppression maps | start, expand, propagate, requeue, collect, finalize, admit | store, attempts, events |
| Attempts (`dispatch`, `runTask`, `awaitCompletion`, `finalizeTask`, `recordFailure`) | one goroutine and one copy of the row per attempt | launch, mark running, poll, finalize, give back | executor, store |
| Operators (`CancelRun`, `RetryTask`, `RetryRun`, `MarkTask`, `MarkRun`, hold) | the snapshot they read | override a task or a run | store, executor, events |
| Deadlines (`enforceDeadlines`, `timeoutRun`) | `started_at` of the listed copy | time a run out | store, executor |
| Recovery (`Recover`, `reattach`) | lists of queued and running rows | re-attach, finalize, reset | executor, store |
| Trigger rules (`model/state.go`, `taskGate`) | none | `EvalTriggerRule` | tick |
| Store (`store/sqlite`, `store/postgres`) | rows, events, lease, workers | guarded and unguarded updates, transactions | all |
| Executor (`executor/runner.go`) | registry of refs, processes, state files | launch, probe, cancel, reap, evict | operating system |
| Dependency events (`triggerDownstreams`, `processPendingDependencyEvents`) | durable events | publish with success, deliver, consume | store, tick |
| Admission (`max_active_runs`, execution policies, pools, budgets) | counts taken once per tick | admit, discard, reorder | store |
| External events, webhooks | durable events | turn an event into a run per subscriber | store |
| Schedules, catch-up, backfill, retention | anchor of each DAG | create due runs, backfill, prune | store |
| Sub-workflow tasks (`advanceSubdag`) | child-run refs | start, follow, cancel a child run | runs |
| Lease and standby (`cmd/cronova/main.go`, `lease.go`) | holder and expiry | acquire, renew, release, take over | store |
| Worker hub and workers (`workerhub`, `worker`) | sessions, assignments, log offsets | assign, report, fail over, resume | attempts, store |
| Console, save pipeline (`views.js`: `saveDag`, `flushSave`, `flushPendingSaves`, `showDag`, `deleteActiveDag`) | `D` with its CAS token and graph session, `saveTimer`, `saveInflight`, `savePending`, `deleting` | edit, save, flush, open, trigger, delete | `POST /api/dags/build`, `DELETE` |
| Console, screens (`base.js`: `applyRoute`, `setHash`, `api`, `initAuth`; `views.js`: `showRun`, `showWorkers`, polls; `boot.js`: heartbeat) | `view`, `currentRun`, poll generations, caches, `logES`, `authUser`, `suppressHash` | open, load, poll, stream, log in and out, write | every `GET`, `POST` |
| Console, graph (`views.js`: `graphMutate` .. `startEdgeDrag`, `hasCycle`, `diffLines`; `base.js`: `topoOrder`, `renderGraph`) | `D.tasks`, `graphBase`, `graphDirty`, `graphPending`, `connectMode` | connect, drop, remove, add, copy, rename, delete, save or discard | save pipeline |
| Console, dialogs (`confirmDialog` and its kin, `renderNewDag`, `runBulk`, `renderDagRuns`) | `#modal-root`, key listeners, `bulkSel`, `D.runFilter`, `dagRunsPoll` | open, answer by key or click, submit, bulk call, filter | the operations confirmed |
| DAG registry and parser, projects, templates, notifications, API, auth, CLI | definitions, files | requests and I/O around the above | the above |

What makes each of the core components correct:

- attempts: a ref is never reused, a finished row is changed by operators only,
  an outcome comes from the attempt the row names, every live row has somebody
  who will resolve it, retries stop at the budget;
- runs: an ended run has nothing in flight, a success is a success of its tasks,
  tasks start only inside a running run and when their rule holds, a run ends,
  a suppressed notification stays with the run it was meant for;
- trigger rules: they decide as soon as the dependencies are done, and never
  change their mind;
- run creation and promotion: the queue keeps its bound and drains in order
  under the caps, an event reaches its subscribers, a schedule neither repeats a
  period nor stops;
- lease: at most one process schedules, and a dead one is replaced;
- console, saves: one save at a time, none behind a delete; an accepted edit is
  stored or its failure is shown, and a run started after it uses it;
- console, screens: an expired session leads to the login, a poll draws only for
  the page the user sees and stops with it, and stops only after it has drawn the
  end of the run;
- console, graph: ids stay unique, the graph stays acyclic and closed, what is
  shown (cycles, order, levels, diff) is what the list says;
- console, dialogs: whatever is drawn over what, the dialog shown can be closed, one
  that was closed hears no key again, Enter submits once, a confirmation is good
  for one operation;
- dependency events: a success starts the downstream DAG, through restarts and
  full queues.

The hard behaviours are listed with their lines under `hazards` in
`PROJECT.json`: rows read before an executor call and written after it, run
copies listed before a lock is taken, several writes that a crash can separate,
replies that get lost, answers that arrive on another page, and liveness of the
whole.

## 2. Modules

```
States ──┬── TaskLifecycle          what a task's row promises (abstract)
         │        ▲ implemented by
         ├── TaskAttempt ── TaskAttemptProofs, MCTaskAttempt
         │        │ its attempts, as TaskLifecycle promises them, are used by
         ├── RunLifecycle ── RunLifecycleProofs, MCRunLifecycle
         ├── RunQueue ── RunQueueProofs, MCRunQueue
         │                              before a run runs, and between runs
         └── TriggerGate                proved about in RunLifecycleProofs

Lease ── LeaseProofs, MCLease

DagEditor         GraphEdit           Console         Dialogs
  │ (saves)         │ (what is edited)  │ (screens)     │ (#modal-root)
DagEditorProofs   GraphDiff           ConsoleProofs   DialogsProofs
                    │ (diffLines)     MCConsole
                  GraphEditProofs, MCGraphEdit
```

The scheduler's modules and the console's meet at the HTTP interface: DagEditor
has the server's compare-and-swap, Console only what a request reads and does.

**States** is the vocabulary of `internal/model`: states, terminal states,
`LegalPriorRunStates` with the guarded `UpdateDagRunState`, and the trigger
rules as quantified formulas `Ready` and `Blocked`.

**TaskAttempt** is one task instance of one running run with everything that
writes its row.

| Variable | Code |
|---|---|
| `run`, `row` | `dag_runs.state`; `task_instances` state, `try_number`, `executor_ref`. A ref is run/task/try, so it is represented by its try number |
| `gor` | the goroutine of each attempt and where it stands in `runTask` / `awaitCompletion` |
| `proc`, `rec` | processes, and the refs the executor's registry knows |
| `mu` | the operation that holds `finalizeMu` across its executor call, with the snapshot it read |
| `tick` | how far `processActiveRuns` got with this run |
| `sched`, `rcv` | scheduler process; progress of `Recover` with the row it listed and the phase it probed |
| `base` | history variable: the try number at the last manual clear |

An operation is split exactly where the code lets somebody else in: between
reading the row and the kill, between the kill and the write, between a probe
and the write that follows. `Faults` selects environment faults (no worker,
launch error, lost launch reply, probe error in Recover, store error, evicted
result); `Durable` selects a standalone or an embedded executor. Abstractions:
a launch is atomic at the executor; a probe error inside the poll loop is a
stutter, since the loop just goes on; results are evicted only while nobody
polls them (they are kept for an hour, pollers look every second or so); logs,
workspaces and environments are left out; releasing blocked downstream tasks,
which `MarkTask` also does, is in RunLifecycle, where there are other tasks.

**TaskLifecycle** is the abstract state machine of one row, what trigger rules,
finalization and the console may rely on. It is not the graph `state.go`
documents: rows really go from queued to success, to up_for_retry, and back to
scheduled. TaskAttempt implements it with `override` mapped to "an operator
holds the lock".

**RunLifecycle** is one run with all its tasks. `tick` carries the copy of the
run that was listed before the lock: `as` and `held` are its state and hold,
`stale` says that its `started_at` predates a reactivation. `mu` is the holder
of `finalizeMu` with the rows it has still to write, so that attempts resolve
and crashes fall between any two writes. `ProcessRun` is steps 1 to 3 of
`processRun`: block propagation to its fixpoint, requeueing of any subset of the
failed attempts (their delays), the `when:` and `depends_on_dag` gates, and the
harvest; `FinalizeRun`, `NotOverdue` and `TimeoutRun` are step 4. Budgets, pools
and slots may leave out any candidate. Attempts move as TaskLifecycle allows.
`redone` is history: the tasks that a retry or a mark has written while a harvest
waits for its admission. Dependencies need not come earlier in the definition,
only the graph has no cycle, as `parser.go` checks.
`event`, `reader` and
`down` are the dependency event, the tick's reading of it and the downstream
run. A run whose DAG lost all its tasks fails at once and is outside the model
(`Tasks # {}`); an operator's mark of a run delivers its event synchronously.
A run is new, or was expanded by a pass that failed before it started the run.

**TriggerGate** is `EvalTriggerRule`, with its counters, over dependencies that
move freely to a terminal state.

**RunQueue** is the table `dag_runs` as the tick and the operators fill and drain
it; what happens inside a running run is RunLifecycle and here only `Finish`.
`tick` says where `tickOnce` stands and carries what it read on the way: the
events and DAGs still to do, the active counts taken before due runs are
created, the queued runs listed and which of them were held, the slots counted
from the running list. Between any two of these steps operators, backfills,
deletes and the ends of runs interleave. An insert is one step (SQLite runs one
statement, PostgreSQL takes an advisory lock) and answers as the store does: not
found for a deleted DAG, full, exists, or ok. `UNIQUE (dag_id, logical_date)`
binds schedules, backfills and dependency runs, whose dates are periods (a
dependency run has its upstream's, `scheduler.go:2081`); triggers, events and
sub-workflow children are dated by the clock to the nanosecond (`LogicalDate: now`,
2417) and never meet. When a dependency run or a child is wanted comes from
another run, which is outside the module: both may appear at any time, once the
DAG is one of `Downstream` or `Subdags`. A DAG has a row and a cache
entry (`deleted`, `cached`), and DeleteDAG works through its count, its row and
the cache in three steps. A schedule is the multiples of `Every`; a run is old
enough for retention when its date is. Errors of the store (also the fallback of
`scheduleAnchor` at 1297), the periods beyond
the 500 a backfill allows, and the `prune` command beside a running scheduler are
left out.

**Lease** is the row `scheduler_lease` and the `serve` processes of several
hosts. Time is discrete and appears as countdowns: `lease.left` until the expiry
the holder wrote, `timer[i]` until a process's next renewal, next try in standby
or the end of its start-up. `Ahead` gives the clock of each host, and the
comparison of an expiry with "now" uses it. Acquiring an existing row is one
step (SQLite has a single connection, PostgreSQL locks the row); inserting the
first row is a step of its own, whose expiry was computed before it, as in the
PostgreSQL store. A holder id contains pid and start time, so a row outlives its
process as `Ghost`. `faulty` records that a renewal failed or that time passed
over something that was due; overlap is excluded only without it. The scheduler
of a process counts as stopped when its context is cancelled.

**DagEditor** is one tab that edits DAGs while another editor does, too. An
action is the code from one `await` to the next. A definition is abstracted to
the stamps of the last edit of its settings, task forms and graph, whether
`validateDag` finds an error in its tasks or in its `notify_url`, and how many of
the other editor's saves it contains; its hash is the definition itself. `timer` distinguishes an armed
timer from a handle whose callback already ran, since `flushPendingSaves` tests
the handle. `posts` are the requests under way; the server checks the token in
one step and stores in the next, as `buildDAG` does, for this tab's saves and for
the other editor's, which carry a token or overwrite whatever is there (`cronova
apply` sends none). `asked`, `last` and `mine` are history: the last edit `saveDag`
accepted, how the last save ended, and what this tab stored last. The
actions are grouped by the page that offers them.

**Console** is what `main` shows and why. Six kinds of screen stand for all,
chosen by how they treat a late answer: some compare `view` before they draw,
some do not, the run and the workers page poll, and `showDag` takes the view only
with its answer. A request carries what held on the server when it was sent
(`old`) and may be answered with that or with what holds on arrival. `polls` are
intervals with the generation they were started for and the requests they have
out: `setInterval(async ...)` ticks while an earlier request waits (`views.js:2455`),
and the answers come in any order. An interval that was cleared stays until the
last of them. `handle` is the interval `clearInterval` can still reach. `beat` is the heartbeat with its two requests.
A write reopens its page when it is answered. Novice and expert mode share
actions except where the code differs (`renderNovRun`, `renderDagsNovice`,
`renderNovRunBanner`). One write and one login call are in flight at a time.

**GraphEdit** is the task list of the open DAG under the graph editor, the task
page and the novice steps, with the algorithms `hasCycle` (colours),
`topoOrder` (passes) and `lvl` (memoized levels), each as the code computes it: a
loop over a list is `Thread`, which hands a state from element to element, and
nested calls are indexed by their depth, which is bounded because every call on
the stack has marked a task of its own. Two handlers await a dialog first:
`addTaskFromGraph` (1129) and `deleteTask` (1321). Their action is what follows the
answer, on whatever page is open by then, and `deleteTask` may name a task that is
gone; both then draw the DAG page. An answer that comes after another DAG was
opened, and is then applied to that one, is not modelled. A save takes effect at
once, since how it reaches the server is DagEditor's subject.
The definitions the editor opens on are assumed to be what `parser.go` accepts:
unique ids (337), dependencies listed once (489), no cycle (501).

**GraphDiff** adds `diffLines`, with its table of suffix lengths, which the panel
with the pending changes uses. A task's YAML counts as one line of the diff. The
panel itself, `loadGraphDiff`, with its two requests, its note on an invalid
definition and its cached html, is not modelled.

**Dialogs** is `#modal-root`, the key listeners in the order of registration, and
what the dialogs start. No dialog looks whether another is open, and nothing keeps
the focus inside: every dialog may be opened over any other, from the page behind
it (`boot.js:29-33` makes its widgets operable by key) or by a handler that goes on
after an `await` (`duplicateActiveDag`, `views.js:821-822`). A key press runs all the
listeners, oldest first (`Press`). `wiped` is history: the dialogs drawn over, or
cleared away by the close of another. Bulk operations and the run history's three
kinds of fetch are here because they are started by, or race with, dialogs and
chips.

The map in `PROJECT.json` gives the lines each definition stands for.

## 3. Runs

| Run | Question | Bounds |
|---|---|---|
| `attempts` | Do row, goroutines and executor stay consistent under every fault, and implement TaskLifecycle? | 2 goroutines, 3 attempts, 1 retry, 2 operator calls or deadlines, 1 crash, embedded executor, all faults |
| `attempts_live` | Is every live row attended and resolved, and success not run again? | 2 goroutines, 4 attempts, 2 calls, 1 crash, standalone executor |
| `run_lifecycle` | What does an ended run promise, and do tasks start only when ready? | 3 tasks in a chain with a gate and an `all_done` cleanup, 2 of cancel, retry, mark of a task and hold, deadline |
| `run_live` | Does a run end and start its downstream, through a crash between any two writes? | same chain, 1 retry per task, 1 crash, one of hold, mark, retry, cancel |
| `trigger_gate` | Does the counting code implement the rules, and are its decisions final? | 3 dependencies, all rules, all orders |
| `queue` | Do the queue's bound, the caps, the order, the delivery of events and the schedule survive operators, a restart and retention? | 2 DAGs (one of parallel, serial_priority, serial_discard; one serial_wait), 1 event for both, 2 periods, any one of eight operator calls, a dependency run and a child run, 1 crash, at most 2 queued and 2 running |
| `lease` | Does only one process schedule, does an overlap end, is a dead holder replaced? | 3 hosts, 2 of them standbys, one clock 1 ahead; TTL 6, period 2, start-up 2 |
| `editor` | Are saves serialized, deletes final, triggers fresh, and do edits land? | 2 DAGs, 2 edits, 5 acts of user and other editor, 2 openings at once, failing fetches, saves and deletes; the other editor compares, or overwrites |
| `console` | Is an expired session noticed, do polls end and draw only where they belong, is a run's end drawn? | all six kinds of screen, 1 run that goes on, 2 acts or faults, 2 loads at once, 2 requests at once of a run's interval, disconnection, expiry, Back |
| `graph` | Do edits keep the graph sound, and do the algorithms agree with their definitions? | every acyclic graph of 1 or 2 tasks, every one of 3 tasks with 2 dependencies, 3 edits that change the list |
| `dialogs` | Do keys, late answers, bulk operations and filters stay apart? | 2 DAGs, 2 filters, 4 acts, 2 requests and 2 fetches at once |

Six invariants are conjunctions, so that one run reports on the whole of a
component: `RunInv` (types, `RunSettled`, `SuccessHonest`, `SuppressScoped`),
`QueueInv` (types, `QueueBound`, `CapRespected`), `EditorInv` (types,
`SerialSaves`, `DeleteSticks`), `ConsoleInv` (types, `LoginGate`), `GraphInv` (types,
`UniqueIds`, `StoredSound`) and `DialogInv` (types, `Answerable`, `StrayKeys`, `ConfirmedOnce`).

Bounds: three hosts are needed for a holder, its successor and a third that profits
from a wrong release; TTL 6 is the least above period, start-up and skew. Two queued runs are as few
as give an order and a bound that bites, and a backfill alone exceeds it. One retry is enough for "retries left" and "retries used up"; two operator calls
are enough for a cancel and a retry around one attempt; two goroutines let a stale
one meet a fresh one; the third task of the chain sees a dependency that failed
and one that was blocked by it. In the editor, two edits are as few as put one in
flight and one in the timer; five acts allow open, edit, edit, delete or
trigger, and confirm. On the console, two loads at once are as few as let an
answer overtake another, and two acts as few as leave a page and come back; the
answers, log streams and the end of runs are not bounded. One run is what the time
allows beside two requests at once, as few as let the answers of one interval
overtake each other; pages of two runs, between which a poll must not draw, are
left to the theorem `NeverDrawsStale`. Three tasks are
as few as have a cycle no two of which form, a diamond's shared node needs three
edges, and three edits reach "pick, delete, pick" and then a cycle. Two listeners of one modal need
opening, filling in, redrawing and Enter.
`CHECK_DEADLOCK FALSE` everywhere: a run that ended and has no operator left
really stops. Goroutine slots are symmetric in the safety runs.

One run exhibits a disagreement between the code and its own comments, with a
finding that quotes them: `cancel_not_clobbered`, where a run cancelled after the
tick listed it is started by that tick.

Reading the code with the model at hand showed a few more, not given a run of
their own. Where a property would be broken by one of them, the property names the
exception, or the passing run leaves out the operator or the fault that leads
there, and this section says so.

- `NoLostTrigger` and `TriggerDelivered` are checked with a single mark of a run: a
  success event re-armed
  by MarkRun (failed, then success again, with the queue full) can be consumed by
  a tick that read the run before the second mark (`scheduler.go:2014`). The
  hypothesis `Calm` of the theorem `TriggerNotLost` is exactly this.
- A cancel that reads a queued row sends its kill before the launch; the attempt
  is launched and marked running, and then the cancel writes its row: the process
  goes on under a cancelled row (`scheduler.go:598-602`).
- A held run whose tasks are done is neither finalized nor timed out
  (`scheduler.go:1748`, against the comment above it); `QueuedStarts` and
  `DueIsCreated` therefore except held runs.
- Without catch-up the anchor is still the latest scheduled run, so periods missed
  while the scheduler was down are created after all, where
  `docs/tutorial/scheduling.md:112` says they are skipped. `DueIsCreated` is about
  catch-up DAGs, of which code and docs say the same.
- Manual triggers are bounded by `MaxManualQueueGlobal` and may exceed
  `MaxQueuedRunsGlobal`, which "caps every queued run source"; `QueueBound` is
  stated with the larger of the two. A retry or a mark reactivates a run whatever
  the caps; `CapRespected` counts what the tick promoted.
- `scheduleAnchor` looks at runs of type schedule only. When a backfill, or a run
  started by an upstream DAG with that logical date, has taken the period after the
  latest one, every tick computes that period again, meets `UNIQUE (dag_id,
  logical_date)` and goes on (`scheduler.go:1258`, which calls it benign, and
  1293-1305): the DAG is not scheduled until retention deletes that run.
  `DueIsCreated` is what holds: the schedule goes on unless that period was taken
  so. Children of a sub-workflow task are dated by the clock and take no period.
- The queue is checked with one operator call. That a cancel and a later retry of
  the same run meet one tick's stale list is left to the theorem `QueueSafe`, which
  has any number of calls.
- A tick looks at the oldest `MaxActiveRunsGlobal + 500` queued runs; held or
  capped runs can fill that window for good. The window of the runs is larger
  than the queue.

Further: a probe error in `Recover` is logged and skipped (`scheduler.go:2674`),
so the attempt stays live and unpolled until the next restart, and `Attended` is
checked without that fault (`attempts_live`); the retry of a task keeps its attempt number (`scheduler.go:873`)
although the comment at 862 promises a fresh count; a lost launch reply is
recorded as a failure although `state.go:12` says the task never ran; `admitReady`
re-checks the candidate but not its dependencies, so between harvest and dispatch
a mark of a task, or a cancel or a deadline followed by a retry, can take back
the success the rule was evaluated on, and the task starts all the same.
`run_lifecycle` has this window, with its deadline, retries and marks of tasks,
and `DispatchReady` says what holds in it: a task starts in a running run, and its
rule holds at that moment unless an operator has rewritten one of its dependencies
since the harvest; without that exception TLC reports it. A crash in the middle of a cancel
leaves running tasks under a cancelled run, which a retry then clears; a crash
in the middle of a mark or a retry of a successful run leaves it recorded as a
success with tasks that are not, which is why `RunSettled` and `SuccessHonest`
are stated without crashes; an attempt's success is written before its output
(`scheduler.go:2576-2578`), so a downstream gate may be rendered without it.

On the console, the models reach the following, and the properties say what
holds beside them.

- *Saves.* Graph edits are called a session of which "nothing is persisted until"
  it is saved (`views.js:1048`), but any other save sends the whole model
  (`dagSpecFrom`). Edits made while `showDag` waits for its flush and fetch are
  dropped when the answer replaces `D`, and a save that was under way gives its
  token to whatever `D` is by then (2206), so that DAG's next save conflicts. After
  a failed `showDag` the model is null: a pending flush throws outside the `try` of
  `flushSave` (2200) and leaves `saveInflight` set, and every later save, trigger
  or opening waits for ever. A timer armed by a valid model sends the invalid one
  it may have become. Edits accepted while a delete fails are not saved until the
  next one; a save after a delete, before the list is drawn, creates the DAG
  again. `buildDAG` compares and writes in two steps (`server.go:790-797`), and a save
  without a hash overwrites (756-760), so two editors can overwrite each other.
  `TriggerFresh` and `EditLands` therefore speak of what this tab stored, which
  another editor may have replaced when the run is created.
- *Screens.* Loads of the pools, graph, run and DAG pages draw whatever page the
  user has gone to; a failed late `showDag` leaves a hash that is not the view. A
  late `showRun` opens a log stream that suspends the dashboard's heartbeat. A
  poll whose shell was drawn over throws and tries again. Of two requests of one
  poll the older may be answered last: it passes the check at 2462 and draws the run
  as live again after the newer one drew its end and cleared the interval, for good.
  `EndDrawn` is what holds: the end of a watched run is drawn, and polling goes on
  until then. Writes reopen their page
  wherever the user is. The answer to a logout may put the overlay over a user
  who signed in since.
- *Graph.* `graphPending` survives the deletion or renaming of the picked task
  (1165, 1320): the second click adds a dependency on a task that is gone, which
  `dagSpecFrom` drops; `StaysSound` excepts that very click and nothing else. The
  exception has a sequel that
  came up in the proof of `StaysSound`: when a task on which the same task depends
  is then renamed to the missing id, that id is listed twice; the save carries the
  duplicate, which the server's parser refuses (`parser.go:489`), and the next
  rename replaces only the first of the two (`indexOf`, 2071), so a stale
  dependency appears in a step of its own. `Sound` therefore includes `Distinct`:
  without it `StaysSound` is false from four edits on, one more than the run makes.
  A list with such a dependency can become cyclic (a copy or a next step takes the
  missing id), and a chip taken off then comes back at the end of the list (1906).
  Two diff requests that overtake each other leave the older one cached (1288-1311).
- *Dialogs.* A dialog or an answer that fills or empties `#modal-root` leaves the
  covered dialog's listener on the document: a later Enter confirms what is no
  longer shown, and its close clears away the dialog that is. `StrayKeys` says
  that this is the only way to hear a key without being shown: one the user closed
  never does. `Answerable` says that the dialog shown always has its listener, and
  `ConfirmedOnce` that a confirmation starts one bulk operation, however many
  dialogs hear the key. `renderNewDag` adds a listener with each redraw, so one
  Escape both hides the help and closes the modal, while one Enter still submits
  once. A late poll answer may put the list of the old filter under the new chip,
  and a failed chip keeps the old list, until the next answer: `NewestFiltered` is
  about the newest fetch only.

Mutants: each property of a passing run has a variant of one mapped definition,
the way a plausible slip would change it (`Mutant:` comments in the modules),
that makes TLC report the property.

### Fairness

`FairSpec` of TaskAttempt: weak fairness of the tick, of each goroutine, of an
operation once begun, of Restart and Recover, since each is a loop or a
straight-line function of a running process, and of process exit, since tasks
are assumed to end (they have their own timeout). Strong fairness of dispatch
and of the elapsed retry delay, because a budget or a delay may refuse at one
tick and grant at a later one.

`FairSpec` of RunLifecycle: the same for the tick and for operations in
progress; strong fairness of taking the lock for a pass (`sync.Mutex` does not
starve a waiter), of a pass that finds delays elapsed and gates decided, of an
admission with room for all, of a delivery that finds room in the queue, and of
the resolution of an attempt, which an endless sequence of give-backs would
otherwise postpone. Nothing is assumed of operators, deadlines and crashes, and
both are bounded, so liveness says: once people stop interfering, it ends.

`FairSpec` of RunQueue: the tick, calls in progress, the restart and time go on,
and a running run ends. Nothing is assumed of operators, crashes or retention.

`FairSpec` of Lease: time passes, transactions and shutdowns end, a parked
process keeps trying; strong fairness of the renewal, which may fail now and
then but not for ever.

`FairSpec` of DagEditor: the timer fires, requests are answered or fail, and the
continuations run, as a browser's event loop does; nothing is assumed of the
user, of the other editor or of the order of answers.

`FairSpec` of Console: queued events and answers are handled, the login goes on, a
lost connection comes back, and intervals tick as long as they are set, which
is true of a visible tab (a hidden one pauses on purpose). Current and superseded
polls are fair separately, so that one cannot starve the other. Nothing is
assumed of the user, of the session or of when a run ends.

## 4. Proofs

Eight modules prove, for every value of the constants, what the runs check on small
instances. Each has an inductive invariant whose parts are named, a lemma per
action or per part, and a last step that combines them; TLC checked every
invariant on the run's instance before it was proved.

| Module | Theorems | Hypotheses beyond the module's ASSUME |
|---|---|---|
| `TaskAttemptProofs` | `AttemptInvariant`, `TypeCorrect`, `RefsAreFresh`, `RetriesBounded`, `TerminalRowsStick`, `OutcomesAreGenuine`, `RefinesLifecycle` | none |
| | `AlwaysAttended` | `Attentive`: no store error, no probe error in Recover |
| | `SuccessNotRerun` | `Lasting`: standalone executor, no lost reply, no eviction |
| `RunLifecycleProofs` | `RunTypes`, `SuppressionScoped`; of TriggerGate, `GateType`, `GateAlwaysDecides`, `GateNeverRevoked`, `EvalAgrees` | none |
| | `EndedAtRest` | no crash |
| | `RunSafe` | `Undisturbed`: no crash, no mark of a run |
| | `DispatchSound` | `ExpandsWhole`: no crash, or no mark of a task |
| | `TriggerNotLost` | `Calm`: no mark of a run, or one operation |
| `RunQueueProofs` | `QueueSafe`, `NeverReplays`, `DrainsInOrder`, `EventsServed` | none |
| `LeaseProofs` | `LeaseInvariant`, `SingleScheduler` | none |
| `DagEditorProofs` | `EditorSafe`, `TriggerRunsSaved` | none |
| `ConsoleProofs` | `ConsoleSafe`, `NeverDrawsStale` | none |
| `DialogsProofs` | `DialogsKeepTheirKeys`, `EnterCreatesOne`, `NewestCarriesFilter` | none |
| `GraphEditProofs` | `EditorKeepsGraphs`, `CycleCheckExact`, `LayoutRight`, `EditsStaySound`, `DiffTellsTruth` | none |

The hypotheses are conditions on the environment, not on the code, and each
separates what the code guarantees from a behaviour that section 3 describes:
dropping one, TLC finds the property violated. The runs that check the same
property choose their `Faults` and `Operators` within them.

### Attempts

`FreshRef` is not inductive. A dispatch uses `try + 1` as its ref; that the
executor does not know it needs

- `AttemptBound`: nothing beyond the row's number is known to the executor or
  running here; to keep it when a give-back decrements the number one needs
- `PreLaunchUnique`: an attempt that has not been launched has one goroutine and
  no record, so the number given back was never used;
- `RowRef`: the row names its last attempt or none, so that the ref test of the
  guarded write also compares the attempt number;
- `SnapRef`: an operator's snapshot is never behind the row, since it is written
  back without a guard and would otherwise take the number back;
- `RecoverQuiet`: while Recover handles queued rows no goroutine exists, and a
  ref it found unknown stays unknown until it resets the row.

`RetryInv` is the strengthening of `RetryBudget` over the live states. Each
action has a lemma with a step per disturbed conjunct; `NextInv` combines them.
`TerminalSticky` needs no invariant beyond the types: every writer that is not
an operator goes through the guarded update.

The refinement of TaskLifecycle needs more, because the guard of the row compares
refs and not states: that a write which passes it is also a legal step has to be
known of everybody who may still write. `Agreed` says it: a goroutine before its
mark finds its row queued; two goroutines on one attempt (Recover may adopt an
attempt that the tick has dispatched, and does so twice after a second restart)
will report the same outcome; what Recover has probed and not yet written is what
the poller sees; an operation's snapshot is the row's attempt, or one ahead of a
row given back. `OutcomeInv`, that an outcome about to be written is that of the
process, gives `OutcomesAreGenuine`.

`Attended` is kept with `RecoverFinds`: until Recover is done with a row, it has
the row's ref in its hands or still has to list it. `NoRerunAfterSuccess` needs
`HonestInv`: an attempt with a record that is not the last one has failed
(`SpentInv`), a failure about to be written is one (`Failures`), and every launched
attempt has a record (`Records`), which is where a lost reply, an eviction or an
executor that dies with the scheduler would break it.

### Runs

`RunInv` speaks of ended runs between operations. `PassInv` carries what a pass
knows while others write: who holds `finalizeMu` (`TickLock`), in which state the
run is under each lock (`LockRun`), that rows exist (`Expanded`), that a cancel or
deadline has dealt with the rows it is done with (`Stopped`), that a pass over a
run that ended since it was listed finds only finished tasks (`StalePass`), and
that nothing harvested before the end can still be dispatched (`Voided`).
`EndInv` adds the promises in their form during operations. A crash separates the
writes of an operation, and a mark of a run declares success without its tasks;
`Undisturbed` excludes both. Two parts of `RunInv` need less: `EndedAtRest` proves
`RunSettled` with marks of runs, since only `SuccessHonest` speaks of what a mark
declares, and `SuppressionScoped` proves `SuppressScoped` with crashes too, from
the suppression in its form during operations and `TickLock` (`Scoped`).

`DispatchReady` rests on `Fresh`: every task of the harvest has a dependency that an
operator has rewritten since (`redone`), or is `Firm`: its rule holds whatever
becomes of those dependencies that have not ended or that a cancel or a deadline
in progress has still to write. A plain "the rule holds" is not inductive, since a
cancel overwrites the row of an attempt that succeeded after the cancel listed it;
`Firm` is, since an attempt never changes an ended row. `ReadyStable` (a rule that
holds goes on holding while finished dependencies stay) is the reason a harvest is
firm. `ExpandsWhole` excludes a mark in a run that a crash left half expanded, which
three operations can use to start a task under a cancelled run.
`NoLostTrigger` needs `ReaderInv`: the reader gives an event up only
for a run that an operation took back, and `FirstEvent`: before the first operation
an event belongs to a success.

### Run creation and promotion

Every step changes the rows in one of four ways (`RowStep`): one run is created,
one row is rewritten and does not become queued, retention removes rows, or
nothing. `QueueBound` follows since only a creation adds to the queue and it found
room. `CapRespected` is not inductive: the tick promotes from counts it took
before. `CapInv` says that while it promotes, its count of a DAG is at least the
number of runs it has promoted there, which holds because only the tick makes a
run running that no operator revived. A cap read from a cache that lost the DAG
is 1, and below any policy's (`CapWithin`).

`NoReplay` needs `HighInv`: the newest scheduled run of a DAG is never pruned and
carries the highest period ever scheduled; `NextDue` is then a later boundary
(`Boundary`, `DueFacts`). `InOrder` follows from `StartsOnly`, that a queued run
becomes running by the tick's promotion only, and from how a position is filled.
`EventServed` needs `EvInv`: while an event is still to be consumed, each
subscriber is still to be delivered to, has its run, was passed over or is the
reason to keep the event; a cache entry lost meanwhile stays lost, since a restart
ends the tick.

### Trigger rules and lease

The theorems about TriggerGate are for every finite set of dependencies: `EvalAgrees` is by
cardinality facts (a subset as large as the whole is the whole, a count of zero is
the empty set).

`LeaseProofs` takes from `LeaseConstants` that period, start-up and skew together
are less than the TTL (15 s, 5 s in the code; the start-up is not bounded by the
code and is an assumption of `faulty`). `OneScheduler` follows from "the row names
whoever is on time"; to keep that, nobody may find the lease expired, and
`OwnerOnTime` carries the reason: the expiry is always further away than the
owner's next renewal, by more than any two clocks differ. A tick takes one from
both sides.

### Console

`EditorInv` needs `Latch`: a confirmed delete holds `deleting` until it is
answered, and once its request is sent nothing is in flight. `TriggerFresh` needs to
follow an accepted edit through the pipeline: the tab holds it or a later one
(`Held`), and it waits for the timer (`AskedInv`), or is behind a save in flight, in
that save, refused, or stored (`Issued`); once a trigger has flushed, the timer is
no longer an excuse (`TrigInv`). Nothing is assumed of the other editor.

`ConsoleInv` needs `GenInv`: a load of a run and every interval carry a generation
that its screen was given. `NoStaleDraw` follows from the types: each answer
compares the view, the run and the generation before it draws, in whatever order
an interval's requests are answered.

`NewestFiltered` needs that a fetch has a number of its own and that the newest
asked for the filter shown (`HistoryInv`). What a key press leaves is a statement
about every listener it runs, and is proved by induction over them: a listener only
ever removes itself, Escape leaves no other listener than those of new DAG modals,
and Enter empties the screen only through the dialog shown, which then no longer
listens, or through one wiped before (`EscapeFacts`, `EnterFacts`). `ConfirmedOnce`
needs that no confirmation listens twice and that one which started an operation
listens no more (`Distinct`, `Fresh`), which the same induction carries through a
key press that several confirmations hear (`BulkInv`). Once one listener of the new DAG modal has sent the creation, the
button is disabled and the others send nothing, which is `OneSubmit`. `ReqInv` keeps
an answer that shows a token from meeting its own dialog.

### Graph editing

The prover has no induction over data, so the proof derives it: `Induction` (a set
with 0 that contains each successor is all of `Nat`) comes from the library's
`WFMin` applied to the numbers outside the set, `Recursion` (a recursive function
over `0 .. n` exists) from `Induction`, and `ThreadInduction` (what every step of a
loop keeps, at its place in the list, holds in the end) from both. Everything
about the algorithms is an instance of these three.

- `CycleExact`. A call of `visit` leaves the grey tasks as they were, blackens its
  own, and only adds black ones (`Visited`). As long as no cycle is reported the
  black tasks wait for black ones only, and no set of them wait for one another
  (`Done`); one is reported only when the tasks on the stack form a chain that
  comes back (`Chain`). `Works` says this of the calls at one depth for every
  marking with fewer white tasks than the depth, and is proved depth by depth.
- `LayoutSound`. A pass of `topoOrder` appends a task unless those left wait for
  one another (`SomeReady`), so as many passes as tasks list all of them. The
  levels follow the shape of the search: a task whose level is set has it beyond
  those of its dependencies (`Layered`), and without a cycle no call meets a task
  on its own stack.
- `StaysSound`. One lemma per edit of a list says what it does to ids,
  dependencies and cycles: a dependency dropped, a task added that nobody waits
  for, a task and the dependencies on it removed, a task renamed together with the
  dependencies on it, which keeps cycles only if the new id is unused and each
  dependency is listed once. Every action is then one of four kinds of step
  (`Held`, `Saved`, `Mutated`, `Discarded`).
- `DiffFaithful`. The walk of `diffLines` keeps that its rows are the first lines
  of both sides, and that the rows kept so far plus the table's entry for what is
  left make the entry for the whole (`Told`). That no matching is larger is by
  induction over the entries (`Bounded`): with equal first lines at most one
  match is not further down on both sides, and with different ones no match uses
  the first line of one of the two sides.

`Inv` adds that the lists are well-formed with unique ids, that the page, the picked
node and the pending session fit them, and that a snapshot is kept exactly while
changes are pending.

### Only model-checked

Liveness under fairness: `AttemptResolves`, `RunEnds`, `TriggerDelivered`,
`LoserStops`, `Takeover`, `QueuedStarts`, `DueIsCreated`, `EditLands`,
`ExpiryNoticed`, `PollsEnd`, `EndDrawn`. `CancelNotClobbered` is false. Every other
property of a run is stated by a theorem. The invariants named above are listed by
no run of their own: the theorems cover them.

## 5. Not modelled, and the plan

Planned, in this order:

1. *Admission* of tasks: counted slots, pools and budgets in `admitReady`, and
   joins of several upstream DAGs in `triggerDownstreams`.
2. *WorkerHub*: sessions, assignments, task events, reconnection, failover and
   boot grace, with lost and late messages; implements the executor of TaskAttempt.
3. *Executor*: the state files with which a restarted executor finds its
   processes again.
4. *Subdag*: child runs, their cancel cascade and recovery.
5. *Registry*: registration, reload, pause and delete, which race today only
   inside RunQueue and without reload.
6. Pure functions: `retryDelay` with its 64-bit arithmetic, `downstreamClosure`.
7. Proofs: the modules above, when they exist; in the modules there are, only
   liveness is left.

Behaviours these would cover, and which no property is about yet: budgets counted
once per tick (`scheduler.go:1522`), the bounded window of queued runs (1313), an
output stored after the success row (2576), the shifted retry delay (943), the
recovery of a sub-workflow's ref (2735), a reload that undoes a delete (247), and
a worker's reconnection and failover (`hub.go:198`, 248).

Of the console the following is left out: the wizard (`builder.js:307-512`), a
form whose last step creates a DAG as the new DAG modal does; the schedule form
and its preview; pan and zoom (`base.js:938-1047`); the pill editor of commands
(`views.js:1361-1816`), which is text and cursor handling; the project upload
(1914-2057); the rows the resource tabs keep in memory; the quick-jump menu; the
dictionary of translations; and the vendored `redoc.standalone.js`.

Not planned: notifications, templates, parser, authentication, certificates,
HTTP and MCP plumbing, operators run inside tasks, and the command line. They are
I/O, data conversion or request checks around the modelled operations;
`PROJECT.json` lists each with its reason.
