----------------------------- MODULE GraphEdit -----------------------------
(***************************************************************************)
(* Editing the task graph of the open DAG: two-click connections, drops,   *)
(* the edge menu, the dependency chips of the task page, adding, copying,  *)
(* renaming and deleting tasks, the pending session with its diff, and the *)
(* algorithms these rest on: hasCycle, topoOrder and the layering of       *)
(* renderGraph; GraphDiff adds diffLines.                                  *)
(*                                                                         *)
(* A handler runs to its end in one step.  deleteTask and addTaskFromGraph *)
(* first await a dialog: their step is what follows the answer, and it may *)
(* find any page open and any task gone.  How the saves asked for reach    *)
(* the server is DagEditor's subject.  Not modelled: the stubs of          *)
(* cross-DAG waits, which only decorate the drawing, and an answer that    *)
(* comes after another DAG was opened.                                     *)
(***************************************************************************)
EXTENDS Integers, FiniteSets, SequencesExt

CONSTANTS
    Names,      \* the ids a task may be given
    InitGraphs, \* the saved definitions the editor may be opened on
    MaxOps      \* bound on the edits

null == "null"
Task == [id : Names, deps : Seq(Names), ok : BOOLEAN]
blankTask(id, deps, ok) == [id |-> id, deps |-> deps, ok |-> ok]

Ids(ts) == {ts[i].id : i \in DOMAIN ts}
At(ts, id) == CHOOSE i \in DOMAIN ts : ts[i].id = id
Deps(ts, id) == ts[At(ts, id)].deps
WithDeps(ts, id, deps) == [ts EXCEPT ![At(ts, id)].deps = deps]

\* A graph has a cycle when some tasks all wait for one another.
Acyclic(ts) ==
    ~\E S \in (SUBSET Ids(ts)) \ {{}} : \A n \in S : ToSet(Deps(ts, n)) \cap S # {}
Closed(ts) == \A i \in DOMAIN ts : ToSet(ts[i].deps) \subseteq Ids(ts)
Distinct(ts) == \A i \in DOMAIN ts : IsInjective(ts[i].deps)
Sound(ts) == Closed(ts) /\ Acyclic(ts) /\ Distinct(ts)
Unique(ts) == \A i, j \in DOMAIN ts : ts[i].id = ts[j].id => i = j

\* What the server has stored its parser has accepted: ids are unique, every
\* dependency is known and listed once, and there is no cycle.
ASSUME GraphConstants ==
    /\ {null, "structure"} \cap Names = {} /\ MaxOps \in Nat
    /\ \A ts \in InitGraphs : ts \in Seq(Task) /\ Unique(ts) /\ Sound(ts)

VARIABLES
    tasks,     \* D.tasks
    base,      \* D.graphBase: the snapshot a discard restores, as a set; {} for none
    dirty,     \* D.graphDirty
    pending,   \* D.graphPending: the node a two-click connection starts from
    connect,   \* D.connectMode
    page,      \* "structure", or the id of the task whose page is open
    stored,    \* what the last accepted saveDag asked the server to store
    ops

vars == <<tasks, base, dirty, pending, connect, page, stored, ops>>
session == <<base, dirty>>

-----------------------------------------------------------------------------
\* A list handled from its head: FoldLeft, over a step given as a function.
Thread(step, x, s) ==
    LET a[i \in 0 .. Len(s)] == IF i = 0 THEN x ELSE step[a[i - 1]][s[i]] IN a[Len(s)]
Filter(s, T) ==
    Thread([f \in Seq(ToSet(s)) |-> [e \in ToSet(s) |-> IF e \in T THEN Append(f, e) ELSE f]], <<>>, s)

(***************************************************************************)
(* hasCycle: a depth-first search with colours, from every task in turn.   *)
(* 0 is unvisited, 1 on the stack, 2 finished; unknown deps are skipped.   *)
(***************************************************************************)
Marks(ts) == [color : [Ids(ts) -> 0 .. 2], cyc : BOOLEAN]
\* Mutant: a finished task keeps the colour of the stack.
visitTwoColors(ts, deeper, id, st) ==
    IF st.color[id] = 1 THEN [st EXCEPT !.cyc = TRUE]
    ELSE Thread([s \in Marks(ts) |-> [d \in ToSet(Deps(ts, id)) |->
                    IF d \in Ids(ts) THEN deeper[d][s] ELSE s]],
                [st EXCEPT !.color[id] = 1], Deps(ts, id))
visit(ts, deeper, id, st) ==
    IF st.color[id] = 1 THEN [st EXCEPT !.cyc = TRUE]
    ELSE IF st.color[id] = 2 THEN st
    ELSE LET down == Thread([s \in Marks(ts) |-> [d \in ToSet(Deps(ts, id)) |->
                                IF d \in Ids(ts) THEN deeper[d][s] ELSE s]],
                            [st EXCEPT !.color[id] = 1], Deps(ts, id))
         IN  [down EXCEPT !.color[id] = 2]
\* The calls of visit by their depth.  Every call on the stack has coloured a
\* task of its own, so the innermost one is never reached.
Depth(ts) == Cardinality(Ids(ts)) + 1
visits(ts) ==
    LET v[k \in 0 .. Depth(ts)] ==
            [id \in Ids(ts) |-> [st \in Marks(ts) |-> IF k = 0 THEN st ELSE visit(ts, v[k - 1], id, st)]]
    IN  v[Depth(ts)]
hasCycle(ts) ==
    Thread([s \in Marks(ts) |-> [t \in ToSet(ts) |-> IF s.color[t.id] = 0 THEN visits(ts)[t.id][s] ELSE s]],
           [color |-> [n \in Ids(ts) |-> 0], cyc |-> FALSE], ts).cyc

\* validateDag: no task without its command, no cycle (ids are never empty
\* here, and never shared: UniqueIds).
validateDag(ts) == (\A i \in DOMAIN ts : ts[i].ok) /\ ~hasCycle(ts)

\* The tasks dagSpecFrom sends: dependencies on unknown tasks are dropped.
Known(ts, deps) == Filter(deps, Ids(ts))
specTasks(ts) == [i \in DOMAIN ts |-> [ts[i] EXCEPT !.deps = Known(ts, ts[i].deps)]]

\* topoOrder: passes over the list, each of which appends the tasks whose
\* dependencies are all done; what a cycle keeps out comes last.
Ready(ts, out, t) == /\ ~Contains(out, t)
                     /\ \A d \in ToSet(t.deps) : d \in Ids(out) \/ d \notin Ids(ts)
Pass(ts, out) ==
    Thread([o \in Seq(ToSet(ts)) |-> [t \in ToSet(ts) |-> IF Ready(ts, o, t) THEN Append(o, t) ELSE o]], out, ts)
Rest(ts, out) == out \o Filter(ts, ToSet(ts) \ ToSet(out))
\* Mutant: a single pass over the list.
topoOrderOnePass(ts) == Rest(ts, Pass(ts, <<>>))
topoOrder(ts) == Rest(ts, Thread([o \in Seq(ToSet(ts)) |-> [t \in ToSet(ts) |-> Pass(ts, o)]], <<>>, ts))

\* The layering of renderGraph: lvl memoizes the level of a task in m.level
\* and gives 0 to one it meets again below itself; m.v is the value returned,
\* m.top the greatest one of the dependencies so far.
Unset == -1
Levels(ts) == [v : Nat, level : [Ids(ts) -> Nat \cup {Unset}], seen : SUBSET Ids(ts), top : Nat]
lvl(ts, deeper, id, m) ==
    IF m.level[id] # Unset THEN [m EXCEPT !.v = m.level[id]]
    ELSE IF id \in m.seen THEN [m EXCEPT !.v = 0]
    ELSE LET deps == Known(ts, Deps(ts, id))
             down == Thread([s \in Levels(ts) |-> [d \in Ids(ts) |->
                                LET r == deeper[d][s] IN [r EXCEPT !.top = IF r.v > s.top THEN r.v ELSE s.top]]],
                            [m EXCEPT !.seen = @ \cup {id}, !.top = 0], deps)
             v == IF deps = <<>> THEN 0 ELSE 1 + down.top
         IN  [v |-> v, level |-> [down.level EXCEPT ![id] = v], seen |-> down.seen, top |-> m.top]
lvls(ts) ==
    LET v[k \in 0 .. Depth(ts)] ==
            [id \in Ids(ts) |-> [m \in Levels(ts) |-> IF k = 0 THEN m ELSE lvl(ts, v[k - 1], id, m)]]
    IN  v[Depth(ts)]
graphLevels(ts) ==
    Thread([m \in Levels(ts) |-> [t \in ToSet(ts) |-> lvls(ts)[t.id][[m EXCEPT !.seen = {}]]]],
           [v |-> 0, level |-> [n \in Ids(ts) |-> Unset], seen |-> {}, top |-> 0], ts).level
-----------------------------------------------------------------------------

\* The ids a new task can be given.
Unused == Names \ Ids(tasks)

\* Types: lists of tasks, at most one snapshot, one task page.
TypeOK ==
    /\ {tasks, stored} \cup base \subseteq Seq(Task)
    /\ IsFiniteSet(base) /\ Cardinality(base) <= 1 /\ (base = {} <=> dirty = 0)
    /\ dirty \in 0 .. MaxOps /\ connect \in BOOLEAN /\ ops \in 0 .. MaxOps
    /\ pending \in Names \cup {null} /\ page \in Ids(tasks) \cup {"structure"}

Init ==
    /\ stored \in InitGraphs /\ tasks = stored
    /\ base = {} /\ dirty = 0 /\ pending = null /\ connect = FALSE
    /\ page = "structure" /\ ops = 0

\* saveDag, called with the edited list: an invalid one is held.
saveDag(ts) ==
    /\ tasks' = ts
    /\ \/ validateDag(ts) /\ base' = {} /\ dirty' = 0 /\ stored' = specTasks(ts)
       \/ ~validateDag(ts) /\ UNCHANGED <<session, stored>>

\* graphMutate: the first change of a session keeps a snapshot.
graphMutate(ts) ==
    /\ tasks' = ts /\ base' = IF base = {} THEN {tasks} ELSE base
    /\ dirty' = dirty + 1 /\ UNCHANGED stored
Unedited == UNCHANGED <<tasks, session, stored>>

\* graphToggleDep: the cycle check runs on the list with the new dependency.
Added(up, down) == WithDeps(tasks, down, Append(Deps(tasks, down), up))
graphToggleDep(up, down, allowRemove) ==
    LET deps == Deps(tasks, down) IN
    \/ Contains(deps, up) /\ allowRemove /\ graphMutate(WithDeps(tasks, down, RemoveFirst(deps, up)))
    \/ Contains(deps, up) /\ ~allowRemove /\ Unedited
    \/ ~Contains(deps, up) /\ hasCycle(Added(up, down)) /\ Unedited
    \/ ~Contains(deps, up) /\ ~hasCycle(Added(up, down)) /\ graphMutate(Added(up, down))
\* graphDropAllowed: what the drag paints over the node it hovers.
graphDropAllowed(up, down) ==
    up # down /\ ~Contains(Deps(tasks, down), up) /\ ~hasCycle(Added(up, down))

\* onGraphNodeActivate, by click or key.
OpensTask(id, shift) ==
    /\ ~connect /\ ~shift /\ pending = null
    /\ page' = id /\ Unedited /\ UNCHANGED pending
PicksFirst(id, shift) ==
    /\ connect \/ shift
    /\ pending = null /\ pending' = id /\ Unedited /\ UNCHANGED page
PicksAgain(id) == pending = id /\ pending' = null /\ Unedited /\ UNCHANGED page
PicksSecond(id) ==
    /\ pending \notin {null, id}
    /\ pending' = null /\ graphToggleDep(pending, id, TRUE) /\ UNCHANGED page
onGraphNodeActivate(id, shift) ==
    /\ page = "structure"
    /\ OpensTask(id, shift) \/ PicksFirst(id, shift) \/ PicksAgain(id) \/ PicksSecond(id)
    /\ UNCHANGED connect
toggleConnect ==
    /\ page = "structure" /\ connect' = ~connect /\ pending' = null
    /\ Unedited /\ UNCHANGED page

\* startEdgeDrag: a drop on another node; the edge menu: removing an edge.
startEdgeDrag(up, down) ==
    /\ page = "structure" /\ up # down
    /\ graphToggleDep(up, down, FALSE)
    /\ UNCHANGED <<pending, connect, page>>
showEdgeMenu(up, down) ==
    /\ page = "structure" /\ Contains(Deps(tasks, down), up)
    /\ graphToggleDep(up, down, TRUE)
    /\ UNCHANGED <<pending, connect, page>>

\* New tasks: from the graph's toolbar (pending, once its prompt is answered,
\* on whatever page), from the list (saved, which the missing command holds), a
\* copy, and the beginner's next step, which waits for the last one in order.
addTaskFromGraph(id) ==
    /\ id \in Unused
    /\ graphMutate(Append(tasks, blankTask(id, <<>>, TRUE)))
    /\ page' = "structure" /\ UNCHANGED <<pending, connect>>
addTask(id) ==
    /\ page = "structure" /\ id \in Unused
    /\ saveDag(Append(tasks, blankTask(id, <<>>, FALSE)))
    /\ page' = id /\ UNCHANGED <<pending, connect>>
duplicateTask(src, id) ==
    /\ page = "structure" /\ id \in Unused
    /\ saveDag(Append(tasks, [tasks[At(tasks, src)] EXCEPT !.id = id]))
    /\ UNCHANGED <<pending, connect, page>>
nvAddStep(id) ==
    /\ page = "structure" /\ id \in Unused
    /\ saveDag(Append(tasks, blankTask(id, IF tasks = <<>> THEN <<>> ELSE <<Last(topoOrder(tasks)).id>>, TRUE)))
    /\ UNCHANGED <<pending, connect, page>>

\* deleteTask, once confirmed: the dependencies on the task go with it.  The
\* question was asked earlier; the task may be gone and its own page open.
Without(ts, id) == Filter(ts, {t \in ToSet(ts) : t.id # id})
\* Mutant: the dependencies on the task stay.
deleteTaskKeepsDeps(id) ==
    /\ saveDag(Without(tasks, id))
    /\ page' = "structure" /\ UNCHANGED <<pending, connect>>
deleteTask(id) ==
    /\ LET left == Without(tasks, id)
       IN  saveDag([i \in DOMAIN left |->
                      [left[i] EXCEPT !.deps = Filter(@, Names \ {id})]])
    /\ page' = "structure" /\ UNCHANGED <<pending, connect>>

\* The task page: its command, a dependency chip (undone while there is a cycle:
\* a removal by adding the dependency again, last), and the id, which other
\* tasks' dependencies follow.
editCommand(ok) ==
    /\ page # "structure"
    /\ saveDag([tasks EXCEPT ![At(tasks, page)].ok = ok])
    /\ UNCHANGED <<pending, connect, page>>
depChip(dep) ==
    /\ page # "structure" /\ dep # page
    /\ LET deps == Deps(tasks, page)
           rest == RemoveFirst(deps, dep)
           ts == WithDeps(tasks, page, IF Contains(deps, dep) THEN rest ELSE Append(deps, dep))
       IN  \/ ~hasCycle(ts) /\ saveDag(ts)
           \/ hasCycle(ts) /\ ~Contains(deps, dep) /\ Unedited
           \/ /\ hasCycle(ts) /\ Contains(deps, dep)
              /\ tasks' = WithDeps(tasks, page, Append(rest, dep)) /\ UNCHANGED <<session, stored>>
    /\ UNCHANGED <<pending, connect, page>>
Renamed(ts, old, new) ==
    [i \in DOMAIN ts |->
        IF ts[i].id = old THEN [ts[i] EXCEPT !.id = new]
        ELSE IF Contains(ts[i].deps, old)
             THEN [ts[i] EXCEPT !.deps = ReplaceAt(@, SelectInSeq(@, LAMBDA d : d = old), new)]
             ELSE ts[i]]
\* Mutant: a name that is taken is accepted.
renameActiveTaskAliases(new) ==
    /\ page # "structure" /\ new # page
    /\ saveDag(Renamed(tasks, page, new)) /\ page' = new
    /\ UNCHANGED <<pending, connect>>
renameActiveTask(new) ==
    /\ page # "structure" /\ new \in Unused
    /\ saveDag(Renamed(tasks, page, new)) /\ page' = new
    /\ UNCHANGED <<pending, connect>>
gotoDagPage ==
    /\ page # "structure" /\ page' = "structure"
    /\ Unedited /\ UNCHANGED <<pending, connect>>
showTask(id) ==
    /\ page = "structure" /\ page' = id
    /\ Unedited /\ UNCHANGED <<pending, connect>>

\* The end of a session: saved when it is valid, or put back.
graphSaveSession ==
    /\ page = "structure" /\ dirty > 0
    /\ \/ ~validateDag(tasks) /\ Unedited /\ UNCHANGED pending
       \/ validateDag(tasks) /\ saveDag(tasks) /\ pending' = null
    /\ UNCHANGED <<connect, page>>
graphDiscardSession ==
    /\ page = "structure" /\ dirty > 0
    /\ tasks' \in base /\ base' = {} /\ dirty' = 0 /\ pending' = null
    /\ UNCHANGED <<stored, connect, page>>

Edits ==
    \/ \E id \in Ids(tasks), up \in Ids(tasks) :
          startEdgeDrag(up, id) \/ showEdgeMenu(up, id)
    \/ \E id \in Names : addTaskFromGraph(id) \/ addTask(id) \/ nvAddStep(id) \/ renameActiveTask(id) \/ deleteTask(id)
    \/ \E id \in Ids(tasks), new \in Names : duplicateTask(id, new)
    \/ \E id \in Ids(tasks) : depChip(id)
    \/ \E ok \in BOOLEAN : editCommand(ok)
    \/ \E id \in Ids(tasks), shift \in BOOLEAN : onGraphNodeActivate(id, shift)
Looks == toggleConnect \/ gotoDagPage \/ \E id \in Ids(tasks) : showTask(id)
Ends == graphSaveSession \/ graphDiscardSession
\* Only an edit that changes the list counts.
Next == \/ (Edits \/ Looks) /\ ops' = (IF tasks' = tasks THEN ops ELSE ops + 1) /\ ops' <= MaxOps
        \/ Ends /\ UNCHANGED ops
Spec == Init /\ [][Next]_vars
-----------------------------------------------------------------------------
\* No edit makes two tasks share an id, which renameActiveTask warns "would
\* alias two tasks to one id and corrupt find-by-id".
UniqueIds == \A ts \in {tasks, stored} \cup base : Unique(ts)

\* The search with colours finds exactly the cycles: in the list as it is, and
\* with any one dependency added, which is what the drag over a node shows and
\* what graphToggleDep then does.
CycleExact ==
    /\ hasCycle(tasks) <=> ~Acyclic(tasks)
    /\ \A up, down \in Ids(tasks) :
          up # down /\ ~Contains(Deps(tasks, down), up)
             => (graphDropAllowed(up, down) <=> Acyclic(Added(up, down)))

\* topoOrder lists every task once and, without a cycle, after what it waits
\* for; renderGraph draws every task to the right of its dependencies.
LayoutSound ==
    LET order == topoOrder(tasks)
        level == graphLevels(tasks)
        place == [n \in Ids(tasks) |-> SelectInSeq(order, LAMBDA t : t.id = n)]
    IN  /\ ToSet(order) = ToSet(tasks) /\ Len(order) = Len(tasks)
        /\ \A n \in Ids(tasks) : level[n] # Unset
        /\ Acyclic(tasks) => \A n \in Ids(tasks) : \A d \in ToSet(Known(tasks, Deps(tasks, n))) :
                                place[d] < place[n] /\ level[d] < level[n]

\* Editing keeps every dependency on an existing task and listed once, and the
\* graph without cycles, in the list and in the snapshot a discard restores.
\* The one exception is the second click of a two-click connection whose first
\* node is gone.
StaysSound ==
    [][(\A ts \in {tasks} \cup base : Sound(ts))
         => \/ \A ts \in {tasks'} \cup base' : Sound(ts)
            \/ pending \notin Ids(tasks) /\ \E id \in Ids(tasks) : PicksSecond(id)]_vars

\* What saveDag sends is a graph of known tasks without a cycle, also when the
\* list holds a dependency on a task that is gone (dagSpecFrom drops it).
StoredSound == Closed(stored) /\ Acyclic(stored)

\* What every edit keeps: the types, ids that name one task, and a stored
\* graph that is closed and without cycles.
GraphInv == TypeOK /\ UniqueIds /\ StoredSound
=============================================================================
