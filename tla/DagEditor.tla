----------------------------- MODULE DagEditor -----------------------------
(***************************************************************************)
(* The console's DAG editor: the in-memory model D, the debounced and      *)
(* serialized save pipeline (saveTimer, saveInflight, savePending,         *)
(* deleting), the graph editing session, navigation between DAGs, trigger  *)
(* and delete, and the server's compare-and-swap on the definition hash.   *)
(*                                                                         *)
(* JavaScript runs one callback at a time: an action here is the code from *)
(* one await to the next.  A request is sent by one action, handled by the *)
(* server in others, and its answer is applied by a callback of its own.   *)
(***************************************************************************)
EXTENDS Naturals, FiniteSets

CONSTANTS
    Dags,       \* the DAGs of the instance
    MaxEdits,   \* bound on the edits made in this tab
    MaxActs,    \* bound on what the user and another editor do
    MaxNavs,    \* bound on showDag calls waiting at the same time
    Faults      \* what may fail: "fetch", "save", "delete"

ASSUME EditorConstants == /\ Dags # {}
                          /\ MaxEdits \in Nat /\ MaxActs \in Nat /\ MaxNavs \in Nat
                          /\ Faults \subseteq {"fetch", "save", "delete"}

VARIABLES
    D,        \* the open DAG: id, content, CAS token, graphBase; or NoD (null)
    srv,      \* per DAG: the stored definition, whether it is live, another editor's
              \* save under way, and (history) what this tab stored last
    timer,    \* saveTimer: null, armed, or a handle whose callback already ran
    inflight, \* saveInflight
    pending,  \* savePending
    deleting,
    posts,    \* the outstanding POST /api/dags/build requests
    view,     \* "dags" or "dag" (a task page is part of its DAG's)
    page,     \* what main.innerHTML shows: "list", "editor" or "error"
    navs,     \* the showDag calls that have not rendered yet
    trig,     \* a call that waits for the saves: trigger, YAML, duplicate
    del,      \* a deleteActiveDag call
    edits,    \* the number of edits made here, which also stamps each of them
    acts,     \* the number of actions of the user and of another editor
    asked,    \* history: the DAG and the stamps of the last accepted saveDag
    last      \* history: how the last save of this tab ended

vars == <<D, srv, timer, inflight, pending, deleting, posts, view, page, navs, trig, del,
          edits, acts, asked, last>>
model == <<D, asked>>
pipeline == <<timer, inflight, pending, posts>>
calls == <<navs, trig, del>>
screen == <<view, page>>

(***************************************************************************)
(* A definition is abstracted to the stamp of the last edit of its         *)
(* settings, of its task forms and of its graph, whether validateDag finds *)
(* errors in its tasks or in its notify_url, and the number of another     *)
(* editor's saves it contains.                                             *)
(***************************************************************************)
Stamps == 0 .. MaxEdits
Content == [cfg : Stamps, task : Stamps, graph : Stamps, bad : BOOLEAN, badUrl : BOOLEAN,
            other : 0 .. MaxActs]
Fresh == [cfg |-> 0, task |-> 0, graph |-> 0, bad |-> FALSE, badUrl |-> FALSE, other |-> 0]
Hash(d, c) == <<d, c>>

NoD == [dag |-> "null"]
NoBase == [none |-> TRUE]
NoCall == [pc |-> "none"]
NotAsked == [dag |-> "none"]

validateDag(c) == ~c.bad /\ ~c.badUrl
\* The model showDag builds from an answer, and the request a save sends.
OpenedD(d, c) == [dag |-> d, c |-> c, hash |-> Hash(d, c), base |-> NoBase]
dagSpecFrom(d) == [dag |-> d.dag, c |-> d.c, hash |-> d.hash, res |-> "sent"]

\* Types: the model, the pipeline's flags, the requests and the pages.
TypeOK ==
    /\ D = NoD \/ (/\ D.dag \in Dags /\ D.c \in Content
                   /\ D.hash \in Dags \X Content
                   /\ D.base = NoBase \/ D.base \in Content)
    /\ \A d \in Dags : /\ srv[d].c \in Content /\ srv[d].live \in BOOLEAN
                       /\ srv[d].rival = NoBase \/ srv[d].rival \in Content
                       /\ srv[d].mine \in [cfg : Stamps, task : Stamps]
    /\ timer \in {"none", "armed", "stale"}
    /\ {inflight, pending, deleting} \subseteq BOOLEAN
    /\ posts \subseteq [dag : Dags, c : Content, hash : Dags \X Content,
                        res : {"sent", "checked", "ok", "conflict", "failed"}]
    /\ view \in {"dags", "dag"} /\ page \in {"list", "editor", "error"}
    /\ \A n \in navs : n.dag \in Dags /\ n.pc \in {"flush", "fetch", "got"}
    /\ edits \in Stamps /\ acts \in 0 .. MaxActs /\ last \in {"none", "ok", "error", "thrown"}

Init ==
    /\ D = NoD
    /\ srv = [d \in Dags |-> [c |-> Fresh, live |-> TRUE, rival |-> NoBase,
                              mine |-> [cfg |-> 0, task |-> 0]]]
    /\ timer = "none" /\ inflight = FALSE /\ pending = FALSE /\ deleting = FALSE
    /\ posts = {} /\ view = "dags" /\ page = "list"
    /\ navs = {} /\ trig = NoCall /\ del = NoCall
    /\ edits = 0 /\ acts = 0 /\ asked = NotAsked /\ last = "none"
-----------------------------------------------------------------------------
(***************************************************************************)
(* The save pipeline.                                                      *)
(***************************************************************************)

\* saveDag, called with the edited model d.  An edit that is not accepted
\* leaves an armed timer armed.
saveDag(d) ==
    \/ /\ deleting \/ ~validateDag(d.c)
       /\ D' = d /\ UNCHANGED <<timer, asked>>
    \/ /\ ~deleting /\ validateDag(d.c)
       /\ D' = [d EXCEPT !.base = NoBase]
       /\ timer' = "armed"
       /\ asked' = [dag |-> d.dag, cfg |-> d.c.cfg, task |-> d.c.task]

\* Mutant: the flag of a save in flight is not looked at.
flushSaveOverlaps ==
    /\ inflight' = TRUE /\ UNCHANGED <<pending, last>>
    /\ posts' = IF D = NoD \/ deleting THEN posts ELSE posts \cup {dagSpecFrom(D)}
\* flushSave up to its await: the request carries the model of the moment.
\* With D = null computeSchedule throws, and saveInflight stays set.
flushSave ==
    \/ deleting /\ UNCHANGED <<inflight, pending, posts, last>>
    \/ ~deleting /\ inflight /\ pending' = TRUE /\ UNCHANGED <<inflight, posts, last>>
    \/ /\ ~deleting /\ ~inflight /\ D = NoD
       /\ inflight' = TRUE /\ last' = "thrown" /\ UNCHANGED <<pending, posts>>
    \/ /\ ~deleting /\ ~inflight /\ D # NoD
       /\ inflight' = TRUE /\ posts' = posts \cup {dagSpecFrom(D)}
       /\ UNCHANGED <<pending, last>>

\* Mutant: the timer is cleared and not flushed.
flushPendingSavesForgets == timer' = "none" /\ UNCHANGED <<inflight, pending, posts, last>>
\* The start of flushPendingSaves: a handle that is not null is cleared and
\* flushed, also the stale one of a timer that already fired.
flushPendingSaves ==
    \/ timer # "none" /\ timer' = "none" /\ flushSave
    \/ timer = "none" /\ UNCHANGED <<pipeline, last>>
Throws == timer # "none" /\ D = NoD /\ ~deleting /\ ~inflight

\* Mutant: the timer fires and nothing is sent.
TimerFiresIdle ==
    /\ timer = "armed"
    /\ timer' = "stale"
    /\ UNCHANGED <<model, srv, inflight, pending, posts, deleting, screen, calls, edits, last>>
\* The debounce timer fires; saveTimer keeps the handle.
TimerFires ==
    /\ timer = "armed"
    /\ timer' = "stale"
    /\ flushSave
    /\ UNCHANGED <<model, srv, deleting, screen, calls, edits>>

\* buildDAG on the server first compares the token with the stored
\* definition of a live DAG, then writes: a deleted DAG counts as new, and
\* the definition is written to whatever is stored by then.
Answered(p, r) == posts' = (posts \ {p}) \cup {[p EXCEPT !.res = r]}
ServerChecks(p) ==
    /\ p.res = "sent"
    /\ \/ /\ ~srv[p.dag].live \/ Hash(p.dag, srv[p.dag].c) = p.hash
          /\ Answered(p, IF validateDag(p.c) THEN "checked" ELSE "failed")
       \/ /\ srv[p.dag].live /\ Hash(p.dag, srv[p.dag].c) # p.hash
          /\ Answered(p, "conflict")
       \/ "save" \in Faults /\ Answered(p, "failed")
    /\ UNCHANGED <<model, srv, timer, inflight, pending, deleting, screen, calls, edits, last>>
ServerStores(p) ==
    /\ p.res = "checked"
    /\ Answered(p, "ok")
    /\ srv' = [srv EXCEPT ![p.dag] = [c |-> p.c, live |-> TRUE, rival |-> @.rival,
                                       mine |-> [cfg |-> p.c.cfg, task |-> p.c.task]]]
    /\ UNCHANGED <<model, timer, inflight, pending, deleting, screen, calls, edits, last>>

\* flushSave after its await: whatever D is now adopts the token, and the
\* finally block re-issues a save that was asked for meanwhile.
Adopted(p) == IF p.res = "ok" /\ D # NoD THEN [D EXCEPT !.hash = Hash(p.dag, p.c)] ELSE D
Reissues == pending /\ ~deleting
SaveAnswer(p) ==
    /\ p.res \in {"ok", "conflict", "failed"}
    /\ D' = Adopted(p)
    /\ last' = IF Reissues /\ D' = NoD THEN "thrown"
               ELSE IF p.res = "ok" THEN "ok" ELSE "error"
    /\ pending' = FALSE
    /\ inflight' = Reissues
    /\ posts' = (posts \ {p}) \cup (IF Reissues /\ D' # NoD THEN {dagSpecFrom(D')} ELSE {})
    /\ UNCHANGED <<srv, timer, deleting, screen, calls, edits, asked>>
-----------------------------------------------------------------------------
(***************************************************************************)
(* What the user does on the editor page.                                  *)
(***************************************************************************)
Editing == page = "editor" /\ D # NoD
CanEdit == Editing /\ edits < MaxEdits
Stamp == edits + 1

\* A settings field changes D.dag, of which notify_url may be refused, and
\* calls saveDag.
EditSettings(bad) ==
    /\ CanEdit
    /\ edits' = Stamp
    /\ saveDag([D EXCEPT !.c.cfg = Stamp, !.c.badUrl = bad])
    /\ UNCHANGED <<srv, inflight, pending, deleting, posts, screen, calls, last>>

\* A choice of the task form, addTask, deleteTask, renameActiveTask and
\* duplicateTask change D.tasks, which may leave a task invalid, and call
\* saveDag.
EditTask(bad) ==
    /\ CanEdit
    /\ edits' = Stamp
    /\ saveDag([D EXCEPT !.c.task = Stamp, !.c.bad = bad])
    /\ UNCHANGED <<srv, inflight, pending, deleting, posts, screen, calls, last>>

\* A text field of the task form changes D.tasks with every key and calls
\* saveDag when the focus leaves it.
TypeTask(bad) ==
    /\ CanEdit
    /\ edits' = Stamp
    /\ D' = [D EXCEPT !.c.task = Stamp, !.c.bad = bad]
    /\ UNCHANGED <<srv, pipeline, deleting, screen, calls, asked, last>>
BlurTask ==
    /\ Editing /\ saveDag(D)
    /\ UNCHANGED <<srv, inflight, pending, deleting, posts, screen, calls, edits, last>>

\* graphMutate: the first change of a session snapshots D.tasks.
graphMutate ==
    /\ CanEdit
    /\ edits' = Stamp
    /\ D' = [D EXCEPT !.base = IF @ = NoBase THEN D.c ELSE @, !.c.graph = Stamp]
    /\ UNCHANGED <<srv, pipeline, deleting, screen, calls, asked, last>>

graphSaveSession ==
    /\ Editing /\ D.base # NoBase /\ validateDag(D.c)
    /\ saveDag([D EXCEPT !.base = NoBase])
    /\ UNCHANGED <<srv, inflight, pending, deleting, posts, screen, calls, edits, last>>

\* graphDiscardSession restores D.tasks; the settings are not part of it.
graphDiscardSession ==
    /\ Editing /\ D.base # NoBase
    /\ D' = [D EXCEPT !.base = NoBase, !.c = [D.base EXCEPT !.cfg = D.c.cfg, !.badUrl = D.c.badUrl]]
    /\ UNCHANGED <<srv, pipeline, deleting, screen, calls, edits, asked, last>>
-----------------------------------------------------------------------------
(***************************************************************************)
(* Navigation: showDag and loadDags.                                       *)
(***************************************************************************)

\* History only: edits that are given up are no longer expected by a trigger.
GiveUp == /\ asked' = NotAsked
          /\ trig' = IF trig = NoCall THEN trig ELSE [trig EXCEPT !.asked = NotAsked]

\* showDag starts with the flush; when that throws the call is dropped.
showDag(d) ==
    /\ Cardinality(navs) < MaxNavs
    /\ flushPendingSaves
    /\ navs' = IF Throws THEN navs ELSE navs \cup {[dag |-> d, pc |-> "flush"]}
    /\ UNCHANGED <<model, srv, deleting, screen, trig, del, edits>>

\* while (saveInflight) await ...
NavFlushed(n) ==
    /\ n.pc = "flush" /\ ~inflight
    /\ navs' = (navs \ {n}) \cup {[n EXCEPT !.pc = "fetch"]}
    /\ UNCHANGED <<model, srv, pipeline, deleting, screen, trig, del, edits, last>>

NavServed(n) ==
    /\ n.pc = "fetch"
    /\ \E ok \in BOOLEAN :
        /\ ok \/ "fetch" \in Faults
        /\ navs' = (navs \ {n}) \cup
                   {[dag |-> n.dag, pc |-> "got", c |-> srv[n.dag].c,
                     ok |-> ok /\ srv[n.dag].live]}
    /\ UNCHANGED <<model, srv, pipeline, deleting, screen, trig, del, edits, last>>

\* The rest of showDag: an error and an archived DAG leave D = null.
NavApplied(n) ==
    /\ n.pc = "got"
    /\ navs' = navs \ {n}
    /\ view' = "dag"
    /\ D' = IF n.ok THEN OpenedD(n.dag, n.c) ELSE NoD
    /\ page' = IF n.ok THEN "editor" ELSE "error"
    /\ GiveUp
    /\ UNCHANGED <<srv, pipeline, deleting, del, edits, last>>

\* loadDags switches the view at once and the page when the overview
\* arrives; D stays in memory.
loadDags ==
    /\ view = "dag" /\ view' = "dags"
    /\ UNCHANGED <<model, srv, pipeline, deleting, page, calls, edits, last>>
renderDags ==
    /\ view = "dags" /\ page # "list"
    /\ page' = "list"
    /\ UNCHANGED <<model, srv, pipeline, deleting, view, calls, edits, last>>
-----------------------------------------------------------------------------
(***************************************************************************)
(* Trigger and delete.                                                     *)
(***************************************************************************)

\* triggerActiveDag, openYamlDrawer and duplicateActiveDag wait for the
\* saves and then name the DAG that D holds by then.
triggerActiveDag ==
    /\ Editing /\ trig = NoCall
    /\ flushPendingSaves
    /\ trig' = [pc |-> "flush", asked |-> asked]
    /\ UNCHANGED <<model, srv, deleting, screen, navs, del, edits>>
TriggerPost ==
    /\ trig # NoCall /\ ~inflight
    /\ trig' = NoCall
    /\ UNCHANGED <<model, srv, pipeline, deleting, screen, navs, del, edits, last>>

\* deleteActiveDag up to its confirm dialog, and after it.
deleteActiveDag ==
    /\ Editing /\ del = NoCall
    /\ del' = [pc |-> "confirm", dag |-> D.dag]
    /\ UNCHANGED <<model, srv, pipeline, deleting, screen, navs, trig, edits, last>>
DeleteDismissed ==
    /\ del.pc = "confirm" /\ del' = NoCall
    /\ UNCHANGED <<model, srv, pipeline, deleting, screen, navs, trig, edits, last>>
DeleteConfirmed ==
    /\ del.pc = "confirm"
    /\ deleting' = TRUE /\ timer' = "none" /\ pending' = FALSE
    /\ del' = [del EXCEPT !.pc = "wait"]
    /\ GiveUp
    /\ UNCHANGED <<D, srv, inflight, posts, screen, navs, edits, last>>
DeleteSent ==
    /\ del.pc = "wait" /\ ~inflight
    /\ del' = [del EXCEPT !.pc = "sent"]
    /\ UNCHANGED <<model, srv, pipeline, deleting, screen, navs, trig, edits, last>>
ServerDelete ==
    /\ del.pc = "sent"
    /\ \E ok \in BOOLEAN :
        /\ ok \/ "delete" \in Faults
        /\ srv' = IF ok THEN [srv EXCEPT ![del.dag].live = FALSE] ELSE srv
        /\ del' = [del EXCEPT !.pc = IF ok THEN "done" ELSE "failed"]
    /\ UNCHANGED <<model, pipeline, deleting, screen, navs, trig, edits, last>>
\* loadDags starts, and the latch is released at once.
DeleteAnswer ==
    /\ del.pc \in {"done", "failed"}
    /\ view' = IF del.pc = "done" THEN "dags" ELSE view
    /\ del' = NoCall /\ deleting' = FALSE
    /\ UNCHANGED <<model, srv, pipeline, page, navs, trig, edits, last>>

\* Another editor's buildDAG, in its two steps.  It passes the comparison with
\* a change of what is stored, or without a token (cronova apply) with a
\* definition that has none of this tab's edits; a deleted DAG is revived.
OtherChecks(d) ==
    /\ srv[d].rival = NoBase
    /\ \E c \in {srv[d].c, Fresh} :
          srv' = [srv EXCEPT ![d].rival = [c EXCEPT !.other = srv[d].c.other + 1]]
    /\ UNCHANGED <<model, pipeline, deleting, screen, calls, edits, last>>
OtherStores(d) ==
    /\ srv[d].rival # NoBase
    /\ srv' = [srv EXCEPT ![d] = [c |-> @.rival, live |-> TRUE, rival |-> NoBase,
                                  mine |-> @.mine]]
    /\ UNCHANGED <<model, pipeline, deleting, screen, calls, edits, last>>
-----------------------------------------------------------------------------
Saving == TimerFires \/ \E p \in posts : ServerChecks(p) \/ ServerStores(p) \/ SaveAnswer(p)
Loading == renderDags \/ \E n \in navs : NavFlushed(n) \/ NavServed(n) \/ NavApplied(n)
Deleting == DeleteSent \/ ServerDelete \/ DeleteAnswer

\* What the pages and tabs of the editor offer.
DagPage == triggerActiveDag \/ loadDags
SettingsTab == (\E bad \in BOOLEAN : EditSettings(bad)) \/ deleteActiveDag
StructureTab == \/ \E bad \in BOOLEAN : EditTask(bad)
                \/ graphMutate \/ graphSaveSession \/ graphDiscardSession
TaskPage == \/ \E bad \in BOOLEAN : EditTask(bad) \/ TypeTask(bad)
            \/ BlurTask \/ loadDags
NovicePage == \/ \E bad \in BOOLEAN : EditSettings(bad) \/ EditTask(bad)
              \/ triggerActiveDag \/ deleteActiveDag \/ loadDags

User == \/ DagPage \/ SettingsTab \/ StructureTab \/ TaskPage \/ NovicePage
        \/ DeleteDismissed \/ DeleteConfirmed
        \/ \E d \in Dags : showDag(d) \/ OtherChecks(d)

Machine == Saving \/ Loading \/ TriggerPost \/ Deleting \/ \E d \in Dags : OtherStores(d)
Next == \/ Machine /\ UNCHANGED acts
        \/ User /\ acts < MaxActs /\ acts' = acts + 1
Spec == Init /\ [][Next]_vars

\* Timers fire and every request is answered or fails; the user and the other
\* editor owe nothing.
FairSpec == /\ Spec
            /\ WF_vars(Saving /\ UNCHANGED acts) /\ WF_vars(Loading /\ UNCHANGED acts)
            /\ WF_vars(TriggerPost /\ UNCHANGED acts) /\ WF_vars(Deleting /\ UNCHANGED acts)
-----------------------------------------------------------------------------
\* This tab has stored the edits a in d.
Landed(a, d) == srv[d].mine.cfg >= a.cfg /\ srv[d].mine.task >= a.task

\* Saves are serialized: at most one request is outstanding, and only under
\* saveInflight (flushSave, savePending).
SerialSaves == (\A p, q \in posts : p = q) /\ (posts # {} => inflight)

\* When the DELETE is on its way no save is, so none can revive the DAG
\* behind it (deleteActiveDag's latch against timers and re-issued saves).
DeleteSticks == del.pc = "sent" => posts = {} /\ deleting

\* What every step of the pipeline, of navigation and of the user keeps.
EditorInv == TypeOK /\ SerialSaves /\ DeleteSticks

\* A trigger waits for the saves: when the run is requested, what this tab has
\* stored last has every edit saveDag accepted before the click, unless its
\* save failed, the DAG was deleted or the page was replaced meanwhile.  Only
\* another editor's save may have replaced that definition since: one without
\* a token, or one compared before this tab's was written.
TriggerFresh ==
    [][TriggerPost /\ trig.asked # NotAsked /\ last # "error"
         => Landed(trig.asked, trig.asked.dag)]_vars

\* An edit that saveDag accepted gets stored (another editor's save may replace
\* it later), is refused with an error, or is given up with the page that made
\* it (showDag, deleteActiveDag), unless a save of a null model latched
\* saveInflight before.
EditLands ==
    (asked # NotAsked) ~> \/ asked = NotAsked \/ last \in {"error", "thrown"}
                          \/ Landed(asked, asked.dag)
=============================================================================
