------------------------------ MODULE Dialogs ------------------------------
(***************************************************************************)
(* The console's dialogs, all of which draw into the one #modal-root and   *)
(* each of which listens for keys on the document, together with what they *)
(* start: confirmed operations, forms, tokens shown once, the new DAG      *)
(* modal, bulk operations on the dashboard and the filtered run history.   *)
(*                                                                         *)
(* No dialog looks whether another one is open, and nothing keeps the      *)
(* focus in it: the page behind stays operable, so a dialog may be drawn   *)
(* over another, whose listener then stays.  A key press runs every        *)
(* listener in the order of their registration.  An answer runs its        *)
(* continuation whatever is on the screen by then.                         *)
(***************************************************************************)
EXTENDS Naturals, FiniteSets, SequencesExt

CONSTANTS
    Rows,     \* the DAGs of the dashboard
    Filters,  \* the chips of the run history
    MaxActs,  \* bound on what the user does
    MaxReqs   \* bound on requests outstanding, and on run lists asked for

ASSUME DialogConstants ==
    IsFiniteSet(Rows) /\ Filters # {} /\ MaxActs \in Nat /\ MaxReqs \in Nat

VARIABLES
    root,     \* the dialog in #modal-root, or NoDialog
    keys,     \* the dialogs whose keydown listener is attached, oldest first
    nd,       \* the new DAG modal: its fields, once drawn
    reqs,     \* outstanding requests of dialogs and of the API page
    wiped,    \* history: dialogs drawn over, or cleared away by another's close
    sel,      \* bulkSel
    bulk,     \* the bulk operations running
    filter,   \* D.runFilter
    runs,     \* the filter D.runs was fetched with
    polling,  \* dagRunsPoll
    asks,     \* outstanding fetches of the run history
    asked,    \* the number of fetches so far
    acts

modal == <<root, keys, nd, reqs, wiped>>
history == <<filter, runs, polling, asks, asked>>
vars == <<modal, sel, bulk, history, acts>>

Kinds == {"confirm", "prompt", "step", "pick", "form", "mint", "reveal", "newdag"}
Dialog(kind, ids) == [kind |-> kind, ids |-> ids, n |-> acts]
NoDialog == [kind |-> "none", ids |-> {}, n |-> 0]
NoND == [adv |-> FALSE, pop |-> FALSE, valid |-> FALSE, disabled |-> TRUE, drawn |-> 0]

\* Types: one dialog at most in the root, and the bounds of the queues.
TypeOK ==
    /\ root = NoDialog \/ root.kind \in Kinds
    /\ \A i \in DOMAIN keys : keys[i].kind \in Kinds /\ keys[i].ids \subseteq Rows
    /\ nd \in [adv : BOOLEAN, pop : BOOLEAN, valid : BOOLEAN, disabled : BOOLEAN, drawn : 0 .. MaxActs]
    /\ \A r \in reqs : r.what \in {"form", "mint", "reveal", "list", "create"}
    /\ sel \subseteq Rows /\ \A b \in bulk : b.todo \subseteq Rows
    /\ {filter, runs} \subseteq Filters /\ polling \in BOOLEAN
    /\ \A a \in asks : a.f \in Filters /\ a.n \in 1 .. asked
    /\ acts \in 0 .. MaxActs

Init ==
    /\ root = NoDialog /\ keys = <<>> /\ nd = NoND /\ reqs = {} /\ wiped = {}
    /\ sel = {} /\ bulk = {}
    /\ filter \in Filters /\ runs = filter /\ polling \in BOOLEAN
    /\ asks = {} /\ asked = 0 /\ acts = 0
-----------------------------------------------------------------------------
(***************************************************************************)
(* Opening and closing.  Draws(d) replaces whatever the root shows.        *)
(***************************************************************************)
Covered == wiped \cup (IF root = NoDialog THEN {} ELSE {root})
Draws(d, ks) == root' = d /\ keys' = Append(ks, d)

\* From the page, or by a handler that goes on after an await: over whatever
\* dialog is there by then.
Opens(kind) ==
    /\ Draws(Dialog(kind, {}), keys) /\ wiped' = Covered
    /\ UNCHANGED <<nd, reqs, sel, bulk, history>>
confirmDialog == Opens("confirm")
promptDialog == Opens("prompt")
nvEditStepModal == Opens("step")
\* These hear Escape only; their buttons close them and go on without a wait.
pickDialog == Opens("pick")
triggerParamsDialog == Opens("pick")
\* These send a request and close with its answer.
backfillDialog == Opens("form")
connDialog == Opens("form")
groupDialog == Opens("form")
workerTokenDialog == Opens("mint")

\* What a dialog's close does: its own listener goes, and the root is emptied.
\* Mutant: the keydown listener stays.
closeKeepsListener(s, d) == [s EXCEPT !.root = NoDialog]
close(s, d) == [s EXCEPT !.root = NoDialog, !.keys = RemoveFirst(@, d)]

\* One listener handles Escape.  A new DAG modal that is gone unregisters; an
\* open cron help is hidden first.
\* Mutant: the listener goes with the cron help.
onEscapeOnce(s, d) ==
    IF d.kind # "newdag" THEN close(s, d)
    ELSE IF s.root.kind # "newdag" THEN [s EXCEPT !.keys = RemoveFirst(@, d)]
    ELSE IF s.nd.pop THEN [s EXCEPT !.nd.pop = FALSE, !.keys = RemoveFirst(@, d)]
    ELSE close(s, d)
onEscape(s, d) ==
    IF d.kind # "newdag" THEN close(s, d)
    ELSE IF s.root.kind # "newdag" THEN [s EXCEPT !.keys = RemoveFirst(@, d)]
    ELSE IF s.nd.pop THEN [s EXCEPT !.nd.pop = FALSE]
    ELSE close(s, d)
\* One listener handles Enter: confirm says yes, a prompt or a step's editor
\* reads the input of its kind that is drawn (and throws without one), the new DAG modal
\* submits while its button is enabled, the others ignore the key.
submitNewDag(s) == [s EXCEPT !.nd.disabled = TRUE, !.sent = @ + 1]
\* Mutant: the button is not looked at.
onEnterTwice(s, d) ==
    IF d.kind = "confirm" THEN [close(s, d) EXCEPT !.yes = @ \cup {d}]
    ELSE IF d.kind = "newdag" /\ s.root.kind = "newdag" THEN submitNewDag(s)
    ELSE s
onEnter(s, d) ==
    IF d.kind = "confirm" THEN [close(s, d) EXCEPT !.yes = @ \cup {d}]
    ELSE IF d.kind \in {"prompt", "step"} /\ s.root.kind = d.kind THEN close(s, d)
    ELSE IF d.kind = "newdag" /\ s.root.kind # "newdag" THEN [s EXCEPT !.keys = RemoveFirst(@, d)]
    ELSE IF d.kind = "newdag" /\ ~s.nd.disabled THEN submitNewDag(s)
    ELSE s

Screen == [root |-> root, keys |-> keys, nd |-> nd, yes |-> {}, sent |-> 0]
\* runBulk past its confirm: the ids are those ticked when it was clicked.
runBulk(d) == [todo |-> d.ids, n |-> d.n]
Confirmed(yes) == bulk' = bulk \cup {runBulk(d) : d \in {x \in yes : x.ids # {}}}
Shows(s) ==
    /\ root' = s.root /\ keys' = s.keys /\ nd' = s.nd
    /\ reqs' = reqs \cup {[what |-> "create", dlg |-> root, n |-> acts, c |-> i] : i \in 1 .. s.sent}
    /\ Confirmed(s.yes)

\* A key press runs the listeners it finds attached, the oldest first.
Press(onKey(_, _)) ==
    LET s[i \in 0 .. Len(keys)] == IF i = 0 THEN Screen ELSE onKey(s[i - 1], keys[i])
    IN  s[Len(keys)]
\* A dialog wiped before still hears the key, and empties the root for others.
Strays == ToSet(keys) \cap wiped
KeyEscape == /\ keys # <<>> /\ Shows(Press(onEscape))
             /\ wiped' = IF Strays = {} THEN wiped ELSE Covered
             /\ UNCHANGED <<sel, history>>
KeyEnter == /\ keys # <<>> /\ Shows(Press(onEnter))
            /\ wiped' = IF Strays = {} THEN wiped ELSE Covered
            /\ UNCHANGED <<sel, history>>
\* The buttons of the dialog on the screen, and a click beside it.
ClickCancel ==
    /\ root # NoDialog /\ Shows(close(Screen, root))
    /\ UNCHANGED <<wiped, sel, history>>
ClickOk ==
    /\ root.kind \in {"confirm", "prompt", "step", "pick", "reveal"}
    /\ Shows([close(Screen, root) EXCEPT !.yes = IF root.kind = "confirm" THEN {root} ELSE {}])
    /\ UNCHANGED <<wiped, sel, history>>
-----------------------------------------------------------------------------
(***************************************************************************)
(* Requests whose answer changes the screen: a form's save or backfill, a  *)
(* minted worker token, a created API token, the list newDagModal waits    *)
(* for, and the creation of a DAG.                                         *)
(***************************************************************************)
Request(what, d) == reqs' = reqs \cup {[what |-> what, dlg |-> d, n |-> acts, c |-> 1]}

FormSend ==
    /\ root.kind \in {"form", "mint"} /\ Cardinality(reqs) < MaxReqs
    /\ root.kind = "mint" => \A r \in reqs : r.dlg # root
    /\ Request(root.kind, root)
    /\ UNCHANGED <<root, keys, nd, wiped, sel, bulk, history>>
Asks(what) ==
    /\ Cardinality(reqs) < MaxReqs
    /\ Request(what, NoDialog)
    /\ UNCHANGED <<root, keys, nd, wiped, sel, bulk, history>>
createToken == Asks("reveal")
openYamlDrawer == Asks("reveal")
newDagModal == Asks("list")

\* renderNewDag again, for another template or the fold: one more listener.
renderNewDag(adv) ==
    /\ root.kind = "newdag"
    /\ Draws(root, keys)
    /\ nd' = [nd EXCEPT !.adv = adv, !.pop = FALSE, !.disabled = ~nd.valid, !.drawn = acts]
    /\ UNCHANGED <<reqs, wiped, sel, bulk, history>>
\* The name is typed: it may be a valid and a new one, or not.
updateNewDagValidity(ok) ==
    /\ root.kind = "newdag"
    /\ nd' = [nd EXCEPT !.valid = ok, !.disabled = ~ok]
    /\ UNCHANGED <<root, keys, reqs, wiped, sel, bulk, history>>
ToggleCronHelp ==
    /\ root.kind = "newdag" /\ nd.adv
    /\ nd' = [nd EXCEPT !.pop = ~@]
    /\ UNCHANGED <<root, keys, reqs, wiped, sel, bulk, history>>
ClickCreate ==
    /\ root.kind = "newdag" /\ ~nd.disabled
    /\ Shows(submitNewDag(Screen))
    /\ UNCHANGED <<wiped, sel, history>>

\* The answers.  A failure leaves the dialog with its message.
FormAnswer(r) ==
    /\ r.what = "form"
    /\ root' = NoDialog /\ keys' = RemoveFirst(keys, r.dlg)
    /\ wiped' = Covered \ {r.dlg} /\ UNCHANGED nd
\* The new token, or the YAML drawer, is drawn over whatever is there; the
\* dialog that asked for a worker token hands over.
Reveals(r) ==
    /\ Draws([kind |-> "reveal", ids |-> {}, n |-> r.n], RemoveFirst(keys, r.dlg))
    /\ wiped' = Covered \ {r.dlg} /\ UNCHANGED nd
revealToken(r) == r.what = "reveal" /\ Reveals(r)
revealWorkerToken(r) == r.what = "mint" /\ Reveals(r)
ListAnswer(r) ==
    /\ r.what = "list"
    /\ Draws([kind |-> "newdag", ids |-> {}, n |-> r.n], keys)
    /\ nd' = [NoND EXCEPT !.drawn = acts] /\ wiped' = Covered
CreateAnswer(r) ==
    /\ r.what = "create"
    /\ root' = NoDialog /\ wiped' = Covered /\ UNCHANGED <<keys, nd>>
Answer(r) ==
    /\ FormAnswer(r) \/ revealToken(r) \/ revealWorkerToken(r) \/ ListAnswer(r) \/ CreateAnswer(r)
    /\ reqs' = reqs \ {r} /\ UNCHANGED <<sel, bulk, history>>
\* A creation that fails enables the button it disabled, if that is the one drawn.
AnswerFails(r) ==
    /\ r.what # "list" /\ reqs' = reqs \ {r}
    /\ nd' = IF r.what = "create" /\ root = r.dlg /\ r.n >= nd.drawn
               THEN [nd EXCEPT !.disabled = FALSE] ELSE nd
    /\ UNCHANGED <<root, keys, wiped, sel, bulk, history>>
-----------------------------------------------------------------------------
(***************************************************************************)
(* Bulk operations: one call after the other over the ids ticked.          *)
(***************************************************************************)
TickRow(id) ==
    /\ sel' = IF id \in sel THEN sel \ {id} ELSE sel \cup {id}
    /\ UNCHANGED <<modal, bulk, history>>
\* The dashboard is drawn again, with the rows a reload or a search left.
wireBulk(list) ==
    /\ sel' = sel \cap list
    /\ UNCHANGED <<modal, bulk, history>>
BulkClick ==
    /\ sel # {}
    /\ \/ Draws(Dialog("confirm", sel), keys) /\ wiped' = Covered /\ UNCHANGED bulk
       \/ bulk' = bulk \cup {runBulk(Dialog("none", sel))} /\ UNCHANGED <<root, keys, wiped>>
    /\ UNCHANGED <<nd, reqs, sel, history>>
BulkCall(b) ==
    /\ \E id \in b.todo :
          bulk' = (bulk \ {b}) \cup {[b EXCEPT !.todo = @ \ {id}]}
    /\ UNCHANGED <<modal, sel, history>>
BulkEnd(b) ==
    /\ b.todo = {} /\ bulk' = bulk \ {b} /\ sel' = {}
    /\ UNCHANGED <<modal, history>>
-----------------------------------------------------------------------------
(***************************************************************************)
(* The run history of the open DAG: filter chips, the refresh after an     *)
(* operation and the poll, each with a fetch of its own.                   *)
(***************************************************************************)
Fetch(by, f) ==
    /\ Cardinality(asks) < MaxReqs
    /\ asks' = asks \cup {[by |-> by, f |-> f, n |-> asked + 1]} /\ asked' = asked + 1
FilterChip(f) ==
    /\ filter' = f /\ Fetch("chip", f)
    /\ UNCHANGED <<runs, polling, modal, sel, bulk>>
refreshDagRuns ==
    /\ Fetch("refresh", filter)
    /\ UNCHANGED <<filter, runs, polling, modal, sel, bulk>>
\* Mutant: the poll asks for whatever list.
PollTickUnfiltered ==
    /\ polling
    /\ \E f \in Filters : Fetch("poll", f)
    /\ UNCHANGED <<filter, runs, polling, modal, sel, bulk>>
PollTick ==
    /\ polling /\ Fetch("poll", filter)
    /\ UNCHANGED <<filter, runs, polling, modal, sel, bulk>>
\* The list an answer brings may or may not have a live run, which decides
\* over the poll; a failed chip keeps the list under the new chip.
RunsAnswer(a) ==
    /\ asks' = asks \ {a} /\ runs' = a.f
    /\ polling' \in (IF a.by = "poll" THEN {polling, polling /\ a.f # runs} ELSE BOOLEAN)
    /\ UNCHANGED <<filter, asked, modal, sel, bulk>>
RunsFail(a) ==
    /\ asks' = asks \ {a}
    /\ polling' \in (IF a.by = "chip" THEN BOOLEAN ELSE {polling})
    /\ UNCHANGED <<filter, runs, asked, modal, sel, bulk>>
-----------------------------------------------------------------------------
User ==
    \/ confirmDialog \/ promptDialog \/ nvEditStepModal \/ pickDialog \/ triggerParamsDialog
    \/ backfillDialog \/ connDialog \/ groupDialog \/ workerTokenDialog
    \/ KeyEscape \/ KeyEnter \/ ClickCancel \/ ClickOk
    \/ FormSend \/ createToken \/ openYamlDrawer \/ newDagModal \/ ClickCreate
    \/ ToggleCronHelp \/ \E on \in BOOLEAN : renderNewDag(on) \/ updateNewDagValidity(on)
    \/ BulkClick \/ \E id \in Rows : TickRow(id) \/ \E l \in SUBSET Rows : wireBulk(l)
    \/ refreshDagRuns \/ \E f \in Filters : FilterChip(f)
Machine ==
    \/ \E r \in reqs : Answer(r) \/ AnswerFails(r)
    \/ \E b \in bulk : BulkCall(b) \/ BulkEnd(b)
    \/ \E a \in asks : RunsAnswer(a) \/ RunsFail(a)
Next == \/ (User \/ PollTick) /\ acts < MaxActs /\ acts' = acts + 1
        \/ Machine /\ UNCHANGED acts
Spec == Init /\ [][Next]_vars
-----------------------------------------------------------------------------
\* The dialog on the screen has its listener, whatever was drawn over what and
\* whichever listeners heard which keys before: Escape reaches it (onKey).
Answerable == root # NoDialog => root \in ToSet(keys)

\* A dialog the user has closed hears no key again: whoever listens is on the
\* screen, or was drawn over or cleared away by another and so never closed by
\* its own button.  The new DAG modal looks for its own button first.
StrayKeys ==
    \A i \in DOMAIN keys : keys[i].kind # "newdag" => keys[i] = root \/ keys[i] \in wiped

\* Enter creates one DAG, however often the modal was redrawn and so however
\* many of its listeners hear the key (renderNewDag, submitNewDag).
OneSubmit ==
    [][KeyEnter => Cardinality({r \in reqs' \ reqs : r.what = "create"}) <= 1]_vars

\* A confirmation is good for one bulk operation: while the operation runs its
\* dialog is gone, from the screen and from the listeners, and no second
\* operation runs for it, however keys and clicks were spread over the dialogs
\* drawn over one another (confirmDialog, runBulk).
ConfirmedOnce ==
    \A b \in bulk :
        /\ root.kind = "confirm" => root.n # b.n
        /\ \A i \in DOMAIN keys : keys[i].kind = "confirm" => keys[i].n # b.n
        /\ \A c \in bulk : c.n = b.n => c = b

\* The types, the listeners and the confirmations, kept by every step.
DialogInv == TypeOK /\ Answerable /\ StrayKeys /\ ConfirmedOnce

\* The newest list asked for is one of the chip the user sees: "carry the
\* user's state filter, or the poll would silently reset it".
NewestFiltered == [][\A a \in asks : RunsAnswer(a) /\ a.n = asked => runs' = filter]_vars
=============================================================================
