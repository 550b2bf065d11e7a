-------------------------- MODULE DagEditorProofs --------------------------
(***************************************************************************)
(* The save pipeline is safe for every set of DAGs, every number of edits, *)
(* of user actions and of waiting navigations, and every fault: EditorInv  *)
(* and TriggerFresh hold of every behaviour.                               *)
(*                                                                         *)
(* Neither is inductive.  EditorInv needs that a confirmed delete keeps    *)
(* the latch until its answer, and that every definition in memory or on   *)
(* its way was made of the edits there have been so far.  TriggerFresh     *)
(* needs to know where an accepted edit is: behind an armed timer, behind  *)
(* the save in flight, in that save, refused, or stored.                   *)
(***************************************************************************)
EXTENDS DagEditor, TLAPS

USE EditorConstants

\* The definitions that can exist by now: stamps of edits that were made,
\* and no more of the other editor's saves than there were actions.
Known == [cfg : 0 .. edits, task : 0 .. edits, graph : 0 .. edits, bad : BOOLEAN,
          badUrl : BOOLEAN, other : 0 .. acts]
KnownAsked == [dag : Dags, cfg : 0 .. edits, task : 0 .. edits]

\* What every piece of state can hold, given the definitions K and the
\* accepted edits A that can exist.
DType(K) == [dag : Dags, c : K, hash : Dags \X K, base : K \cup {NoBase}]
RowType(K) == [c : K, live : BOOLEAN, rival : K \cup {NoBase},
               mine : [cfg : Stamps, task : Stamps]]
SrvType(K) == [Dags -> RowType(K)]
PostType(K) == [dag : Dags, c : K, hash : Dags \X K,
                res : {"sent", "checked", "ok", "conflict", "failed"}]
NavType(K) == [dag : Dags, pc : {"flush", "fetch"}]
                 \cup [dag : Dags, pc : {"got"}, c : K, ok : BOOLEAN]
TrigType(A) == [pc : {"flush"}, asked : A \cup {NotAsked}]
DelType == [pc : {"confirm", "wait", "sent", "done", "failed"}, dag : Dags]

TypedIn(K, A) ==
    /\ D = NoD \/ D \in DType(K)
    /\ srv \in SrvType(K)
    /\ timer \in {"none", "armed", "stale"}
    /\ inflight \in BOOLEAN /\ pending \in BOOLEAN /\ deleting \in BOOLEAN
    /\ posts \subseteq PostType(K)
    /\ view \in {"dags", "dag"} /\ page \in {"list", "editor", "error"}
    /\ navs \subseteq NavType(K)
    /\ trig = NoCall \/ trig \in TrigType(A)
    /\ del = NoCall \/ del \in DelType
    /\ asked = NotAsked \/ asked \in A
    /\ last \in {"none", "ok", "error", "thrown"}
Typed == edits \in Stamps /\ acts \in 0 .. MaxActs /\ TypedIn(Known, KnownAsked)

\* A confirmed delete holds the latch until it is answered, nothing is in
\* flight once its request is sent, and nothing is pending.
Latch ==
    /\ del.pc \in {"wait", "sent", "done", "failed"} <=> deleting
    /\ del.pc \in {"sent", "done", "failed"} => posts = {}

SaveInv == Typed /\ SerialSaves /\ Latch
-----------------------------------------------------------------------------
Covers(c, a) == c.cfg >= a.cfg /\ c.task >= a.task
Carries(p, a) == p.dag = a.dag /\ Covers(p.c, a)

\* The model the tab holds is that of the accepted edit a, or a later one,
\* also after the graph session is discarded.
Held(a) ==
    /\ ~deleting
    /\ D # NoD /\ D.dag = a.dag /\ Covers(D.c, a)
    /\ D.base # NoBase => D.base.task >= a.task

\* The accepted edit a is behind the save in flight, in it, refused or stored.
Issued(a) ==
    \/ inflight /\ pending
    \/ \E p \in posts : Carries(p, a) /\ (p.res = "ok" => Landed(a, a.dag))
    \/ last = "error" /\ posts = {}
    \/ Landed(a, a.dag) /\ \A p \in posts : p.dag = a.dag => Covers(p.c, a)

\* The last accepted edit may still wait for its timer; the one a trigger
\* waits for may not.
AskedInv == asked # NotAsked => Held(asked) /\ (timer = "armed" \/ Issued(asked))
TrigInv == trig # NoCall /\ trig.asked # NotAsked => Held(trig.asked) /\ Issued(trig.asked)

FreshInv == SaveInv /\ AskedInv /\ TrigInv
-----------------------------------------------------------------------------
\* More edits and more actions leave every definition known, and so the
\* type of every piece of state.
LEMMA KnownGrows ==
    ASSUME edits \in Nat, edits' \in Nat, edits <= edits',
           acts \in Nat, acts' \in Nat, acts <= acts'
    PROVE  Known \subseteq Known' /\ KnownAsked \subseteq KnownAsked'
BY DEF Known, KnownAsked

LEMMA TypesGrow ==
    ASSUME NEW K, NEW L, K \subseteq L, NEW A, NEW B, A \subseteq B, TypedIn(K, A)
    PROVE  TypedIn(L, B)
<1>1. /\ DType(K) \subseteq DType(L) /\ SrvType(K) \subseteq SrvType(L)
      /\ PostType(K) \subseteq PostType(L) /\ NavType(K) \subseteq NavType(L)
      /\ TrigType(A) \subseteq TrigType(B)
  BY DEF DType, SrvType, RowType, PostType, NavType, TrigType
<1> QED BY <1>1 DEF TypedIn

\* What an action's lemma starts from: the step counts at most one edit and
\* one action, and the old state has the types of the new one.
Counts == /\ edits' \in {edits, edits + 1} /\ edits' \in Stamps
          /\ acts' \in {acts, acts + 1} /\ acts' \in 0 .. MaxActs
LEMMA Grown ==
    ASSUME Typed, Counts
    PROVE  /\ TypedIn(Known', KnownAsked')
           /\ Known \subseteq Known' /\ KnownAsked \subseteq KnownAsked'
<1>1. /\ edits \in Nat /\ edits' \in Nat /\ edits <= edits'
      /\ acts \in Nat /\ acts' \in Nat /\ acts <= acts'
  BY DEF Typed, Counts, Stamps
<1>2. Known \subseteq Known' /\ KnownAsked \subseteq KnownAsked'
  BY <1>1, KnownGrows
<1> QED BY <1>2, TypesGrow DEF Typed

\* The initial state.
LEMMA InitSave == ASSUME Init PROVE SaveInv
<1>1. edits \in Stamps /\ acts \in 0 .. MaxActs
  BY DEF Init, Stamps
<1>2. Fresh \in Known
  BY DEF Init, Known, Fresh
<1>3. srv \in SrvType(Known)
  BY <1>2 DEF Init, SrvType, RowType, Stamps
<1>4. TypedIn(Known, KnownAsked)
  BY <1>3 DEF Init, TypedIn
<1>5. del.pc = "none"
  BY DEF Init, NoCall
<1> QED BY <1>1, <1>4, <1>5 DEF Init, SaveInv, Typed, SerialSaves, Latch

\* saveDag: an edited model of the right type stays one, accepted or not.
LEMMA saveDagTyped ==
    ASSUME NEW d \in DType(Known'), saveDag(d), TypedIn(Known', KnownAsked')
    PROVE  /\ D' \in DType(Known') /\ timer' \in {"none", "armed", "stale"}
           /\ asked' = NotAsked \/ asked' \in KnownAsked'
BY DEF saveDag, TypedIn, DType, Known, KnownAsked

\* flushSave sends nothing while the latch is held or a save is in flight.
LEMMA flushSaveSave ==
    ASSUME SaveInv, Counts, flushSave
    PROVE  /\ inflight' \in BOOLEAN /\ pending' \in BOOLEAN
           /\ posts' \subseteq PostType(Known')
           /\ last' \in {"none", "ok", "error", "thrown"}
           /\ SerialSaves'
           /\ deleting => posts' = posts
<1>1. TypedIn(Known', KnownAsked')
  BY Grown DEF SaveInv
<1>2. D # NoD => dagSpecFrom(D) \in PostType(Known')
  BY <1>1 DEF TypedIn, dagSpecFrom, DType, PostType
<1>3. inflight \/ posts = {}
  BY DEF SaveInv, SerialSaves
<1> QED BY <1>1, <1>2, <1>3 DEF SaveInv, TypedIn, flushSave, SerialSaves
LEMMA flushPendingSavesSave ==
    ASSUME SaveInv, Counts, flushPendingSaves
    PROVE  /\ timer' \in {"none", "armed", "stale"}
           /\ inflight' \in BOOLEAN /\ pending' \in BOOLEAN
           /\ posts' \subseteq PostType(Known')
           /\ last' \in {"none", "ok", "error", "thrown"}
           /\ SerialSaves'
           /\ deleting => posts' = posts
<1>1. TypedIn(Known', KnownAsked')
  BY Grown DEF SaveInv
<1> QED BY <1>1, flushSaveSave DEF SaveInv, TypedIn, flushPendingSaves, SerialSaves, pipeline
-----------------------------------------------------------------------------
(***************************************************************************)
(* Every action keeps SaveInv.                                             *)
(***************************************************************************)

\* The timer only flushes.
LEMMA TimerFiresSave ==
    ASSUME SaveInv, Counts, TimerFires
    PROVE  SaveInv'
<1>1. TypedIn(Known', KnownAsked')
  BY Grown DEF SaveInv
<1>2. /\ inflight' \in BOOLEAN /\ pending' \in BOOLEAN
      /\ posts' \subseteq PostType(Known')
      /\ last' \in {"none", "ok", "error", "thrown"}
      /\ SerialSaves'
      /\ deleting => posts' = posts
  BY flushSaveSave DEF TimerFires
<1>3. Typed'
  BY <1>1, <1>2 DEF TimerFires, Counts, Typed, TypedIn, model, calls, screen
<1>4. Latch'
  BY <1>2 DEF SaveInv, Latch, TimerFires, calls
<1> QED BY <1>2, <1>3, <1>4 DEF SaveInv

\* The server answers a request in place.
LEMMA ServerChecksSave ==
    ASSUME SaveInv, Counts, NEW p \in posts, ServerChecks(p)
    PROVE  SaveInv'
<1>1. TypedIn(Known', KnownAsked')
  BY Grown DEF SaveInv
<1>2. PICK r \in {"checked", "failed", "conflict"} : Answered(p, r)
  BY DEF ServerChecks
<1>3. [p EXCEPT !.res = r] \in PostType(Known') /\ posts' \subseteq PostType(Known')
  BY <1>1, <1>2 DEF Answered, TypedIn, PostType
<1>4. SerialSaves'
  BY <1>2 DEF SaveInv, SerialSaves, Answered, ServerChecks
<1>5. Typed'
  BY <1>1, <1>3 DEF ServerChecks, Counts, Typed, TypedIn, model, calls, screen
<1>6. Latch'
  BY <1>2 DEF SaveInv, Latch, ServerChecks, calls
<1> QED BY <1>4, <1>5, <1>6 DEF SaveInv

\* What the server stores is the request's definition.
LEMMA ServerStoresSave ==
    ASSUME SaveInv, Counts, NEW p \in posts, ServerStores(p)
    PROVE  SaveInv'
<1>1. TypedIn(Known', KnownAsked')
  BY Grown DEF SaveInv
<1>2. [p EXCEPT !.res = "ok"] \in PostType(Known') /\ posts' \subseteq PostType(Known')
  BY <1>1 DEF ServerStores, Answered, TypedIn, PostType
<1>3. srv' \in SrvType(Known')
  <2>1. p.dag \in Dags /\ p.c \in Known' /\ srv[p.dag] \in RowType(Known')
    BY <1>1 DEF TypedIn, PostType, SrvType
  <2>2. p.c.cfg \in Stamps /\ p.c.task \in Stamps
    BY <2>1 DEF Known, Counts, Stamps
  <2>3. [c |-> p.c, live |-> TRUE, rival |-> srv[p.dag].rival,
         mine |-> [cfg |-> p.c.cfg, task |-> p.c.task]] \in RowType(Known')
    BY <2>1, <2>2 DEF RowType
  <2> QED BY <1>1, <2>1, <2>3 DEF ServerStores, TypedIn, SrvType
<1>4. SerialSaves'
  BY DEF SaveInv, SerialSaves, Answered, ServerStores
<1>5. Typed'
  BY <1>1, <1>2, <1>3 DEF ServerStores, Counts, Typed, TypedIn, model, calls, screen
<1>6. Latch'
  BY DEF SaveInv, Latch, ServerStores, calls
<1> QED BY <1>4, <1>5, <1>6 DEF SaveInv

\* The answered request is the only one, so a re-issued one is alone too.
LEMMA SaveAnswerSave ==
    ASSUME SaveInv, Counts, NEW p \in posts, SaveAnswer(p)
    PROVE  SaveInv'
<1>1. TypedIn(Known', KnownAsked')
  BY Grown DEF SaveInv
<1>2. D' = NoD \/ D' \in DType(Known')
  BY <1>1 DEF SaveAnswer, Adopted, Hash, TypedIn, DType, PostType
<1>3. D' # NoD => dagSpecFrom(D') \in PostType(Known')
  BY <1>2 DEF dagSpecFrom, DType, PostType
<1>4. posts = {p}
  BY DEF SaveInv, SerialSaves
<1>5. posts' \subseteq {dagSpecFrom(D')} /\ (posts' # {} => Reissues /\ D' # NoD)
  BY <1>4 DEF SaveAnswer
<1>6. SerialSaves'
  BY <1>5 DEF SerialSaves, SaveAnswer
<1>7. inflight' \in BOOLEAN /\ last' \in {"none", "ok", "error", "thrown"}
  BY <1>1 DEF SaveAnswer, Reissues, TypedIn
<1>8. posts' \subseteq PostType(Known')
  BY <1>3, <1>5
<1>9. Typed'
  BY <1>1, <1>2, <1>7, <1>8 DEF SaveAnswer, Counts, Typed, TypedIn, calls, screen
<1>10. Latch'
  BY <1>5 DEF SaveInv, Latch, SaveAnswer, Reissues, calls
<1> QED BY <1>6, <1>9, <1>10 DEF SaveInv

\* An edit through saveDag: the model changes, the pipeline does not.
LEMMA EditSave ==
    ASSUME SaveInv, Counts, NEW d \in DType(Known'), saveDag(d),
           UNCHANGED <<srv, inflight, pending, deleting, posts, screen, calls, last>>
    PROVE  SaveInv'
<1>1. TypedIn(Known', KnownAsked')
  BY Grown DEF SaveInv
<1>2. /\ D' \in DType(Known') /\ timer' \in {"none", "armed", "stale"}
      /\ asked' = NotAsked \/ asked' \in KnownAsked'
  BY <1>1, saveDagTyped
<1>3. Typed'
  BY <1>1, <1>2 DEF Counts, Typed, TypedIn, calls, screen
<1>4. SerialSaves' /\ Latch'
  BY DEF SaveInv, SerialSaves, Latch, calls
<1> QED BY <1>3, <1>4 DEF SaveInv

\* An edit without a save.
LEMMA TypeSave ==
    ASSUME SaveInv, Counts, D' \in DType(Known'),
           UNCHANGED <<srv, pipeline, deleting, screen, calls, asked, last>>
    PROVE  SaveInv'
<1>1. TypedIn(Known', KnownAsked')
  BY Grown DEF SaveInv
<1>2. Typed'
  BY <1>1 DEF Counts, Typed, TypedIn, calls, screen, pipeline
<1>3. SerialSaves' /\ Latch'
  BY DEF SaveInv, SerialSaves, Latch, calls, pipeline
<1> QED BY <1>2, <1>3 DEF SaveInv

\* The models that the edits make are of the type of the model.
LEMMA EditTypes ==
    ASSUME SaveInv, Counts, Editing, edits' = Stamp, NEW bad \in BOOLEAN
    PROVE  /\ [D EXCEPT !.c.cfg = Stamp, !.c.badUrl = bad] \in DType(Known')
           /\ [D EXCEPT !.c.task = Stamp, !.c.bad = bad] \in DType(Known')
           /\ [D EXCEPT !.base = IF @ = NoBase THEN D.c ELSE @, !.c.graph = Stamp]
                \in DType(Known')
<1>1. TypedIn(Known', KnownAsked')
  BY Grown DEF SaveInv
<1>2. D \in DType(Known')
  BY <1>1 DEF TypedIn, Editing
<1>3. Stamp \in 0 .. edits'
  BY DEF Stamp, Counts, Stamps
<1>4. /\ [D.c EXCEPT !.cfg = Stamp, !.badUrl = bad] \in Known'
      /\ [D.c EXCEPT !.task = Stamp, !.bad = bad] \in Known'
      /\ [D.c EXCEPT !.graph = Stamp] \in Known'
  BY <1>2, <1>3 DEF DType, Known
<1> QED BY <1>2, <1>4 DEF DType

\* The edits of the settings, the task forms and the graph session.
LEMMA EditSettingsSave ==
    ASSUME SaveInv, Counts, NEW bad \in BOOLEAN, EditSettings(bad)
    PROVE  SaveInv'
BY EditTypes, EditSave DEF EditSettings, CanEdit
LEMMA EditTaskSave ==
    ASSUME SaveInv, Counts, NEW bad \in BOOLEAN, EditTask(bad) \/ TypeTask(bad)
    PROVE  SaveInv'
<1>1. CASE EditTask(bad)
  BY <1>1, EditTypes, EditSave DEF EditTask, CanEdit
<1>2. CASE TypeTask(bad)
  BY <1>2, EditTypes, TypeSave DEF TypeTask, CanEdit
<1> QED BY <1>1, <1>2
LEMMA BlurTaskSave ==
    ASSUME SaveInv, Counts, BlurTask
    PROVE  SaveInv'
<1>1. D \in DType(Known')
  BY Grown DEF SaveInv, TypedIn, BlurTask, Editing
<1> QED BY <1>1, EditSave DEF BlurTask
LEMMA graphMutateSave ==
    ASSUME SaveInv, Counts, graphMutate
    PROVE  SaveInv'
BY EditTypes, TypeSave DEF graphMutate, CanEdit
LEMMA graphSessionSave ==
    ASSUME SaveInv, Counts, graphSaveSession \/ graphDiscardSession
    PROVE  SaveInv'
<1>1. D \in DType(Known')
  BY Grown DEF SaveInv, TypedIn, graphSaveSession, graphDiscardSession, Editing
<1>2. CASE graphSaveSession
  <2>1. [D EXCEPT !.base = NoBase] \in DType(Known')
    BY <1>1 DEF DType
  <2> QED BY <1>2, <2>1, EditSave DEF graphSaveSession
<1>3. CASE graphDiscardSession
  <2>1. [D.base EXCEPT !.cfg = D.c.cfg, !.badUrl = D.c.badUrl] \in Known'
    BY <1>1, <1>3 DEF graphDiscardSession, DType, Known
  <2>2. D' \in DType(Known')
    BY <1>1, <1>3, <2>1 DEF graphDiscardSession, DType
  <2> QED BY <1>3, <2>2, TypeSave DEF graphDiscardSession
<1> QED BY <1>2, <1>3

\* Navigation: a call, its answer and its rendering leave the pipeline alone
\* but for the flush at the start.
LEMMA showDagSave ==
    ASSUME SaveInv, Counts, NEW d \in Dags, showDag(d)
    PROVE  SaveInv'
<1>1. TypedIn(Known', KnownAsked')
  BY Grown DEF SaveInv
<1>2. /\ timer' \in {"none", "armed", "stale"}
      /\ inflight' \in BOOLEAN /\ pending' \in BOOLEAN
      /\ posts' \subseteq PostType(Known')
      /\ last' \in {"none", "ok", "error", "thrown"}
      /\ SerialSaves'
      /\ deleting => posts' = posts
  BY flushPendingSavesSave DEF showDag
<1>3. [dag |-> d, pc |-> "flush"] \in NavType(Known')
  BY DEF NavType
<1>4. navs' \subseteq NavType(Known')
  BY <1>1, <1>3 DEF showDag, TypedIn
<1>5. Typed'
  BY <1>1, <1>2, <1>4 DEF showDag, Counts, Typed, TypedIn, model, screen
<1>6. Latch'
  BY <1>2 DEF SaveInv, Latch, showDag
<1> QED BY <1>2, <1>5, <1>6 DEF SaveInv
LEMMA NavSave ==
    ASSUME SaveInv, Counts, NEW n \in navs, NavFlushed(n) \/ NavServed(n)
    PROVE  SaveInv'
<1>1. TypedIn(Known', KnownAsked')
  BY Grown DEF SaveInv
<1>2. n \in NavType(Known')
  BY <1>1 DEF TypedIn
<1>3. NavFlushed(n) => [n EXCEPT !.pc = "fetch"] \in NavType(Known')
  BY <1>2 DEF NavFlushed, NavType
<1>4. \A ok \in BOOLEAN :
          [dag |-> n.dag, pc |-> "got", c |-> srv[n.dag].c, ok |-> ok /\ srv[n.dag].live]
             \in NavType(Known')
  BY <1>1, <1>2 DEF NavType, TypedIn, SrvType, RowType
<1>5. navs' \subseteq NavType(Known')
  BY <1>1, <1>3, <1>4 DEF NavFlushed, NavServed, TypedIn
<1>6. Typed'
  BY <1>1, <1>5 DEF NavFlushed, NavServed, Counts, Typed, TypedIn, model, screen, pipeline
<1>7. SerialSaves' /\ Latch'
  BY DEF SaveInv, SerialSaves, Latch, NavFlushed, NavServed, pipeline
<1> QED BY <1>6, <1>7 DEF SaveInv
LEMMA GiveUpTyped ==
    ASSUME TypedIn(Known', KnownAsked'), GiveUp
    PROVE  /\ asked' = NotAsked
           /\ trig' = NoCall \/ trig' \in TrigType(KnownAsked')
BY DEF GiveUp, TypedIn, TrigType
LEMMA NavAppliedSave ==
    ASSUME SaveInv, Counts, NEW n \in navs, NavApplied(n)
    PROVE  SaveInv'
<1>1. TypedIn(Known', KnownAsked')
  BY Grown DEF SaveInv
<1>2. n \in NavType(Known')
  BY <1>1 DEF TypedIn
<1>3. D' = NoD \/ D' \in DType(Known')
  BY <1>2 DEF NavApplied, NavType, OpenedD, Hash, DType
<1>4. asked' = NotAsked /\ (trig' = NoCall \/ trig' \in TrigType(KnownAsked'))
  BY <1>1, GiveUpTyped DEF NavApplied
<1>5. Typed'
  BY <1>1, <1>3, <1>4 DEF NavApplied, Counts, Typed, TypedIn, pipeline
<1>6. SerialSaves' /\ Latch'
  BY DEF SaveInv, SerialSaves, Latch, NavApplied, pipeline
<1> QED BY <1>5, <1>6 DEF SaveInv
LEMMA loadDagsSave ==
    ASSUME SaveInv, Counts, loadDags \/ renderDags
    PROVE  SaveInv'
<1>1. TypedIn(Known', KnownAsked')
  BY Grown DEF SaveInv
<1>2. Typed'
  BY <1>1 DEF loadDags, renderDags, Counts, Typed, TypedIn, model, calls, pipeline
<1>3. SerialSaves' /\ Latch'
  BY DEF SaveInv, SerialSaves, Latch, loadDags, renderDags, pipeline, calls
<1> QED BY <1>2, <1>3 DEF SaveInv

\* A trigger flushes, waits and posts.
LEMMA triggerSave ==
    ASSUME SaveInv, Counts, triggerActiveDag
    PROVE  SaveInv'
<1>1. TypedIn(Known', KnownAsked')
  BY Grown DEF SaveInv
<1>2. /\ timer' \in {"none", "armed", "stale"}
      /\ inflight' \in BOOLEAN /\ pending' \in BOOLEAN
      /\ posts' \subseteq PostType(Known')
      /\ last' \in {"none", "ok", "error", "thrown"}
      /\ SerialSaves'
      /\ deleting => posts' = posts
  BY flushPendingSavesSave DEF triggerActiveDag
<1>3. trig' \in TrigType(KnownAsked')
  BY <1>1 DEF triggerActiveDag, TypedIn, TrigType
<1>4. Typed'
  BY <1>1, <1>2, <1>3 DEF triggerActiveDag, Counts, Typed, TypedIn, model, screen
<1>5. Latch'
  BY <1>2 DEF SaveInv, Latch, triggerActiveDag
<1> QED BY <1>2, <1>4, <1>5 DEF SaveInv
LEMMA TriggerPostSave ==
    ASSUME SaveInv, Counts, TriggerPost
    PROVE  SaveInv'
<1>1. TypedIn(Known', KnownAsked')
  BY Grown DEF SaveInv
<1>2. Typed'
  BY <1>1 DEF TriggerPost, Counts, Typed, TypedIn, model, screen, pipeline
<1>3. SerialSaves' /\ Latch'
  BY DEF SaveInv, SerialSaves, Latch, TriggerPost, pipeline
<1> QED BY <1>2, <1>3 DEF SaveInv

\* The delete: the latch is taken when it is confirmed, the request leaves
\* when no save is in flight, and the answer releases the latch.
LEMMA DeleteStartSave ==
    ASSUME SaveInv, Counts, deleteActiveDag \/ DeleteDismissed
    PROVE  SaveInv'
<1>1. TypedIn(Known', KnownAsked')
  BY Grown DEF SaveInv
<1>2. /\ del.pc \in {"none", "confirm"} /\ del'.pc \in {"none", "confirm"}
      /\ del' = NoCall \/ del' \in DelType
  BY <1>1 DEF deleteActiveDag, DeleteDismissed, Editing, NoCall, TypedIn, DType, DelType
<1>3. Typed'
  BY <1>1, <1>2 DEF deleteActiveDag, DeleteDismissed, Counts, Typed, TypedIn, model,
                    screen, pipeline
<1>4. SerialSaves' /\ Latch'
  BY <1>2 DEF SaveInv, SerialSaves, Latch, deleteActiveDag, DeleteDismissed, pipeline
<1> QED BY <1>3, <1>4 DEF SaveInv
LEMMA DelPC ==
    ASSUME Typed, del.pc # "none"
    PROVE  /\ del \in DelType
           /\ \A x \in {"confirm", "wait", "sent", "done", "failed"} :
                /\ [del EXCEPT !.pc = x] \in DelType
                /\ [del EXCEPT !.pc = x].pc = x
BY DEF Typed, TypedIn, NoCall, DelType
LEMMA DeleteConfirmedSave ==
    ASSUME SaveInv, Counts, DeleteConfirmed
    PROVE  SaveInv'
<1>1. TypedIn(Known', KnownAsked')
  BY Grown DEF SaveInv
<1>2. del' \in DelType /\ del'.pc = "wait"
  BY DelPC DEF DeleteConfirmed, SaveInv
<1>3. asked' = NotAsked /\ (trig' = NoCall \/ trig' \in TrigType(KnownAsked'))
  BY <1>1, GiveUpTyped DEF DeleteConfirmed
<1>4. Typed'
  BY <1>1, <1>2, <1>3 DEF DeleteConfirmed, Counts, Typed, TypedIn, screen
<1>5. SerialSaves' /\ Latch'
  BY <1>2 DEF SaveInv, SerialSaves, Latch, DeleteConfirmed
<1> QED BY <1>4, <1>5 DEF SaveInv
LEMMA DeleteSentSave ==
    ASSUME SaveInv, Counts, DeleteSent
    PROVE  SaveInv'
<1>1. TypedIn(Known', KnownAsked')
  BY Grown DEF SaveInv
<1>2. del' \in DelType /\ del'.pc = "sent"
  BY DelPC DEF DeleteSent, SaveInv
<1>3. Typed'
  BY <1>1, <1>2 DEF DeleteSent, Counts, Typed, TypedIn, model, screen, pipeline
<1>4. SerialSaves' /\ Latch'
  BY <1>2 DEF SaveInv, SerialSaves, Latch, DeleteSent, pipeline
<1> QED BY <1>3, <1>4 DEF SaveInv
LEMMA ServerDeleteSave ==
    ASSUME SaveInv, Counts, ServerDelete
    PROVE  SaveInv'
<1>1. TypedIn(Known', KnownAsked')
  BY Grown DEF SaveInv
<1>2. del' \in DelType /\ del'.pc \in {"done", "failed"}
  BY DelPC DEF ServerDelete, SaveInv
<1>3. srv' \in SrvType(Known')
  <2>1. del.dag \in Dags
    BY DelPC DEF ServerDelete, SaveInv, DelType
  <2>2. [srv[del.dag] EXCEPT !.live = FALSE] \in RowType(Known')
    BY <1>1, <2>1 DEF TypedIn, SrvType, RowType
  <2> QED BY <1>1, <2>1, <2>2 DEF ServerDelete, TypedIn, SrvType
<1>4. Typed'
  BY <1>1, <1>2, <1>3 DEF ServerDelete, Counts, Typed, TypedIn, model, screen, pipeline
<1>5. SerialSaves' /\ Latch'
  BY <1>2 DEF SaveInv, SerialSaves, Latch, ServerDelete, pipeline
<1> QED BY <1>4, <1>5 DEF SaveInv
LEMMA DeleteAnswerSave ==
    ASSUME SaveInv, Counts, DeleteAnswer
    PROVE  SaveInv'
<1>1. TypedIn(Known', KnownAsked')
  BY Grown DEF SaveInv
<1>2. Typed'
  BY <1>1 DEF DeleteAnswer, Counts, Typed, TypedIn, model, pipeline
<1>3. SerialSaves' /\ Latch'
  BY DEF SaveInv, SerialSaves, Latch, DeleteAnswer, pipeline, NoCall
<1> QED BY <1>2, <1>3 DEF SaveInv

\* Another editor's save counts among the actions.
LEMMA OtherChecksSave ==
    ASSUME SaveInv, Counts, NEW d \in Dags, OtherChecks(d), acts' = acts + 1
    PROVE  SaveInv'
<1>1. TypedIn(Known', KnownAsked')
  BY Grown DEF SaveInv
<1>2. PICK c \in {srv[d].c, Fresh} :
        srv' = [srv EXCEPT ![d].rival = [c EXCEPT !.other = srv[d].c.other + 1]]
  BY DEF OtherChecks
<1>3. c \in Known' /\ srv[d].c.other + 1 \in 0 .. acts'
  <2>1. srv[d].c \in Known
    BY DEF SaveInv, Typed, TypedIn, SrvType, RowType
  <2>2. srv[d].c \in Known' /\ srv[d].c.other \in 0 .. acts /\ acts \in Nat
    BY <2>1, Grown DEF SaveInv, Typed, Known
  <2>3. Fresh \in Known'
    BY <2>2 DEF Fresh, Known, Counts, Stamps
  <2> QED BY <2>2, <2>3
<1>4. [c EXCEPT !.other = srv[d].c.other + 1] \in Known'
  BY <1>3 DEF Known
<1>5. srv' \in SrvType(Known')
  <2>1. srv[d] \in RowType(Known') /\ srv \in SrvType(Known')
    BY <1>1 DEF TypedIn, SrvType
  <2>2. [srv[d] EXCEPT !.rival = [c EXCEPT !.other = srv[d].c.other + 1]] \in RowType(Known')
    BY <1>4, <2>1 DEF RowType
  <2> QED BY <1>2, <2>1, <2>2 DEF SrvType
<1>6. Typed'
  BY <1>1, <1>5 DEF OtherChecks, Counts, Typed, TypedIn, model, screen, pipeline, calls
<1>7. SerialSaves' /\ Latch'
  BY DEF SaveInv, SerialSaves, Latch, OtherChecks, pipeline, calls
<1> QED BY <1>6, <1>7 DEF SaveInv
LEMMA OtherStoresSave ==
    ASSUME SaveInv, Counts, NEW d \in Dags, OtherStores(d)
    PROVE  SaveInv'
<1>1. TypedIn(Known', KnownAsked')
  BY Grown DEF SaveInv
<1>2. srv' \in SrvType(Known')
  <2>1. srv[d] \in RowType(Known') /\ srv \in SrvType(Known')
    BY <1>1 DEF TypedIn, SrvType
  <2>2. [c |-> srv[d].rival, live |-> TRUE, rival |-> NoBase, mine |-> srv[d].mine]
          \in RowType(Known')
    BY <2>1 DEF RowType, OtherStores
  <2> QED BY <2>1, <2>2 DEF OtherStores, SrvType
<1>3. Typed'
  BY <1>1, <1>2 DEF OtherStores, Counts, Typed, TypedIn, model, screen, pipeline, calls
<1>4. SerialSaves' /\ Latch'
  BY DEF SaveInv, SerialSaves, Latch, OtherStores, pipeline, calls
<1> QED BY <1>3, <1>4 DEF SaveInv
-----------------------------------------------------------------------------
\* A step counts at most one edit and one action, or is a stutter.
LEMMA NextCounts ==
    ASSUME Typed, Next
    PROVE  Counts
<1>1. edits' = edits \/ (CanEdit /\ edits' = edits + 1)
  BY DEF Next, Machine, User, Saving, Loading, Deleting, DagPage, SettingsTab, StructureTab,
         TaskPage, NovicePage, TimerFires, ServerChecks, ServerStores, SaveAnswer,
         EditSettings, EditTask, TypeTask, BlurTask, graphMutate, graphSaveSession,
         graphDiscardSession, showDag, NavFlushed, NavServed, NavApplied, loadDags,
         renderDags, triggerActiveDag, TriggerPost, deleteActiveDag, DeleteDismissed,
         DeleteConfirmed, DeleteSent, ServerDelete, DeleteAnswer, OtherChecks, OtherStores, Stamp
<1>2. acts' = acts \/ (acts < MaxActs /\ acts' = acts + 1)
  BY DEF Next
<1> QED BY <1>1, <1>2 DEF Typed, Counts, CanEdit, Stamps

\* Every step keeps SaveInv.
LEMMA NextSave ==
    ASSUME SaveInv, [Next]_vars
    PROVE  SaveInv'
<1>1. CASE UNCHANGED vars
  <2>1. Known' = Known /\ KnownAsked' = KnownAsked
    BY <1>1 DEF vars, Known, KnownAsked
  <2>2. TypedIn(Known, KnownAsked)'
    BY <1>1, <2>1 DEF vars, SaveInv, Typed, TypedIn
  <2> QED BY <1>1, <2>2 DEF vars, SaveInv, Typed, SerialSaves, Latch
<1>2. CASE Machine /\ UNCHANGED acts
  <2>1. Counts
    BY <1>2, NextCounts DEF SaveInv, Next
  <2> QED BY <1>2, <2>1, TimerFiresSave, ServerChecksSave, ServerStoresSave, SaveAnswerSave,
             loadDagsSave, NavSave, NavAppliedSave, TriggerPostSave, DeleteSentSave,
             ServerDeleteSave, DeleteAnswerSave, OtherStoresSave
          DEF Machine, Saving, Loading, Deleting
<1>3. CASE User /\ acts < MaxActs /\ acts' = acts + 1
  <2>1. Counts
    BY <1>3, NextCounts DEF SaveInv, Next
  <2> QED BY <1>3, <2>1, EditSettingsSave, EditTaskSave, BlurTaskSave, graphMutateSave,
             graphSessionSave, showDagSave, loadDagsSave, triggerSave, DeleteStartSave,
             DeleteConfirmedSave, OtherChecksSave
          DEF User, DagPage, SettingsTab, StructureTab, TaskPage, NovicePage
<1> QED BY <1>1, <1>2, <1>3 DEF Next

\* The run's invariant follows.
LEMMA SaveInvImplies == SaveInv => EditorInv
<1> SUFFICES ASSUME SaveInv PROVE EditorInv
  OBVIOUS
<1>1. Known \subseteq Content
  BY DEF SaveInv, Typed, Known, Content, Stamps
<1>2. TypedIn(Content, KnownAsked)
  BY <1>1, TypesGrow DEF SaveInv, Typed
<1>3. TypeOK
  BY <1>2 DEF SaveInv, Typed, TypedIn, TypeOK, DType, SrvType, RowType, PostType, NavType
<1> QED BY <1>3 DEF SaveInv, EditorInv, DeleteSticks, Latch

\* Saves are serialized under saveInflight, and no save is on its way when
\* the DELETE is, so none revives the DAG behind it, whatever timers,
\* navigations, other editors and failures do in between (flushSave,
\* deleteActiveDag).
THEOREM EditorSafe == Spec => []EditorInv
<1>1. Init => SaveInv
  BY InitSave
<1>2. SaveInv /\ [Next]_vars => SaveInv'
  BY NextSave
<1> QED BY <1>1, <1>2, SaveInvImplies, PTL DEF Spec
-----------------------------------------------------------------------------
(***************************************************************************)
(* Where an accepted edit is: every action keeps AskedInv and TrigInv.     *)
(***************************************************************************)

\* The initial state has no accepted edit and no trigger.
LEMMA InitFresh == ASSUME Init PROVE FreshInv
<1>1. SaveInv
  BY InitSave
<1> QED BY <1>1 DEF Init, FreshInv, AskedInv, TrigInv

\* What a step owes an edit that the tab holds: it stays held, it stays
\* issued, and if it waits for its timer it still does, or is issued.
Kept(a) == /\ Held(a)' /\ (Issued(a) => Issued(a)')
           /\ timer = "armed" => timer' = "armed" \/ Issued(a)'

\* A step that keeps every held edit, and makes no new call, keeps FreshInv.
LEMMA KeptFresh ==
    ASSUME FreshInv, SaveInv', \A a \in KnownAsked : Held(a) => Kept(a),
           asked' = asked, trig' = trig \/ trig' = NoCall
    PROVE  FreshInv'
<1>1. AskedInv'
  BY DEF FreshInv, SaveInv, Typed, TypedIn, AskedInv, Kept
<1>2. TrigInv'
  BY DEF FreshInv, SaveInv, Typed, TypedIn, TrigInv, TrigType, Kept
<1> QED BY <1>1, <1>2 DEF FreshInv

\* A step that leaves the model, the requests and what is stored alone.
LEMMA FrameKept ==
    ASSUME NEW a, Held(a), UNCHANGED <<D, deleting, timer, inflight, pending, posts, last>>,
           srv' = srv \/ Landed(a, a.dag)' = Landed(a, a.dag)
    PROVE  Kept(a)
BY DEF Kept, Held, Issued, Landed

\* After any flush a held edit is issued: the flush sends the model, or
\* leaves it to the save in flight.
LEMMA flushSaveIssues ==
    ASSUME SaveInv, NEW a, Held(a), flushSave, UNCHANGED <<D, srv, deleting>>
    PROVE  Issued(a)' /\ Held(a)'
<1>1. Held(a)'
  BY DEF Held
<1>2. CASE inflight
  BY <1>2 DEF flushSave, Held, Issued
<1>3. CASE ~inflight
  <2>1. dagSpecFrom(D) \in posts'
    BY <1>3 DEF flushSave, Held
  <2>2. Carries(dagSpecFrom(D), a) /\ dagSpecFrom(D).res = "sent"
    BY DEF dagSpecFrom, Carries, Covers, Held
  <2> QED BY <1>1, <2>1, <2>2 DEF Issued
<1> QED BY <1>1, <1>2, <1>3 DEF SaveInv, Typed, TypedIn
LEMMA flushPendingSavesIssues ==
    ASSUME SaveInv, NEW a, Held(a), flushPendingSaves, UNCHANGED <<D, srv, deleting>>
    PROVE  Kept(a) /\ (timer = "armed" \/ Issued(a) => Issued(a)')
<1>1. CASE flushSave
  BY <1>1, flushSaveIssues DEF Kept
<1>2. CASE timer = "none" /\ UNCHANGED <<pipeline, last>>
  BY <1>2 DEF Kept, Held, Issued, Landed, pipeline
<1> QED BY <1>1, <1>2 DEF flushPendingSaves

\* The timer and the navigation flush.
LEMMA TimerFiresFresh ==
    ASSUME FreshInv, SaveInv', TimerFires
    PROVE  FreshInv'
<1>1. \A a \in KnownAsked : Held(a) => Kept(a)
  BY flushSaveIssues DEF FreshInv, TimerFires, model, Kept
<1> QED BY <1>1, KeptFresh DEF TimerFires, model, calls
LEMMA showDagFresh ==
    ASSUME FreshInv, SaveInv', NEW d \in Dags, showDag(d)
    PROVE  FreshInv'
<1>1. \A a \in KnownAsked : Held(a) => Kept(a)
  BY flushPendingSavesIssues DEF FreshInv, showDag, model
<1> QED BY <1>1, KeptFresh DEF showDag, model

\* The server's check and its write: a request that carries the edit still
\* does when it is answered, and is what the server then stores.
LEMMA ServerChecksFresh ==
    ASSUME FreshInv, SaveInv', NEW p \in posts, ServerChecks(p)
    PROVE  FreshInv'
<1>1. PICK r \in {"checked", "failed", "conflict"} : Answered(p, r)
  BY DEF ServerChecks
<1>2. posts = {p} /\ posts' = {[p EXCEPT !.res = r]}
  BY <1>1 DEF FreshInv, SaveInv, SerialSaves, Answered
<1>3. [p EXCEPT !.res = r].dag = p.dag /\ [p EXCEPT !.res = r].c = p.c
      /\ [p EXCEPT !.res = r].res = r
  BY DEF FreshInv, SaveInv, Typed, TypedIn, PostType
<1>4. ASSUME NEW a \in KnownAsked, Held(a) PROVE Kept(a)
  <2>1. Held(a)' /\ timer' = timer
    BY <1>4 DEF Held, ServerChecks, model
  <2>2. Issued(a) => Issued(a)'
    BY <1>2, <1>3 DEF Issued, Landed, Carries, Covers, ServerChecks
  <2> QED BY <2>1, <2>2 DEF Kept
<1> QED BY <1>4, KeptFresh DEF ServerChecks, model, calls
LEMMA ServerStoresFresh ==
    ASSUME FreshInv, SaveInv', NEW p \in posts, ServerStores(p)
    PROVE  FreshInv'
<1>1. posts = {p} /\ posts' = {[p EXCEPT !.res = "ok"]}
  BY DEF FreshInv, SaveInv, SerialSaves, Answered, ServerStores
<1>2. /\ [p EXCEPT !.res = "ok"].dag = p.dag /\ [p EXCEPT !.res = "ok"].c = p.c
      /\ p.dag \in Dags
  BY DEF FreshInv, SaveInv, Typed, TypedIn, PostType
<1>3. /\ srv'[p.dag].mine = [cfg |-> p.c.cfg, task |-> p.c.task]
      /\ \A d \in Dags \ {p.dag} : srv'[d] = srv[d]
  BY <1>2 DEF ServerStores, FreshInv, SaveInv, Typed, TypedIn, SrvType
<1>4. ASSUME NEW a \in KnownAsked, Held(a) PROVE Kept(a)
  <2>1. Held(a)' /\ timer' = timer
    BY <1>4 DEF Held, ServerStores, model
  <2>2. Carries(p, a) => Issued(a)'
    BY <1>1, <1>2, <1>3 DEF Issued, Landed, Carries, Covers
  <2>3. Landed(a, a.dag) /\ p.dag # a.dag => Landed(a, a.dag)'
    BY <1>3 DEF Landed, KnownAsked
  <2>4. Issued(a) => Issued(a)'
    BY <1>1, <1>2, <2>2, <2>3 DEF Issued, Carries, ServerStores
  <2> QED BY <2>1, <2>4 DEF Kept
<1> QED BY <1>4, KeptFresh DEF ServerStores, model, calls

\* The answer: a re-issued save carries the model of the moment, and an
\* answer without one ends the edit's save as stored or as an error.
LEMMA SaveAnswerFresh ==
    ASSUME FreshInv, SaveInv', NEW p \in posts, SaveAnswer(p)
    PROVE  FreshInv'
<1>1. posts = {p}
  BY DEF FreshInv, SaveInv, SerialSaves
<1>2. ASSUME NEW a \in KnownAsked, Held(a) PROVE Kept(a)
  <2>1. D \in DType(Known)
    BY <1>2 DEF Held, FreshInv, SaveInv, Typed, TypedIn
  <2>2. /\ D' # NoD /\ D'.dag = D.dag /\ D'.c = D.c /\ D'.base = D.base
    BY <1>2, <2>1 DEF SaveAnswer, Adopted, Held, DType, NoD
  <2>3. Held(a)' /\ timer' = timer
    BY <1>2, <2>2 DEF Held, SaveAnswer
  <2>4. CASE Reissues
    <3>1. dagSpecFrom(D') \in posts'
      BY <2>2, <2>4 DEF SaveAnswer
    <3>2. Carries(dagSpecFrom(D'), a) /\ dagSpecFrom(D').res = "sent"
      BY <2>3 DEF Held, Carries, Covers, dagSpecFrom
    <3> QED BY <2>3, <3>1, <3>2 DEF Kept, Issued
  <2>5. CASE ~Reissues
    <3>1. posts' = {} /\ ~pending /\ last' = IF p.res = "ok" THEN "ok" ELSE "error"
      BY <1>1, <1>2, <2>5 DEF SaveAnswer, Reissues, Held
    <3>2. Issued(a) => Issued(a)'
      BY <1>1, <3>1 DEF Issued, Landed, SaveAnswer
    <3> QED BY <2>3, <3>2 DEF Kept
  <2> QED BY <2>4, <2>5
<1> QED BY <1>2, KeptFresh DEF SaveAnswer, calls

\* An edited model that covers what the old one did keeps every held edit.
Extends(d) == /\ D # NoD /\ d # NoD /\ d.dag = D.dag
              /\ \A a \in KnownAsked : Held(a) => /\ Covers(d.c, a)
                                                  /\ d.base # NoBase => d.base.task >= a.task
LEMMA saveDagFresh ==
    ASSUME FreshInv, SaveInv', NEW d \in DType(Known'), Extends(d), saveDag(d),
           UNCHANGED <<srv, inflight, pending, deleting, posts, screen, calls, last>>
    PROVE  FreshInv'
<1>1. /\ [d EXCEPT !.base = NoBase] # NoD
      /\ [d EXCEPT !.base = NoBase].dag = d.dag /\ [d EXCEPT !.base = NoBase].c = d.c
      /\ [d EXCEPT !.base = NoBase].base = NoBase
  BY DEF DType, NoD
<1>2. ASSUME NEW a \in KnownAsked, Held(a) PROVE Kept(a)
  <2>0. /\ d # NoD /\ d.dag = D.dag /\ Covers(d.c, a)
        /\ d.base # NoBase => d.base.task >= a.task
    BY <1>2 DEF Extends
  <2>1. Held(a)'
    BY <1>1, <1>2, <2>0 DEF Held, saveDag, Covers
  <2>2. timer' \in {timer, "armed"}
    BY DEF saveDag
  <2>3. Issued(a) => Issued(a)'
    BY DEF Issued, Landed
  <2> QED BY <2>1, <2>2, <2>3 DEF Kept
<1>3. CASE asked' = asked
  BY <1>2, <1>3, KeptFresh DEF calls
<1>4. CASE /\ ~deleting /\ D' = [d EXCEPT !.base = NoBase] /\ timer' = "armed"
           /\ asked' = [dag |-> d.dag, cfg |-> d.c.cfg, task |-> d.c.task]
  <2>1. d.c.cfg >= d.c.cfg /\ d.c.task >= d.c.task
    BY DEF DType, Known, FreshInv, SaveInv, Typed, Stamps
  <2>2. Held(asked)'
    BY <1>1, <1>4, <2>1 DEF Held, Covers
  <2>3. TrigInv'
    BY <1>2 DEF FreshInv, SaveInv, Typed, TypedIn, TrigInv, TrigType, Kept, calls
  <2> QED BY <1>4, <2>2, <2>3 DEF FreshInv, AskedInv
<1> QED BY <1>3, <1>4 DEF saveDag
LEMMA TypeFresh ==
    ASSUME FreshInv, SaveInv', Extends(D'),
           UNCHANGED <<srv, pipeline, deleting, screen, calls, asked, last>>
    PROVE  FreshInv'
<1>1. ASSUME NEW a \in KnownAsked, Held(a) PROVE Kept(a)
  <2>1. /\ D' # NoD /\ D'.dag = D.dag /\ Covers(D'.c, a)
        /\ D'.base # NoBase => D'.base.task >= a.task
    BY <1>1 DEF Extends
  <2>2. Held(a)'
    BY <1>1, <2>1 DEF Held, Covers
  <2>3. timer' = timer /\ (Issued(a) => Issued(a)')
    BY DEF Issued, Landed, pipeline
  <2> QED BY <2>2, <2>3 DEF Kept
<1> QED BY <1>1, KeptFresh DEF calls

\* The models that the edits make cover what the old one did: a stamp is
\* newer than every stamp there is, and a graph session that is discarded
\* goes back to a model that was already covering.
LEMMA EditExtends ==
    ASSUME FreshInv, Editing, NEW bad \in BOOLEAN
    PROVE  /\ Extends(D)
           /\ Extends([D EXCEPT !.c.cfg = Stamp, !.c.badUrl = bad])
           /\ Extends([D EXCEPT !.c.task = Stamp, !.c.bad = bad])
           /\ Extends([D EXCEPT !.base = IF @ = NoBase THEN D.c ELSE @, !.c.graph = Stamp])
           /\ Extends([D EXCEPT !.base = NoBase])
           /\ D.base # NoBase =>
                 Extends([D EXCEPT !.base = NoBase,
                                   !.c = [D.base EXCEPT !.cfg = D.c.cfg, !.badUrl = D.c.badUrl]])
<1>1. D # NoD /\ D \in DType(Known) /\ edits \in Nat
  BY DEF FreshInv, SaveInv, Typed, TypedIn, Editing, Stamps
<1>2. D.c \in Known /\ (D.base # NoBase => D.base \in Known)
  BY <1>1 DEF DType
<1>3. \A a \in KnownAsked : Stamp >= a.cfg /\ Stamp >= a.task
  BY <1>1 DEF KnownAsked, Stamp
<1>4. \A a \in KnownAsked : Held(a) => /\ D.c.cfg >= a.cfg /\ D.c.task >= a.task
                                       /\ D.base # NoBase => D.base.task >= a.task
  BY DEF Held, Covers
<1>5. Extends(D)
  BY <1>1, <1>4 DEF Extends, Covers
<1>6. Extends([D EXCEPT !.c.cfg = Stamp, !.c.badUrl = bad])
  <2> DEFINE d == [D EXCEPT !.c.cfg = Stamp, !.c.badUrl = bad]
  <2>1. /\ d # NoD /\ d.dag = D.dag /\ d.base = D.base
        /\ d.c.cfg = Stamp /\ d.c.task = D.c.task
    BY <1>1, <1>2 DEF DType, Known, NoD
  <2> HIDE DEF d
  <2>2. Extends(d)
    BY <1>1, <1>3, <1>4, <2>1 DEF Extends, Covers
  <2> QED BY <2>2 DEF d
<1>7. Extends([D EXCEPT !.c.task = Stamp, !.c.bad = bad])
  <2> DEFINE d == [D EXCEPT !.c.task = Stamp, !.c.bad = bad]
  <2>1. /\ d # NoD /\ d.dag = D.dag /\ d.base = D.base
        /\ d.c.cfg = D.c.cfg /\ d.c.task = Stamp
    BY <1>1, <1>2 DEF DType, Known, NoD
  <2> HIDE DEF d
  <2>2. Extends(d)
    BY <1>1, <1>3, <1>4, <2>1 DEF Extends, Covers
  <2> QED BY <2>2 DEF d
<1>8. Extends([D EXCEPT !.base = IF @ = NoBase THEN D.c ELSE @, !.c.graph = Stamp])
  <2> DEFINE d == [D EXCEPT !.base = IF @ = NoBase THEN D.c ELSE @, !.c.graph = Stamp]
  <2>1. /\ d # NoD /\ d.dag = D.dag /\ d.base = IF D.base = NoBase THEN D.c ELSE D.base
        /\ d.c.cfg = D.c.cfg /\ d.c.task = D.c.task
    BY <1>1, <1>2 DEF DType, Known, NoD
  <2> HIDE DEF d
  <2>2. Extends(d)
    BY <1>1, <1>4, <2>1 DEF Extends, Covers
  <2> QED BY <2>2 DEF d
<1>9. Extends([D EXCEPT !.base = NoBase])
  <2> DEFINE d == [D EXCEPT !.base = NoBase]
  <2>1. d # NoD /\ d.dag = D.dag /\ d.base = NoBase /\ d.c = D.c
    BY <1>1, <1>2 DEF DType, NoD
  <2> HIDE DEF d
  <2>2. Extends(d)
    BY <1>1, <1>4, <2>1 DEF Extends, Covers
  <2> QED BY <2>2 DEF d
<1>10. ASSUME D.base # NoBase
       PROVE  Extends([D EXCEPT !.base = NoBase,
                                !.c = [D.base EXCEPT !.cfg = D.c.cfg, !.badUrl = D.c.badUrl]])
  <2> DEFINE d == [D EXCEPT !.base = NoBase,
                            !.c = [D.base EXCEPT !.cfg = D.c.cfg, !.badUrl = D.c.badUrl]]
  <2>1. /\ d # NoD /\ d.dag = D.dag /\ d.base = NoBase
        /\ d.c.cfg = D.c.cfg /\ d.c.task = D.base.task
    BY <1>1, <1>2, <1>10 DEF DType, Known, NoD
  <2> HIDE DEF d
  <2>2. Extends(d)
    BY <1>1, <1>4, <1>10, <2>1 DEF Extends, Covers
  <2> QED BY <2>2 DEF d
<1> QED BY <1>5, <1>6, <1>7, <1>8, <1>9, <1>10

\* The edits of the settings, the task forms and the graph session.
LEMMA EditFresh ==
    ASSUME FreshInv, Counts, SaveInv',
           \/ \E bad \in BOOLEAN : EditSettings(bad) \/ EditTask(bad) \/ TypeTask(bad)
           \/ BlurTask \/ graphMutate \/ graphSaveSession \/ graphDiscardSession
    PROVE  FreshInv'
<1> USE DEF CanEdit
<1>0. SaveInv /\ (Editing => D \in DType(Known'))
  BY Grown DEF FreshInv, SaveInv, TypedIn, Editing
<1>1. ASSUME NEW bad \in BOOLEAN, EditSettings(bad) PROVE FreshInv'
  BY <1>0, <1>1, EditTypes, EditExtends, saveDagFresh DEF EditSettings
<1>2. ASSUME NEW bad \in BOOLEAN, EditTask(bad) PROVE FreshInv'
  BY <1>0, <1>2, EditTypes, EditExtends, saveDagFresh DEF EditTask
<1>3. ASSUME NEW bad \in BOOLEAN, TypeTask(bad) PROVE FreshInv'
  BY <1>3, EditExtends, TypeFresh DEF TypeTask
<1>4. CASE BlurTask
  BY <1>0, <1>4, EditExtends, saveDagFresh DEF BlurTask
<1>5. CASE graphMutate
  BY <1>5, EditExtends, TypeFresh DEF graphMutate
<1>6. CASE graphSaveSession
  <2>1. [D EXCEPT !.base = NoBase] \in DType(Known')
    BY <1>0, <1>6 DEF DType, graphSaveSession
  <2> QED BY <1>6, <2>1, EditExtends, saveDagFresh DEF graphSaveSession
<1>7. CASE graphDiscardSession
  BY <1>7, EditExtends, TypeFresh DEF graphDiscardSession
<1> QED BY <1>1, <1>2, <1>3, <1>4, <1>5, <1>6, <1>7

\* A page that is replaced and a confirmed delete give the edits up.
LEMMA GiveUpFresh ==
    ASSUME SaveInv, SaveInv', GiveUp
    PROVE  FreshInv'
<1>1. asked' = NotAsked
  BY DEF GiveUp
<1>2. trig' # NoCall => trig'.asked = NotAsked
  BY DEF GiveUp, SaveInv, Typed, TypedIn, TrigType
<1> QED BY <1>1, <1>2 DEF FreshInv, AskedInv, TrigInv

\* A trigger flushes: from then on the edit it waits for is issued.
LEMMA triggerFresh ==
    ASSUME FreshInv, SaveInv', triggerActiveDag
    PROVE  FreshInv'
<1>1. trig' = [pc |-> "flush", asked |-> asked] /\ asked' = asked
  BY DEF triggerActiveDag, model
<1>2. ASSUME NEW a \in KnownAsked, Held(a)
      PROVE  Kept(a) /\ (timer = "armed" \/ Issued(a) => Issued(a)')
  BY <1>2, flushPendingSavesIssues DEF FreshInv, triggerActiveDag, model
<1>3. asked # NotAsked => /\ asked \in KnownAsked /\ Held(asked)
                          /\ timer = "armed" \/ Issued(asked)
  BY DEF FreshInv, SaveInv, Typed, TypedIn, AskedInv
<1>4. ASSUME asked # NotAsked PROVE Held(asked)' /\ Issued(asked)'
  <2>1. PICK a \in KnownAsked : a = asked
    BY <1>3, <1>4
  <2>2. Held(a)' /\ Issued(a)'
    BY <1>2, <1>3, <1>4, <2>1 DEF Kept
  <2> QED BY <1>1, <2>1, <2>2
<1>5. AskedInv'
  BY <1>1, <1>4 DEF AskedInv
<1>6. TrigInv'
  BY <1>1, <1>4 DEF TrigInv
<1> QED BY <1>5, <1>6 DEF FreshInv

\* Everything else leaves the pipeline and the model alone, or happens
\* under the latch, when no edit is held.
LEMMA RestFresh ==
    ASSUME FreshInv, SaveInv',
           \/ loadDags \/ renderDags \/ TriggerPost
           \/ \E n \in navs : NavFlushed(n) \/ NavServed(n)
           \/ deleteActiveDag \/ DeleteDismissed \/ DeleteSent
    PROVE  FreshInv'
<1>1. /\ UNCHANGED <<D, deleting, timer, inflight, pending, posts, last, srv, asked>>
      /\ trig' = trig \/ trig' = NoCall
  BY DEF loadDags, renderDags, TriggerPost, NavFlushed, NavServed, deleteActiveDag,
         DeleteDismissed, DeleteSent, model, pipeline, calls
<1>2. \A a \in KnownAsked : Held(a) => Kept(a)
  BY <1>1, FrameKept
<1> QED BY <1>1, <1>2, KeptFresh
LEMMA LatchedFresh ==
    ASSUME FreshInv, SaveInv', ServerDelete \/ DeleteAnswer
    PROVE  FreshInv'
<1>1. deleting
  BY DEF FreshInv, SaveInv, Latch, ServerDelete, DeleteAnswer
<1>2. \A a \in KnownAsked : ~Held(a)
  BY <1>1 DEF Held
<1> QED BY <1>2, KeptFresh DEF ServerDelete, DeleteAnswer, model
LEMMA OtherFresh ==
    ASSUME FreshInv, SaveInv', NEW d \in Dags, OtherChecks(d) \/ OtherStores(d)
    PROVE  FreshInv'
<1>1. \A x \in Dags : srv'[x].mine = srv[x].mine
  BY DEF OtherChecks, OtherStores, FreshInv, SaveInv, Typed, TypedIn, SrvType, RowType
<1>2. \A a \in KnownAsked : Landed(a, a.dag)' = Landed(a, a.dag)
  BY <1>1 DEF Landed, KnownAsked
<1>3. \A a \in KnownAsked : Held(a) => Kept(a)
  BY <1>2, FrameKept DEF OtherChecks, OtherStores, model, pipeline
<1> QED BY <1>3, KeptFresh DEF OtherChecks, OtherStores, model, calls

\* Every step keeps FreshInv.
LEMMA NextFresh ==
    ASSUME FreshInv, [Next]_vars
    PROVE  FreshInv'
<1>0. SaveInv /\ SaveInv'
  BY NextSave DEF FreshInv
<1>1. CASE UNCHANGED vars
  BY <1>0, <1>1 DEF vars, FreshInv, AskedInv, TrigInv, Held, Issued, Landed
<1>2. CASE Machine /\ UNCHANGED acts
  BY <1>0, <1>2, TimerFiresFresh, ServerChecksFresh, ServerStoresFresh, SaveAnswerFresh,
     RestFresh, GiveUpFresh, LatchedFresh, OtherFresh
     DEF Machine, Saving, Loading, Deleting, NavApplied
<1>3. CASE User /\ acts < MaxActs /\ acts' = acts + 1
  <2>1. Counts
    BY <1>0, <1>3, NextCounts DEF SaveInv, Next
  <2> QED BY <1>0, <1>3, <2>1, EditFresh, showDagFresh, triggerFresh, RestFresh, GiveUpFresh,
             OtherFresh
          DEF User, DagPage, SettingsTab, StructureTab, TaskPage, NovicePage, DeleteConfirmed
<1> QED BY <1>1, <1>2, <1>3 DEF Next

\* When a trigger posts nothing is in flight, so the edit it waited for was
\* refused or is stored.
LEMMA PostIsFresh ==
    ASSUME FreshInv, TriggerPost, trig.asked # NotAsked, last # "error"
    PROVE  Landed(trig.asked, trig.asked.dag)
<1>1. Issued(trig.asked)
  BY DEF FreshInv, TrigInv, TriggerPost
<1>2. posts = {} /\ ~inflight
  BY DEF FreshInv, SaveInv, SerialSaves, TriggerPost
<1> QED BY <1>1, <1>2 DEF Issued

\* A trigger waits for the saves: what this tab has stored last has every edit
\* accepted before the click when the run is requested, unless its save failed
\* or its page was given up, whatever navigations, re-issued saves and other
\* editors do meanwhile; these may have replaced it (triggerActiveDag,
\* flushPendingSaves, flushSave, buildDAG).
THEOREM TriggerRunsSaved == Spec => TriggerFresh
<1>1. Init => FreshInv
  BY InitFresh
<1>2. FreshInv /\ [Next]_vars => FreshInv'
  BY NextFresh
<1>3. FreshInv => (TriggerPost /\ trig.asked # NotAsked /\ last # "error"
                     => Landed(trig.asked, trig.asked.dag))
  BY PostIsFresh
<1> QED BY <1>1, <1>2, <1>3, PTL DEF Spec, TriggerFresh
=============================================================================
