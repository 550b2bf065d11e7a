--------------------------- MODULE ConsoleProofs ---------------------------
(***************************************************************************)
(* The console's screens keep ConsoleInv, and no poll or heartbeat draws   *)
(* on a page the user has left, for every set of runs and screens, every   *)
(* number of loads in flight and every fault.                              *)
(*                                                                         *)
(* ConsoleInv is not inductive: that an interval's generation is one its   *)
(* screen has had needs the same of the loads that start intervals, that a *)
(* redrawn run page is one of the runs needs that the run view never has a *)
(* null currentRun, and that a write's effect stays among the runs needs   *)
(* that the buttons of a run only ever name its own page.                  *)
(***************************************************************************)
EXTENDS Console, TLAPS

USE ConsoleConstants

Answer == [auth : BOOLEAN, live : BOOLEAN]
LoadType == [to : Routes, gen : Nat, old : Answer]
PollType == [to : Routes, gen : Nat, on : BOOLEAN, asks : Seq(Answer), told : BOOLEAN]
PageType == [kind : Screens \cup {"error", "blank"}]
              \cup [kind : {"run"}, run : Runs, alive : BOOLEAN, gen : Nat, told : BOOLEAN]

\* The screen: the run view has a run.
ScreenInv ==
    /\ view \in Screens \cup {"run"} /\ cur \in Runs \cup {NoRun}
    /\ view = "run" => cur \in Runs
    /\ page \in PageType
    /\ cache \subseteq Screens /\ log \in BOOLEAN

\* The generations: a load of a run, and every interval, has one that its
\* screen was given.
GenInv ==
    /\ gen \in [Polled -> Nat] /\ handle \in [Polled -> Nat]
    /\ \A k \in Polled : handle[k] <= gen[k]
    /\ loads \subseteq LoadType
    /\ \A l \in loads : l.to.kind = "run" => l.gen \in 1 .. gen["run"]
    /\ polls \subseteq PollType
    /\ \A p \in polls : p.to.kind \in Polled /\ p.gen \in 1 .. gen[p.to.kind]

RouteInv == hash \in Routes /\ suppress \in BOOLEAN /\ events \in Nat
AuthInv == /\ user \in BOOLEAN /\ overlay \in BOOLEAN
           /\ login \in {"none", "posting", "me", "mode", "boot"} /\ LoginGate
           /\ beat \in {"idle", "info", "overview"}
\* A write to a run names its page.
ServerInv ==
    /\ session \in BOOLEAN /\ down \in BOOLEAN /\ live \subseteq Runs
    /\ post \in [op : Writes \cup {"none"}, to : Routes]
    /\ post.op \in {"stop", "cancel", "start"} => post.to.kind = "run"

Inv == ScreenInv /\ GenInv /\ RouteInv /\ AuthInv /\ ServerInv
-----------------------------------------------------------------------------
\* A route is a screen of the instance or the page of one of the runs.
LEMMA RouteTypes ==
    ASSUME NEW h \in Routes
    PROVE  /\ h.kind \in Screens \cup {"run"}
           /\ h.kind = "run" => h.run \in Runs
           /\ h.kind # "run" => h = [kind |-> h.kind] /\ h.kind \in Screens
BY DEF Routes, RunPage
LEMMA RunPageRoute == \A r \in Runs : RunPage(r) \in Routes /\ RunPage(r).kind = "run"
BY DEF Routes, RunPage
LEMMA ScreenRoute == \A k \in Screens : [kind |-> k] \in Routes /\ [kind |-> k].kind = k
BY DEF Routes
LEMMA DashboardRoute == Dashboard \in Routes /\ Dashboard.kind = "dags"
BY ScreenRoute DEF Dashboard

\* What the server says of a route is a pair of Booleans.
LEMMA NowType == ASSUME ServerInv, NEW h PROVE Now(h) \in Answer
BY DEF ServerInv, Now, Answer

\* The pages.
LEMMA PageTypes ==
    /\ \A k \in Screens : [kind |-> k] \in PageType
    /\ Error \in PageType /\ Blank \in PageType
    /\ \A r \in Runs, b \in BOOLEAN, g \in Nat, d \in BOOLEAN :
          /\ Shown(r, b, g, d) \in PageType
          /\ Shown(r, b, g, d).kind = "run" /\ Shown(r, b, g, d).run = r
BY DEF PageType, Error, Blank, Shown

\* The initial state satisfies the invariant.
LEMMA InitInv == ASSUME Init PROVE Inv
<1>1. ScreenInv
  BY PageTypes DEF Init, ScreenInv
<1>2. GenInv
  BY DEF Init, GenInv, Polled
<1>3. RouteInv /\ AuthInv
  BY DashboardRoute DEF Init, RouteInv, AuthInv, LoginGate
<1>4. ServerInv
  <2>1. NoPost \in [op : Writes \cup {"none"}, to : Routes] /\ NoPost.op = "none"
    BY DashboardRoute DEF NoPost
  <2> QED BY <2>1 DEF Init, ServerInv
<1> QED BY <1>1, <1>2, <1>3, <1>4 DEF Inv
-----------------------------------------------------------------------------
(***************************************************************************)
(* The parts that the actions share.                                       *)
(***************************************************************************)

\* Intervals: dropping the dead ones and clearing one of them keep what is
\* known of each.
PollOK(p, g) == /\ p \in PollType /\ p.to.kind \in Polled
                /\ p.gen \in 1 .. g[p.to.kind]
LEMMA PollsCleared ==
    ASSUME GenInv, NEW k
    PROVE  \A p \in clearInterval(k) : PollOK(p, gen)
<1>1. \A p \in polls : PollOK(p, gen) /\ PollOK([p EXCEPT !.on = FALSE], gen)
  BY DEF GenInv, PollOK, PollType
<1> QED BY <1>1 DEF clearInterval, Alive
LEMMA PollsReplaced ==
    ASSUME GenInv, NEW p \in polls, NEW q, PollOK(q, gen)
    PROVE  \A x \in Replaced(p, q) : PollOK(x, gen)
BY DEF GenInv, PollOK, Replaced, Alive
LEMMA PollStarted ==
    ASSUME NEW h \in Routes, h.kind \in Polled, NEW g, NEW n \in Nat, n \in 1 .. g[h.kind]
    PROVE  PollOK(Started(h, n), g)
<1>1. <<>> \in Seq(Answer)
  OBVIOUS
<1> QED BY <1>1 DEF PollOK, PollType, Started

\* A request is sent, and any one of those in flight answered.
LEMMA AsksType ==
    ASSUME NEW q \in Seq(Answer)
    PROVE  /\ \A s \in Answer : Append(q, s) \in Seq(Answer)
           /\ \A i \in DOMAIN q : q[i] \in Answer /\ RemoveAt(q, i) \in Seq(Answer)
<1>1. ASSUME NEW i \in DOMAIN q PROVE q[i] \in Answer /\ RemoveAt(q, i) \in Seq(Answer)
  <2>1. i \in 1 .. Len(q) /\ Len(q) \in Nat
    OBVIOUS
  <2>2. i - 1 \in 0 .. Len(q) /\ i + 1 \in 1 .. Len(q) + 1
    BY <2>1
  <2>3. SubSeq(q, 1, i - 1) \in Seq(Answer) /\ SubSeq(q, i + 1, Len(q)) \in Seq(Answer)
    BY <2>1, <2>2
  <2> QED BY <2>1, <2>3 DEF RemoveAt
<1> QED BY <1>1

\* Opening a screen.
LEMMA EnterInv ==
    ASSUME Inv, NEW h \in Routes, Enter(h)
    PROVE  ScreenInv' /\ GenInv'
<1>1. /\ h.kind \in Screens \cup {"run"}
      /\ h.kind = "run" => h.run \in Runs
  BY RouteTypes
<1>2. ScreenInv'
  BY <1>1 DEF Inv, ScreenInv, Enter
<1>3. /\ gen' \in [Polled -> Nat] /\ \A k \in Polled : gen[k] <= gen'[k]
      /\ h.kind = "run" => gen'["run"] >= 1
  BY DEF Inv, GenInv, Enter, Polled
<1>4. /\ handle' \in [Polled -> Nat]
      /\ \A k \in Polled : handle'[k] <= gen'[k]
  BY <1>3 DEF Inv, GenInv, Enter
<1>5. \A p \in polls' : PollOK(p, gen)
  BY PollsCleared DEF Inv, GenInv, Enter, PollOK
<1>6. polls' \subseteq PollType
      /\ \A p \in polls' : p.to.kind \in Polled /\ p.gen \in 1 .. gen'[p.to.kind]
  BY <1>3, <1>5 DEF Inv, GenInv, PollOK
<1>7. [to |-> h, gen |-> gen'["run"], old |-> Now(h)] \in LoadType
  BY <1>3, NowType DEF Inv, LoadType, Polled
<1>8. loads' \subseteq LoadType
      /\ \A l \in loads' : l.to.kind = "run" => l.gen \in 1 .. gen'["run"]
  BY <1>3, <1>7 DEF Inv, GenInv, Enter, Polled
<1> QED BY <1>2, <1>3, <1>4, <1>6, <1>8 DEF GenInv
LEMMA setHashInv ==
    ASSUME RouteInv, NEW h \in Routes, setHash(h)
    PROVE  RouteInv'
<1>1. CASE h = hash
  BY <1>1 DEF RouteInv, setHash, route
<1>2. CASE h # hash
  BY <1>2 DEF RouteInv, setHash
<1> QED BY <1>1, <1>2

\* A bounce forgets the user only when it brings the login up.
LEMMA BounceInv ==
    ASSUME AuthInv, NEW res, Bounce(res), login' \in {"none", "posting", "me", "mode", "boot"},
           user \/ overlay \/ login' = "me", beat' \in {"idle", "info", "overview"}
    PROVE  AuthInv'
BY DEF AuthInv, Bounce, LoginGate
-----------------------------------------------------------------------------
(***************************************************************************)
(* One lemma per group of actions.                                         *)
(***************************************************************************)

\* Clicks and redraws.
LEMMA OpenInv ==
    ASSUME Inv, NEW h \in Routes, Open(h)
    PROVE  ScreenInv' /\ GenInv' /\ RouteInv'
BY EnterInv, setHashInv DEF Inv, Open
LEMMA ClickInv ==
    ASSUME Inv, NEW h \in Routes, Click(h), UNCHANGED post
    PROVE  Inv'
<1>1. ScreenInv' /\ GenInv' /\ RouteInv'
  BY OpenInv DEF Click
<1>2. AuthInv' /\ ServerInv'
  BY DEF Inv, Click, AuthInv, LoginGate, ServerInv, auth, server
<1> QED BY <1>1, <1>2 DEF Inv
LEMMA RedrawInv ==
    ASSUME Inv, Redraw
    PROVE  ScreenInv' /\ GenInv' /\ RouteInv'
<1>1. view \in Screens /\ page' \in PageType
  BY PageTypes DEF Inv, ScreenInv, Redraw
<1>2. ScreenInv'
  BY <1>1 DEF Inv, ScreenInv, Redraw
<1>3. GenInv'
  BY DEF Inv, GenInv, Redraw
<1>4. RouteInv'
  BY DEF Inv, RouteInv, Redraw, route
<1> QED BY <1>2, <1>3, <1>4
LEMMA setLangInv ==
    ASSUME Inv, setLang, UNCHANGED post
    PROVE  Inv'
<1>1. ScreenInv' /\ GenInv' /\ RouteInv'
  <2>1. CASE Redraw
    BY <2>1, RedrawInv
  <2>2. CASE view = "run" /\ Open(RunPage(cur))
    BY <2>2, OpenInv, RunPageRoute DEF Inv, ScreenInv
  <2>3. CASE view = "pools" /\ Open([kind |-> "pools"])
    BY <2>3, OpenInv, ScreenRoute DEF Inv, ScreenInv
  <2> QED BY <2>1, <2>2, <2>3 DEF setLang
<1>2. AuthInv' /\ ServerInv'
  BY DEF Inv, setLang, AuthInv, LoginGate, ServerInv, auth, server
<1> QED BY <1>1, <1>2 DEF Inv
LEMMA setModeInv ==
    ASSUME Inv, setMode, UNCHANGED post
    PROVE  Inv'
<1>1. ScreenInv' /\ GenInv'
  BY EnterInv DEF Inv, RouteInv, setMode
<1>2. RouteInv' /\ AuthInv' /\ ServerInv'
  BY DEF Inv, setMode, RouteInv, AuthInv, LoginGate, ServerInv, auth, server, route
<1> QED BY <1>1, <1>2 DEF Inv

\* Steps that leave the screen, its loads and its intervals alone.
LEMMA ScreenFrame ==
    ASSUME Inv, UNCHANGED <<screen, loads, polls>>
    PROVE  ScreenInv' /\ GenInv'
<1>1. ScreenInv'
  BY DEF Inv, ScreenInv, screen
<1>2. GenInv'
  BY DEF Inv, GenInv, screen
<1> QED BY <1>1, <1>2

\* The hash: its events and Back.
LEMMA HashchangeInv ==
    ASSUME Inv, Hashchange \/ Back, UNCHANGED post
    PROVE  Inv'
<1>1. ScreenInv' /\ GenInv'
  <2>1. CASE UNCHANGED <<screen, loads, polls>>
    BY <2>1, ScreenFrame
  <2>2. CASE Enter(hash)
    BY <2>2, EnterInv DEF Inv, RouteInv
  <2> QED BY <2>1, <2>2 DEF Hashchange, Back
<1>2. RouteInv'
  <2>1. CASE Hashchange
    <3>1. events' \in Nat /\ hash' = hash
      BY <2>1 DEF Inv, RouteInv, Hashchange
    <3>2. suppress' = FALSE \/ suppress' = suppress
      BY <2>1, Zenon DEF Hashchange
    <3> QED BY <3>1, <3>2 DEF Inv, RouteInv
  <2>2. CASE Back
    BY <2>2, DashboardRoute DEF Inv, RouteInv, Back
  <2> QED BY <2>1, <2>2
<1>3. AuthInv' /\ ServerInv'
  BY DEF Inv, Hashchange, Back, AuthInv, LoginGate, ServerInv, auth, server
<1> QED BY <1>1, <1>2, <1>3 DEF Inv

\* The answer of a load, screen by screen.
LEMMA DrawnInv ==
    ASSUME Inv, NEW l \in loads, l.to.kind # "run",
           page' \in {page, l.to, Error}, view' = view \/ view' = l.to.kind,
           cache' \subseteq cache \cup {l.to.kind}, UNCHANGED <<cur, log>>
    PROVE  ScreenInv'
<1>1. PICK k \in Screens : l.to = [kind |-> k] /\ l.to.kind = k
  BY RouteTypes DEF Inv, GenInv, LoadType
<1>2. l.to \in PageType /\ Error \in PageType
  BY <1>1, PageTypes
<1> QED BY <1>1, <1>2 DEF Inv, ScreenInv
LEMMA GenFrame ==
    ASSUME GenInv, UNCHANGED <<gen, handle, polls>>, loads' \subseteq loads
    PROVE  GenInv'
BY DEF GenInv
LEMMA WorkersLoadedGen ==
    ASSUME Inv, NEW l \in loads, NEW ok, WorkersLoaded(l, ok), loads' \subseteq loads
    PROVE  GenInv'
<1>1. l.to \in Routes
  BY DEF Inv, GenInv, LoadType
<1>2. /\ gen' \in [Polled -> Nat] /\ gen'["run"] = gen["run"]
      /\ gen'["workers"] = gen["workers"] + 1 /\ gen["workers"] \in Nat
      /\ handle' \in [Polled -> Nat] /\ \A k \in Polled : handle'[k] <= gen'[k]
  BY DEF Inv, GenInv, WorkersLoaded, Polled
<1>3. \A k \in Polled : gen[k] <= gen'[k] /\ gen[k] \in Nat
  BY <1>2 DEF Inv, GenInv, Polled
<1>4. PollOK(Started(l.to, gen'["workers"]), gen')
  <2>1. l.to.kind = "workers" /\ l.to.kind \in Polled
    BY DEF WorkersLoaded, Polled
  <2>2. gen'["workers"] \in Nat /\ gen'["workers"] \in 1 .. gen'["workers"]
    BY <1>2
  <2> QED BY <1>1, <2>1, <2>2, PollStarted
<1>5. \A p \in polls : PollOK(p, gen')
  BY <1>2, <1>3 DEF Inv, GenInv, PollOK
<1>6. \A p \in polls' : PollOK(p, gen')
  BY <1>4, <1>5 DEF WorkersLoaded
<1> QED BY <1>2, <1>6 DEF Inv, GenInv, PollOK
LEMMA RunLoadedInv ==
    ASSUME Inv, NEW l \in loads, NEW ok, NEW b \in BOOLEAN, RunLoaded(l, ok, b),
           loads' \subseteq loads
    PROVE  ScreenInv' /\ GenInv'
<1>1. /\ l.to \in Routes /\ l.to.kind = "run" /\ l.to.run \in Runs /\ l.gen \in Nat
      /\ l.gen \in 1 .. gen["run"]
  BY RouteTypes DEF Inv, GenInv, LoadType, RunLoaded
<1>2. page' \in PageType
  BY <1>1, PageTypes DEF RunLoaded
<1>3. ScreenInv'
  BY <1>2 DEF Inv, ScreenInv, RunLoaded
<1>4. PollOK(Started(l.to, l.gen), gen)
  BY <1>1, PollStarted DEF Polled
<1>5. \A p \in polls' : PollOK(p, gen)
  BY <1>4 DEF RunLoaded, Inv, GenInv, PollOK
<1>6. handle' \in [Polled -> Nat] /\ \A k \in Polled : handle'[k] <= gen[k]
  BY <1>1 DEF RunLoaded, Inv, GenInv, Polled
<1>7. GenInv'
  BY <1>5, <1>6 DEF RunLoaded, Inv, GenInv, PollOK
<1> QED BY <1>3, <1>7
LEMMA AppliedInv ==
    ASSUME Inv, NEW l \in loads, Applied(l), UNCHANGED post
    PROVE  Inv'
<1>1. PICK s \in {l.old, Now(l.to)} :
        /\ \/ DagsLoaded(l, Response(s) = "ok") \/ AuditLoaded(l, Response(s) = "ok")
           \/ PoolsLoaded(l, Response(s) = "ok") \/ WorkersLoaded(l, Response(s) = "ok")
           \/ RunLoaded(l, Response(s) = "ok", s.live) \/ DagLoaded(l, Response(s) = "ok")
           \/ LoadFailed(l, Response(s) = "ok")
        /\ Bounce(Response(s))
  BY DEF Applied
<1>2. s.live \in BOOLEAN
  BY NowType DEF Inv, GenInv, LoadType, Answer
<1>3. loads' \subseteq loads
  BY DEF Applied
<1>4. ScreenInv' /\ GenInv' /\ RouteInv'
  <2>1. CASE DagsLoaded(l, Response(s) = "ok") \/ AuditLoaded(l, Response(s) = "ok")
    <3>1. ScreenInv'
      BY <2>1, DrawnInv DEF DagsLoaded, AuditLoaded
    <3>2. GenInv' /\ RouteInv'
      BY <1>3, <2>1, GenFrame DEF Inv, DagsLoaded, AuditLoaded, RouteInv, route
    <3> QED BY <3>1, <3>2
  <2>2. CASE PoolsLoaded(l, Response(s) = "ok")
    <3>1. ScreenInv'
      BY <2>2, DrawnInv DEF PoolsLoaded
    <3>2. GenInv' /\ RouteInv'
      BY <1>3, <2>2, GenFrame DEF Inv, PoolsLoaded, RouteInv, route
    <3> QED BY <3>1, <3>2
  <2>3. CASE WorkersLoaded(l, Response(s) = "ok")
    <3>1. ScreenInv'
      BY <2>3, DrawnInv DEF WorkersLoaded
    <3>2. GenInv' /\ RouteInv'
      BY <1>3, <2>3, WorkersLoadedGen DEF Inv, WorkersLoaded, RouteInv, route
    <3> QED BY <3>1, <3>2
  <2>4. CASE RunLoaded(l, Response(s) = "ok", s.live)
    <3>1. ScreenInv' /\ GenInv'
      BY <1>2, <1>3, <2>4, RunLoadedInv
    <3>2. RouteInv'
      BY <2>4 DEF Inv, RunLoaded, RouteInv, route
    <3> QED BY <3>1, <3>2
  <2>5. CASE DagLoaded(l, Response(s) = "ok")
    <3>1. ScreenInv'
      BY <2>5, DrawnInv DEF DagLoaded
    <3>2. GenInv' /\ RouteInv'
      BY <1>3, <2>5, GenFrame DEF Inv, GenInv, LoadType, DagLoaded, RouteInv
    <3> QED BY <3>1, <3>2
  <2>6. CASE LoadFailed(l, Response(s) = "ok")
    <3>1. ScreenInv'
      <4>1. l.to.kind = "dag" => "dag" \in Screens
        BY RouteTypes DEF Inv, GenInv, LoadType
      <4> QED BY <2>6, <4>1, PageTypes DEF LoadFailed, Inv, ScreenInv
    <3>2. GenInv' /\ RouteInv'
      BY <1>3, <2>6, GenFrame DEF Inv, LoadFailed, RouteInv, route
    <3> QED BY <3>1, <3>2
  <2> QED BY <1>1, <2>1, <2>2, <2>3, <2>4, <2>5, <2>6
<1>5. AuthInv'
  BY <1>1, BounceInv DEF Inv, AuthInv, LoginGate, Applied
<1>6. ServerInv'
  BY DEF Inv, ServerInv, Applied, server
<1> QED BY <1>4, <1>5, <1>6 DEF Inv

\* The intervals.
LEMMA PollTickInv ==
    ASSUME Inv, NEW p \in polls, PollTick(p), UNCHANGED post
    PROVE  Inv'
<1>1. /\ PollOK([p EXCEPT !.asks = Append(@, Now(p.to))], gen)
      /\ PollOK(Stopped(p), gen)
  <2>1. p \in PollType /\ PollOK(p, gen)
    BY DEF Inv, GenInv, PollOK
  <2>2. p.asks \in Seq(Answer) /\ Now(p.to) \in Answer
    BY <2>1, NowType DEF PollType, Inv
  <2>3. Append(p.asks, Now(p.to)) \in Seq(Answer)
    BY <2>2, AsksType
  <2> QED BY <2>1, <2>3 DEF PollOK, PollType, Stopped
<1>2. \A x \in polls' : PollOK(x, gen)
  BY <1>1, PollsReplaced DEF Inv, PollTick
<1>3. GenInv'
  BY <1>2 DEF Inv, GenInv, PollOK, PollTick, screen
<1>4. ScreenInv' /\ RouteInv'
  BY DEF Inv, ScreenInv, RouteInv, PollTick, screen, route
<1>5. AuthInv' /\ ServerInv'
  BY DEF Inv, AuthInv, LoginGate, ServerInv, PollTick, auth, server
<1> QED BY <1>3, <1>4, <1>5 DEF Inv
\* The answer s to the request i: what is drawn, and whether the interval goes on.
Answered(p, i, s) ==
    LET ok == Response(s) = "ok"
        throws == p.to.kind = "run" /\ page.kind # "run" /\ StillCurrent(p)
    IN
    /\ IF ~(ok /\ StillCurrent(p)) THEN UNCHANGED <<page, log>>
       ELSE IF p.to.kind = "run" THEN renderRunDynamic(p, s) \/ renderNovRun(p, s)
       ELSE renderWorkers /\ UNCHANGED log
    /\ \E goes \in {Goes(p, s), Goes(p, s) \/ throws} :
        polls' = Replaced(p, [p EXCEPT !.asks = RemoveAt(@, i), !.on = @ /\ (ok => goes),
                                       !.told = @ \/ (p.to.kind = "run" /\ ~s.live /\ page' = Refreshed(p, s))])
    /\ Bounce(Response(s))
LEMMA PollAnswerInv ==
    ASSUME Inv, NEW p \in polls, PollAnswer(p), UNCHANGED post
    PROVE  Inv'
<1>1. PICK i, s :
        /\ i \in DOMAIN p.asks /\ s \in {p.asks[i], Now(p.to)}
        /\ \/ UNCHANGED <<page, log>>
           \/ p.to.kind = "run" /\ (renderRunDynamic(p, s) \/ renderNovRun(p, s))
           \/ renderWorkers /\ UNCHANGED log
        /\ \E b, d \in BOOLEAN :
             polls' = Replaced(p, [p EXCEPT !.asks = RemoveAt(@, i), !.on = b, !.told = d])
        /\ Bounce(Response(s))
  <2>1. PICK i \in DOMAIN p.asks : \E s \in {p.asks[i], Now(p.to)} : Answered(p, i, s)
    BY DEF PollAnswer, Answered
  <2>2. PICK s \in {p.asks[i], Now(p.to)} : Answered(p, i, s)
    BY <2>1
  <2> QED BY <2>2 DEF Answered
<1>0. /\ p.asks \in Seq(Answer) /\ s \in Answer /\ p.told \in BOOLEAN
      /\ RemoveAt(p.asks, i) \in Seq(Answer)
  <2>1. p.asks \in Seq(Answer) /\ p.told \in BOOLEAN
    BY DEF Inv, GenInv, PollType
  <2>2. i \in DOMAIN p.asks /\ s \in {p.asks[i], Now(p.to)}
    BY <1>1
  <2>3. p.asks[i] \in Answer /\ RemoveAt(p.asks, i) \in Seq(Answer)
    BY <2>1, <2>2, AsksType
  <2>4. Now(p.to) \in Answer
    BY NowType DEF Inv
  <2> QED BY <2>1, <2>2, <2>3, <2>4
<1>2. s.live \in BOOLEAN
  BY <1>0 DEF Answer
<1>3. p.gen \in Nat /\ (p.to.kind = "run" => p.to.run \in Runs)
  BY RouteTypes DEF Inv, GenInv, PollType
<1>4. page' \in PageType /\ log' \in BOOLEAN
  <2>1. page \in PageType /\ log \in BOOLEAN
    BY DEF Inv, ScreenInv
  <2>2. p.to.kind = "run" => Refreshed(p, s) \in PageType
    <3>1. (p.told \/ ~s.live) \in BOOLEAN
      OBVIOUS
    <3> QED BY <1>2, <1>3, <3>1, PageTypes DEF Refreshed
  <2>3. view = "workers" => [kind |-> "workers"] \in PageType
    BY PageTypes DEF Inv, ScreenInv
  <2> QED BY <1>1, <2>1, <2>2, <2>3
          DEF renderRunDynamic, renderNovRun, nvOpenLog, renderWorkers
<1>5. ScreenInv'
  BY <1>4 DEF PollAnswer, Inv, ScreenInv
<1>6. \A b, d \in BOOLEAN :
        PollOK([p EXCEPT !.asks = RemoveAt(@, i), !.on = b, !.told = d], gen)
  BY <1>0 DEF Inv, GenInv, PollOK, PollType
<1>7. \A x \in polls' : PollOK(x, gen)
  <2>1. PICK b, d \in BOOLEAN :
          polls' = Replaced(p, [p EXCEPT !.asks = RemoveAt(@, i), !.on = b, !.told = d])
    BY <1>1
  <2> QED BY <1>6, <2>1, PollsReplaced DEF Inv
<1>8. GenInv'
  BY <1>7 DEF PollAnswer, Inv, GenInv, PollOK
<1>9. AuthInv'
  BY <1>1, BounceInv DEF Inv, AuthInv, LoginGate, PollAnswer
<1>10. RouteInv' /\ ServerInv'
  BY DEF Inv, RouteInv, ServerInv, PollAnswer, route, server
<1> QED BY <1>5, <1>8, <1>9, <1>10 DEF Inv

\* The heartbeat.
LEMMA HeartbeatInv ==
    ASSUME Inv, Heartbeat, UNCHANGED post
    PROVE  Inv'
<1>1. ScreenInv' /\ GenInv'
  BY ScreenFrame DEF Heartbeat
<1>2. RouteInv' /\ ServerInv'
  BY DEF Inv, RouteInv, ServerInv, Heartbeat, route, server
<1>3. AuthInv'
  BY DEF Inv, AuthInv, LoginGate, Heartbeat, auth
<1> QED BY <1>1, <1>2, <1>3 DEF Inv
LEMMA HeartbeatAnswerInv ==
    ASSUME Inv, HeartbeatAnswer, UNCHANGED post
    PROVE  Inv'
<1>1. Dashboard \in PageType
  BY PageTypes DEF Dashboard
<1>2. page' \in PageType /\ cache' \subseteq Screens
  BY <1>1 DEF Inv, ScreenInv, HeartbeatAnswer, renderDags
<1>3. ScreenInv'
  BY <1>2 DEF Inv, ScreenInv, HeartbeatAnswer
<1>4. GenInv'
  BY GenFrame DEF Inv, HeartbeatAnswer
<1>5. AuthInv'
  BY BounceInv DEF Inv, AuthInv, LoginGate, HeartbeatAnswer
<1>6. RouteInv' /\ ServerInv'
  BY DEF Inv, RouteInv, ServerInv, HeartbeatAnswer, route, server
<1> QED BY <1>3, <1>4, <1>5, <1>6 DEF Inv

\* The log streams.
LEMMA LogInv ==
    ASSUME Inv, showLog \/ showAllLogs \/ LogEnds, UNCHANGED post
    PROVE  Inv'
<1>1. ScreenInv'
  BY DEF Inv, ScreenInv, showLog, showAllLogs, LogEnds
<1>2. GenInv'
  BY GenFrame DEF Inv, showLog, showAllLogs, LogEnds
<1>3. RouteInv' /\ ServerInv'
  BY DEF Inv, RouteInv, ServerInv, showLog, showAllLogs, LogEnds, route, server
<1>4. AuthInv'
  BY DEF Inv, AuthInv, LoginGate, showLog, showAllLogs, LogEnds, auth
<1> QED BY <1>1, <1>2, <1>3, <1>4 DEF Inv

\* The login gate.
LEMMA LoginInv ==
    ASSUME Inv, LoginSubmit \/ LoginAnswer \/ MeAnswer, UNCHANGED post
    PROVE  Inv'
<1>1. ScreenInv' /\ GenInv'
  BY ScreenFrame DEF LoginSubmit, LoginAnswer, MeAnswer
<1>2. RouteInv'
  BY DEF Inv, RouteInv, LoginSubmit, LoginAnswer, MeAnswer, route
<1>3. ServerInv'
  BY DEF Inv, ServerInv, LoginSubmit, LoginAnswer, MeAnswer, server
<1>4. AuthInv'
  <2>1. CASE LoginSubmit
    BY <2>1 DEF Inv, AuthInv, LoginGate, LoginSubmit
  <2>2. CASE LoginAnswer
    BY <2>2 DEF Inv, AuthInv, LoginGate, LoginAnswer
  <2>3. CASE MeAnswer
    BY <2>3 DEF Inv, AuthInv, LoginGate, MeAnswer
  <2> QED BY <2>1, <2>2, <2>3
<1> QED BY <1>1, <1>2, <1>3, <1>4 DEF Inv
LEMMA BootInv ==
    ASSUME Inv, resolveMode \/ startApp, UNCHANGED post
    PROVE  Inv'
<1>1. CASE resolveMode
  <2>1. ScreenInv'
    BY <1>1 DEF Inv, ScreenInv, resolveMode
  <2>2. GenInv'
    BY <1>1, GenFrame DEF Inv, resolveMode
  <2>3. AuthInv'
    <3>1. CASE UNCHANGED <<user, overlay>>
      BY <1>1, <3>1 DEF Inv, AuthInv, LoginGate, resolveMode
    <3>2. CASE Bounce(Response(Now(hash)))
      BY <1>1, <3>2, BounceInv DEF Inv, AuthInv, LoginGate, resolveMode
    <3> QED BY <1>1, <3>1, <3>2 DEF resolveMode
  <2>4. RouteInv' /\ ServerInv'
    BY <1>1 DEF Inv, RouteInv, ServerInv, resolveMode, route, server
  <2> QED BY <2>1, <2>2, <2>3, <2>4 DEF Inv
<1>2. CASE startApp
  <2>1. ScreenInv' /\ GenInv'
    BY <1>2, EnterInv DEF Inv, RouteInv, startApp
  <2>2. AuthInv'
    BY <1>2 DEF Inv, AuthInv, LoginGate, startApp
  <2>3. RouteInv' /\ ServerInv'
    BY <1>2 DEF Inv, RouteInv, ServerInv, startApp, route, server
  <2> QED BY <2>1, <2>2, <2>3 DEF Inv
<1> QED BY <1>1, <1>2

\* The environment.
LEMMA EnvironmentInv ==
    ASSUME Inv, UNCHANGED post,
           SessionExpires \/ Disconnect \/ Reconnect \/ \E r \in Runs : RunFinishes(r)
    PROVE  Inv'
<1> USE DEF SessionExpires, Disconnect, Reconnect, RunFinishes
<1>1. ScreenInv' /\ GenInv'
  BY ScreenFrame
<1>2. RouteInv' /\ AuthInv'
  BY DEF Inv, RouteInv, AuthInv, LoginGate, route, auth
<1>3. ServerInv'
  BY DEF Inv, ServerInv
<1> QED BY <1>1, <1>2, <1>3 DEF Inv

\* A write is sent: from the page of a run it names that run.
LEMMA SendsInv ==
    ASSUME Inv, NEW op \in Writes, NEW to \in Routes, Sends(op, to),
           op \in {"stop", "cancel", "start"} => to.kind = "run"
    PROVE  Inv'
<1>1. ScreenInv' /\ GenInv'
  BY ScreenFrame DEF Sends
<1>2. RouteInv' /\ AuthInv'
  BY DEF Inv, RouteInv, AuthInv, LoginGate, Sends, route, auth
<1>3. ServerInv'
  BY DEF Inv, ServerInv, Sends, server
<1> QED BY <1>1, <1>2, <1>3 DEF Inv
LEMMA ClicksInv ==
    ASSUME Inv, Clicks
    PROVE  Inv'
<1>1. CASE LogoutClick
  BY <1>1, SendsInv, DashboardRoute DEF LogoutClick, Writes
<1>2. CASE SaveClick \/ toggleDrainWorker
  <2>1. page.kind \in {"dags", "pools", "workers"} /\ Sends("save", page)
    BY <1>2 DEF SaveClick, toggleDrainWorker
  <2>2. page \in Routes
    BY <2>1 DEF Inv, ScreenInv, PageType, Routes
  <2> QED BY <2>1, <2>2, SendsInv DEF Writes
<1>3. CASE renderDagsNovice
  BY <1>3, SendsInv, RunPageRoute DEF renderDagsNovice, Writes
<1>4. CASE renderRunActions \/ renderNovRunBanner
  <2>1. page.run \in Runs
    BY <1>4 DEF renderRunActions, renderNovRunBanner, Inv, ScreenInv, PageType
  <2> QED BY <1>4, <2>1, SendsInv, RunPageRoute
          DEF renderRunActions, renderNovRunBanner, Writes
<1> QED BY <1>1, <1>2, <1>3, <1>4 DEF Clicks

\* A write is answered.
LEMMA EffectType == ASSUME ServerInv PROVE Effect \subseteq Runs
<1>1. post.op \in {"stop", "cancel", "start"} => post.to.run \in Runs
  BY RouteTypes DEF ServerInv
<1> QED BY <1>1 DEF Effect, ServerInv
LEMMA PostAnswerInv ==
    ASSUME Inv, PostAnswer
    PROVE  Inv'
<1>1. /\ NoPost \in [op : Writes \cup {"none"}, to : Routes] /\ NoPost.op = "none"
      /\ post' = NoPost /\ beat' = beat
  BY DashboardRoute DEF NoPost, PostAnswer
<1>2. CASE doLogout
  <2>1. ScreenInv' /\ GenInv'
    BY <1>2, ScreenFrame DEF doLogout
  <2>2. RouteInv' /\ AuthInv'
    BY <1>1, <1>2 DEF Inv, RouteInv, AuthInv, LoginGate, doLogout, route
  <2>3. ServerInv'
    BY <1>1, <1>2 DEF Inv, ServerInv, doLogout
  <2> QED BY <2>1, <2>2, <2>3 DEF Inv
<1>3. CASE Saved
  <2>1. ScreenInv' /\ GenInv' /\ RouteInv'
    <3>1. CASE /\ post.to.kind = "workers" /\ renderWorkers
               /\ UNCHANGED <<view, cur, gen, handle, cache, log, loads, polls, route>>
      <4>1. ScreenInv'
        BY <3>1, PageTypes DEF renderWorkers, Inv, ScreenInv
      <4>2. GenInv' /\ RouteInv'
        BY <3>1, GenFrame DEF Inv, RouteInv, route
      <4> QED BY <4>1, <4>2
    <3>2. CASE UNCHANGED <<screen, loads, polls, route>>
      BY <3>2, ScreenFrame DEF Inv, RouteInv, route
    <3>3. CASE Open(post.to)
      BY <3>3, OpenInv DEF Inv, ServerInv
    <3> QED BY <1>3, <3>1, <3>2, <3>3 DEF Saved
  <2>2. AuthInv'
    BY <1>1, <1>3 DEF Inv, AuthInv, LoginGate, Saved, auth
  <2>3. ServerInv'
    BY <1>1, <1>3, EffectType DEF Inv, ServerInv, Saved
  <2> QED BY <2>1, <2>2, <2>3 DEF Inv
<1>4. CASE Refused
  <2>1. ScreenInv' /\ GenInv'
    BY <1>4, ScreenFrame DEF Refused
  <2>2. RouteInv'
    BY <1>4 DEF Inv, RouteInv, Refused, route
  <2>3. AuthInv'
    BY <1>1, <1>4, BounceInv DEF Inv, AuthInv, LoginGate, Refused
  <2>4. ServerInv'
    BY <1>1, <1>4, EffectType DEF Inv, ServerInv, Refused
  <2> QED BY <2>1, <2>2, <2>3, <2>4 DEF Inv
<1> QED BY <1>2, <1>3, <1>4 DEF PostAnswer

\* Every step keeps the invariant.
LEMMA NextInv ==
    ASSUME Inv, [Next]_vars
    PROVE  Inv'
<1>1. CASE UNCHANGED vars
  <2>1. ScreenInv' /\ GenInv'
    BY <1>1, ScreenFrame DEF vars
  <2>2. RouteInv' /\ AuthInv' /\ ServerInv'
    BY <1>1 DEF vars, Inv, RouteInv, AuthInv, LoginGate, ServerInv, route, auth, server
  <2> QED BY <2>1, <2>2 DEF Inv
<1>2. CASE (Machine \/ Ticks) /\ UNCHANGED <<post, acts>>
  BY <1>2, HashchangeInv, HeartbeatAnswerInv, LogInv, LoginInv, BootInv, EnvironmentInv,
     AppliedInv, PollAnswerInv, HeartbeatInv, PollTickInv DEF Machine, Ticks
<1>3. CASE PostAnswer /\ UNCHANGED acts
  BY <1>3, PostAnswerInv
<1>4. CASE Outside /\ UNCHANGED post
  BY <1>4, ClickInv, HashchangeInv, setLangInv, setModeInv, LogInv, LoginInv, EnvironmentInv
     DEF Outside
<1>5. CASE Clicks
  BY <1>5, ClicksInv
<1> QED BY <1>1, <1>2, <1>3, <1>4, <1>5 DEF Next

\* The run's invariant follows.
LEMMA InvImplies == Inv => ConsoleInv
<1> SUFFICES ASSUME Inv PROVE ConsoleInv
  OBVIOUS
<1>1. \A k \in Polled : handle[k] \in 0 .. gen[k]
  BY DEF Inv, GenInv
<1>2. \A l \in loads : l.to \in Routes
  BY DEF Inv, GenInv, LoadType
<1>3. \A p \in polls : p.to \in Routes /\ p.gen \in 1 .. gen[p.to.kind]
  BY DEF Inv, GenInv, PollType
<1>4. gen \in [Polled -> Nat]
  BY DEF Inv, GenInv
<1> QED BY <1>1, <1>2, <1>3, <1>4
        DEF Inv, ScreenInv, RouteInv, AuthInv, ServerInv, PageType, TypeOK, ConsoleInv
-----------------------------------------------------------------------------
\* Whatever is clicked, answered late, lost or expired: the login is up
\* whenever no user is known, and every load and interval carries a
\* generation that its screen was given (api's bounce, showRun,
\* startRunPoll, startWorkersPoll).
THEOREM ConsoleSafe == Spec => []ConsoleInv
<1>1. Init => Inv
  BY InitInv
<1>2. Inv /\ [Next]_vars => Inv'
  BY NextInv
<1> QED BY <1>1, <1>2, InvImplies, PTL DEF Spec

\* A poll's answer that draws draws the run that is on the screen, and the
\* heartbeat's only the dashboard (renderRunDynamic, renderWorkers).
LEMMA DrawIsCurrent ==
    /\ (\E p \in polls : PollAnswer(p)) /\ page' # page =>
          page'.kind = view /\ (view = "run" => page'.run = cur /\ page'.gen = gen["run"])
    /\ HeartbeatAnswer /\ page' # page => view = "dags"
<1>1. ASSUME NEW p \in polls, PollAnswer(p), page' # page
      PROVE  page'.kind = view /\ (view = "run" => page'.run = cur /\ page'.gen = gen["run"])
  <2>1. PICK s :
          /\ StillCurrent(p)
          /\ IF p.to.kind = "run" THEN renderRunDynamic(p, s) \/ renderNovRun(p, s)
             ELSE renderWorkers /\ UNCHANGED log
    BY <1>1 DEF PollAnswer
  <2>2. CASE p.to.kind = "run"
    <3>1. view = "run" /\ cur = p.to.run /\ p.gen = gen["run"]
      BY <2>1, <2>2 DEF StillCurrent, Current
    <3>2. page' = Refreshed(p, s)
      BY <1>1, <2>1, <2>2 DEF renderRunDynamic, renderNovRun
    <3> QED BY <3>1, <3>2 DEF Refreshed, Shown
  <2>3. CASE p.to.kind # "run"
    <3>1. view = "workers" /\ page' = [kind |-> "workers"]
      BY <1>1, <2>1, <2>3 DEF renderWorkers
    <3> QED BY <3>1
  <2> QED BY <2>2, <2>3
<1>2. HeartbeatAnswer /\ page' # page => view = "dags"
  BY DEF HeartbeatAnswer, renderDags
<1> QED BY <1>1, <1>2

\* No interval that waited for its answer draws on a page the user has left
\* for another run or another screen, or opened again, whatever was opened
\* meanwhile and in whatever order its requests are answered.
THEOREM NeverDrawsStale == Spec => NoStaleDraw
BY DrawIsCurrent, PTL DEF Spec, NoStaleDraw
=============================================================================
