------------------------------ MODULE Console ------------------------------
(***************************************************************************)
(* The console's screens: hash routing, the loads behind every screen, the *)
(* run page's poll and log stream, the workers poll, the dashboard's       *)
(* heartbeat and the login gate.                                           *)
(*                                                                         *)
(* Callbacks run one at a time; a request is sent by one step and its      *)
(* answer applied by another, between which the user may go elsewhere; the *)
(* answer tells what held on the server at the one or the other moment.    *)
(* Six kinds of screen stand for all: "dags" (the dashboard), "audit"      *)
(* (also the API and the resources page: a late answer is dropped),        *)
(* "pools" (also the graph: a late answer is drawn), "workers", "run" and  *)
(* "dag". The two modes, expert and novice, differ in how a page looks and  *)
(* in the few places said below.                                           *)
(***************************************************************************)
EXTENDS Naturals, FiniteSets, SequencesExt

CONSTANTS
    Runs,      \* the runs the user may look at
    Live,      \* those that go on at the start
    Screens,   \* the screens of the instance besides the run pages
    MaxActs,   \* bound on what the user does, and on faults
    MaxLoads,  \* bound on the loads in flight
    MaxAsks,   \* bound on the requests in flight of a run's or the workers' interval
    Faults     \* what may happen: "error" (a failed request), "expire", "back"

ASSUME ConsoleConstants ==
    /\ Screens \subseteq {"dags", "audit", "pools", "workers", "dag"} /\ "dags" \in Screens
    /\ Live \subseteq Runs
    /\ MaxActs \in Nat /\ MaxLoads \in Nat /\ MaxAsks \in [{"run", "workers"} -> Nat]
    /\ Faults \subseteq {"error", "expire", "back"}

VARIABLES
    view, cur,    \* view and currentRun
    gen, handle,  \* runPollGen and wkPollGen; the generations of runPoll and wkPoll
    page,         \* what main shows: a screen, an error, or nothing yet
    cache,        \* which of overviewCache, AUD / TOKENS / RES and WK are set
    loads,        \* the loads in flight
    polls,        \* the intervals of the run and the workers page
    beat,         \* the heartbeat's request
    log,          \* a log stream is open (logES)
    hash, suppress, events,  \* location.hash, suppressHash, queued hashchange events
    user, overlay, login,    \* authUser is set; the login overlay; a login call
    post,         \* the write in flight: what it does, and from which page
    session, live, down,  \* the session is valid; the live runs; no connection
    acts

screen == <<view, cur, gen, handle, page, cache, log>>
route == <<hash, suppress, events>>
auth == <<user, overlay, login>>
server == <<session, live, down>>
vars == <<screen, loads, polls, beat, route, auth, server, post, acts>>

Blank == [kind |-> "blank"]
NoRun == "none"
Error == [kind |-> "error"]
Dashboard == [kind |-> "dags"]
RunPage(r) == [kind |-> "run", run |-> r]
Routes == {[kind |-> s] : s \in Screens} \cup {RunPage(r) : r \in Runs}
Polled == {"run", "workers"}
\* The run page: its live parts tell the run's state and which generation of
\* the page drew them; told (history) says that it has shown the run's end.
Shown(r, alive, g, told) ==
    [kind |-> "run", run |-> r, alive |-> alive, gen |-> g, told |-> told]
NoPost == [op |-> "none", to |-> Dashboard]
Writes == {"save", "stop", "cancel", "start", "logout"}

\* Types of the screen, its loads and intervals, and the login gate.
TypeOK ==
    /\ view \in Screens \cup {"run"} /\ cur \in Runs \cup {NoRun}
    /\ gen \in [Polled -> Nat] /\ \A k \in Polled : handle[k] \in 0 .. gen[k]
    /\ page \in [kind : Screens \cup {"error", "blank"}]
               \cup [kind : {"run"}, run : Runs, alive : BOOLEAN, gen : Nat, told : BOOLEAN]
    /\ cache \subseteq Screens
    /\ \A l \in loads : l.to \in Routes
    /\ \A p \in polls : p.to \in Routes /\ p.gen \in 1 .. gen[p.to.kind]
    /\ log \in BOOLEAN /\ hash \in Routes /\ events \in Nat
    /\ {suppress, user, overlay, session, down} \subseteq BOOLEAN
    /\ beat \in {"idle", "info", "overview"} /\ login \in {"none", "posting", "me", "mode", "boot"}
    /\ live \subseteq Runs /\ post \in [op : Writes \cup {"none"}, to : Routes]

Init ==
    /\ view = "dags" /\ cur = NoRun /\ page = Blank /\ cache = {} /\ log = FALSE
    /\ gen = [k \in Polled |-> 0] /\ handle = [k \in Polled |-> 0]
    /\ loads = {} /\ polls = {} /\ beat = "idle"
    /\ hash = Dashboard /\ suppress = FALSE /\ events = 0
    /\ user = FALSE /\ overlay = FALSE /\ login = "me"
    /\ session \in BOOLEAN /\ live = Live /\ down = FALSE
    /\ post = NoPost /\ acts = 0
-----------------------------------------------------------------------------
(***************************************************************************)
(* Opening a screen: the synchronous part of loadDags, showRun and the     *)
(* other show functions.                                                   *)
(***************************************************************************)

\* What an answer for the route h would say: is the session valid, and does
\* the run go on?
Now(h) == [auth |-> session, live |-> h.kind = "run" /\ h.run \in live]

\* clearInterval: no further tick; a callback that waits still runs.
Alive(ps) == {p \in ps : p.on \/ p.asks # <<>>}
clearInterval(k) ==
    Alive({IF p.to.kind = k /\ p.gen = handle[k] THEN [p EXCEPT !.on = FALSE] ELSE p :
           p \in polls})

\* showDag sets the view only when its answer is there; showRun takes a new
\* generation at once.
Enter(h) ==
    /\ Cardinality(loads) < MaxLoads
    /\ view' = IF h.kind = "dag" THEN view ELSE h.kind
    /\ cur' = IF h.kind = "run" THEN h.run ELSE cur
    /\ gen' = IF h.kind = "run" THEN [gen EXCEPT !["run"] = @ + 1] ELSE gen
    /\ polls' = IF h.kind \in Polled THEN clearInterval(h.kind) ELSE polls
    /\ loads' = loads \cup {[to |-> h, gen |-> gen'["run"], old |-> Now(h)]}
    /\ log' = FALSE
    /\ UNCHANGED <<handle, page, cache>>

\* setHash with a new entry queues a hashchange event and latches it off.
setHash(h) == IF h = hash THEN UNCHANGED route
              ELSE hash' = h /\ suppress' = TRUE /\ events' = events + 1

\* A click on a link, a row or the navigation.
Open(h) == Enter(h) /\ setHash(h)
Click(h) == user /\ Open(h) /\ UNCHANGED <<beat, auth, server>>

\* setLang, a filter or the search box draw some screens from memory; the
\* others are loaded again.
Redraw ==
    /\ view \in cache /\ page' = [kind |-> view]
    /\ UNCHANGED <<view, cur, gen, handle, cache, log, loads, polls, route>>
setLang ==
    /\ user
    /\ \/ Redraw
       \/ view = "run" /\ Open(RunPage(cur))
       \/ view = "pools" /\ Open([kind |-> "pools"])
    /\ UNCHANGED <<beat, auth, server>>
\* The other mode is shown by loading the route of the hash again.
setMode == user /\ Enter(hash) /\ UNCHANGED <<route, beat, auth, server>>

\* The hashchange listener, after an own change or after Back.
Hashchange ==
    /\ events > 0 /\ events' = events - 1
    /\ \/ suppress /\ suppress' = FALSE /\ UNCHANGED <<screen, loads, polls>>
       \/ ~suppress /\ UNCHANGED suppress /\ Enter(hash)
    /\ UNCHANGED <<hash, beat, auth, server>>
\* Back, to the dashboard entry every session starts with.
Back ==
    /\ "back" \in Faults /\ hash # Dashboard
    /\ hash' = Dashboard /\ events' = events + 1
    /\ UNCHANGED <<screen, loads, polls, suppress, beat, auth, server>>
-----------------------------------------------------------------------------
(***************************************************************************)
(* Requests: api() bounces to the login on a 401 while a user is known.    *)
(***************************************************************************)
Response(s) == IF down THEN "error" ELSE IF s.auth THEN "ok" ELSE "401"
\* Mutant: the user is forgotten and the overlay does not come up.
BounceSilently(res) == user' = (user /\ res # "401") /\ UNCHANGED overlay
Bounce(res) == /\ user' = (user /\ res # "401")
               /\ overlay' = (overlay \/ (user /\ res = "401"))

\* setInterval with the generation the load was started for (run) or with a
\* new one (workers).
Started(to, g) == [to |-> to, gen |-> g, on |-> TRUE, asks |-> <<>>, told |-> FALSE]

\* The answer is drawn only if its screen is still the view ...
DagsLoaded(l, ok) ==
    /\ l.to.kind = "dags" /\ ok
    /\ cache' = cache \cup {"dags"}
    /\ page' = IF view = "dags" THEN l.to ELSE page
    /\ UNCHANGED <<view, cur, gen, handle, log, polls, route>>
AuditLoaded(l, ok) ==
    /\ l.to.kind = "audit" /\ ok
    /\ cache' = cache \cup {"audit"}
    /\ page' = IF view = "audit" THEN l.to ELSE page
    /\ UNCHANGED <<view, cur, gen, handle, log, polls, route>>
\* ... or in any case, for the pools and the graph.
PoolsLoaded(l, ok) ==
    /\ l.to.kind = "pools" /\ ok /\ page' = l.to
    /\ UNCHANGED <<view, cur, gen, handle, cache, log, polls, route>>
WorkersLoaded(l, ok) ==
    /\ l.to.kind = "workers" /\ ok
    /\ cache' = cache \cup {"workers"}
    /\ page' = IF view = "workers" THEN l.to ELSE page
    /\ gen' = [gen EXCEPT !["workers"] = @ + 1]
    /\ handle' = [handle EXCEPT !["workers"] = gen'["workers"]]
    /\ polls' = polls \cup {Started(l.to, gen'["workers"])}
    /\ UNCHANGED <<view, cur, log, route>>
\* The rest of showRun: the shell, its live parts, the log and the poll.
RunLoaded(l, ok, alive) ==
    /\ l.to.kind = "run" /\ ok
    /\ page' = Shown(l.to.run, alive, l.gen, ~alive) /\ log' \in BOOLEAN
    /\ polls' = IF alive THEN polls \cup {Started(l.to, l.gen)} ELSE polls
    /\ handle' = IF alive THEN [handle EXCEPT !["run"] = l.gen] ELSE handle
    /\ UNCHANGED <<view, cur, gen, cache, route>>
\* showDag takes the view, and rewrites the hash without an event.
DagLoaded(l, ok) ==
    /\ l.to.kind = "dag" /\ ok
    /\ view' = "dag" /\ page' = l.to /\ hash' = l.to
    /\ UNCHANGED <<cur, gen, handle, cache, log, polls, suppress, events>>
\* An error is drawn in any case; for the dashboard and the pools page only
\* if startApp made the call.
LoadFailed(l, ok) ==
    /\ ~ok
    /\ page' \in (IF l.to.kind \in {"dags", "pools"} THEN {page, Error} ELSE {Error})
    /\ view' = IF l.to.kind = "dag" THEN "dag" ELSE view
    /\ cache' = IF l.to.kind = "workers" THEN cache \ {"workers"} ELSE cache
    /\ UNCHANGED <<cur, gen, handle, log, polls, route>>
Applied(l) ==
    /\ \E s \in {l.old, Now(l.to)} :
        LET ok == Response(s) = "ok" IN
        /\ \/ DagsLoaded(l, ok) \/ AuditLoaded(l, ok) \/ PoolsLoaded(l, ok) \/ WorkersLoaded(l, ok)
           \/ RunLoaded(l, ok, s.live) \/ DagLoaded(l, ok) \/ LoadFailed(l, ok)
        /\ Bounce(Response(s))
    /\ loads' = loads \ {l}
    /\ UNCHANGED <<beat, login, server>>
-----------------------------------------------------------------------------
(***************************************************************************)
(* The intervals: startRunPoll, startWorkersPoll, the heartbeat.           *)
(***************************************************************************)
Current(p) == /\ p.gen = gen[p.to.kind] /\ view = p.to.kind
              /\ p.to.kind = "run" => cur = p.to.run
Replaced(p, q) == Alive((polls \ {p}) \cup {q})

\* Mutant: the interval is not cleared.
Unstopped(p) == p
Stopped(p) == [p EXCEPT !.on = FALSE]
\* A tick stops a superseded interval, otherwise it asks the server, also
\* while earlier requests are still out: their answers come in any order.
PollTick(p) ==
    /\ p.on
    /\ \/ Current(p) /\ Len(p.asks) < MaxAsks[p.to.kind]
          /\ polls' = Replaced(p, [p EXCEPT !.asks = Append(@, Now(p.to))])
       \/ ~Current(p) /\ polls' = Replaced(p, Stopped(p))
    /\ UNCHANGED <<screen, loads, beat, route, auth, server>>

\* After the await everything is checked again before anything is drawn; a
\* failed request leaves the interval as it is.
\* Mutant: the view and generation are not compared after the await.
Trusted(p) == TRUE
StillCurrent(p) == Current(p)
\* Mutant: the poll never asks for another round.
GoesOnce(p, s) == FALSE
Goes(p, s) == StillCurrent(p) /\ (IF p.to.kind = "run" THEN s.live ELSE "workers" \in cache)
\* The live parts are drawn into the run page's shell, if main still shows
\* one; the novice page may turn to the log of another step.
Refreshed(p, s) == Shown(p.to.run, s.live, p.gen, p.told \/ ~s.live)
renderRunDynamic(p, s) ==
    /\ page' = IF page.kind = "run" THEN Refreshed(p, s) ELSE page
    /\ UNCHANGED log
nvOpenLog == log' = TRUE
renderNovRun(p, s) ==
    /\ page.kind = "run" /\ page' = Refreshed(p, s)
    /\ UNCHANGED log \/ nvOpenLog
\* The workers' table is drawn unless nothing changed, or the user is in it.
renderWorkers == page' \in IF view = "workers" /\ "workers" \in cache
                           THEN {page, [kind |-> "workers"]} ELSE {page}
\* A failed request, or a run page without its shell (which throws in expert
\* mode), leaves the interval as it is.
PollAnswer(p) ==
    /\ \E i \in DOMAIN p.asks : \E s \in {p.asks[i], Now(p.to)} :
        LET ok == Response(s) = "ok"
            throws == p.to.kind = "run" /\ page.kind # "run" /\ StillCurrent(p)
        IN
        /\ IF ~(ok /\ StillCurrent(p)) THEN UNCHANGED <<page, log>>
           ELSE IF p.to.kind = "run" THEN renderRunDynamic(p, s) \/ renderNovRun(p, s)
           ELSE renderWorkers /\ UNCHANGED log
        /\ \E goes \in {Goes(p, s), Goes(p, s) \/ throws} :
            polls' = Replaced(p, [p EXCEPT !.asks = RemoveAt(@, i), !.on = @ /\ (ok => goes),
                                           !.told = @ \/ (p.to.kind = "run" /\ ~s.live /\ page' = Refreshed(p, s))])
        /\ Bounce(Response(s))
    /\ UNCHANGED <<view, cur, gen, handle, cache, loads, beat, login, route, server>>

\* Mutant: the footer is refreshed on the dashboard only.
HeartbeatDashboardOnly ==
    /\ user /\ beat = "idle" /\ view = "dags" /\ log = FALSE
    /\ beat' = "overview"
    /\ UNCHANGED <<screen, loads, polls, route, auth, server>>
\* The heartbeat asks for the footer's facts, and for the dashboard only when
\* it is showing, with no log stream and no modal open.  One request stands for
\* those of several ticks: their answers are all about the present.
Heartbeat ==
    /\ user /\ beat = "idle"
    /\ beat' \in {"info"} \cup IF view = "dags" /\ log = FALSE THEN {"overview"} ELSE {}
    /\ UNCHANGED <<screen, loads, polls, route, auth, server>>
renderDags == page' = IF view = "dags" THEN Dashboard ELSE page
HeartbeatAnswer ==
    /\ beat # "idle" /\ beat' = "idle"
    /\ IF beat = "overview" /\ Response(Now(hash)) = "ok"
       THEN renderDags /\ cache' = cache \cup {"dags"} ELSE UNCHANGED <<page, cache>>
    /\ Bounce(Response(Now(hash)))
    /\ UNCHANGED <<view, cur, gen, handle, log, loads, polls, login, route, server>>

\* The log of one task is streamed, also of a step clicked on the novice page,
\* or of all of them (in logESAll, which the heartbeat does not look at).
showLog ==
    /\ page.kind = "run" /\ log' = TRUE
    /\ UNCHANGED <<view, cur, gen, handle, page, cache, loads, polls, beat, route, auth, server>>
showAllLogs ==
    /\ page.kind = "run" /\ log' = FALSE
    /\ UNCHANGED <<view, cur, gen, handle, page, cache, loads, polls, beat, route, auth, server>>
\* The stream ends with its task, or fails: closeLog.
LogEnds ==
    /\ log /\ log' = FALSE
    /\ UNCHANGED <<view, cur, gen, handle, page, cache, loads, polls, beat, route, auth, server>>
-----------------------------------------------------------------------------
(***************************************************************************)
(* The login gate.                                                         *)
(***************************************************************************)
LoginSubmit ==
    /\ overlay /\ login = "none" /\ login' = "posting"
    /\ UNCHANGED <<screen, loads, polls, beat, route, user, overlay, server>>
\* A wrong password, or a failed call, leaves the overlay up.
LoginAnswer ==
    /\ login = "posting"
    /\ \/ ~down /\ session' = TRUE /\ login' = "me" /\ overlay' = FALSE
       \/ login' = "none" /\ UNCHANGED <<session, overlay>>
    /\ UNCHANGED <<screen, loads, polls, beat, route, user, live, down>>
\* initAuth: a 401 shows the login; any other failure lets the user in.
MeAnswer ==
    /\ login = "me"
    /\ \/ Response(Now(hash)) = "401" /\ overlay' = TRUE /\ login' = "none" /\ UNCHANGED user
       \/ Response(Now(hash)) # "401" /\ user' = TRUE /\ login' = "mode" /\ UNCHANGED overlay
    /\ UNCHANGED <<screen, loads, polls, beat, route, server>>
\* Without a saved preference the overview tells the mode.
resolveMode ==
    /\ login = "mode" /\ login' = "boot"
    /\ \/ UNCHANGED <<cache, user, overlay>>
       \/ LET res == Response(Now(hash)) IN
          Bounce(res) /\ cache' = IF res = "ok" THEN cache \cup {"dags"} ELSE cache
    /\ UNCHANGED <<view, cur, gen, handle, page, log, loads, polls, beat, route, server>>
startApp ==
    /\ login = "boot" /\ login' = "none" /\ Enter(hash)
    /\ UNCHANGED <<beat, route, user, overlay, server>>
-----------------------------------------------------------------------------
(***************************************************************************)
(* Writes: the button's page is loaded again when the answer is there,     *)
(* wherever the user is by then. One write is in flight at a time.         *)
(***************************************************************************)
Sends(op, to) ==
    /\ user /\ post = NoPost /\ post' = [op |-> op, to |-> to]
    /\ UNCHANGED <<screen, loads, polls, beat, route, auth, server>>
LogoutClick == Sends("logout", Dashboard)
\* A DAG is paused or triggered from the dashboard, a pool saved.
SaveClick == page.kind \in {"dags", "pools"} /\ Sends("save", page)
toggleDrainWorker == page.kind = "workers" /\ Sends("save", page)
\* The novice dashboard goes on to the run it starts.
renderDagsNovice == page.kind = "dags" /\ \E r \in Runs \ live : Sends("start", RunPage(r))
\* The buttons of a run: cancel while it goes on, or retry and mark.
renderRunActions ==
    /\ page.kind = "run"
    /\ Sends("stop", RunPage(page.run)) \/ (~page.alive /\ Sends("start", RunPage(page.run)))
\* The same on the novice page, which waits for its poll after a cancel.
renderNovRunBanner ==
    /\ page.kind = "run"
    /\ Sends(IF page.alive THEN "cancel" ELSE "start", RunPage(page.run))
\* What the server does: a stopped (or marked) run has ended, a triggered or
\* retried one goes on.
Effect == CASE post.op \in {"stop", "cancel"} -> live \ {post.to.run}
            [] post.op = "start" -> live \cup {post.to.run}
            [] OTHER -> live
\* doLogout: its call may fail, the login comes up all the same.
doLogout ==
    /\ post.op = "logout" /\ session' = (session /\ down) /\ user' = FALSE /\ overlay' = TRUE
    /\ UNCHANGED <<screen, loads, polls, route, login, live, down>>
\* The page is loaded again; the workers page only refreshes its table.
Saved ==
    /\ post.op # "logout" /\ Response(Now(post.to)) = "ok" /\ live' = Effect
    /\ \/ /\ post.to.kind = "workers" /\ renderWorkers
          /\ UNCHANGED <<view, cur, gen, handle, cache, log, loads, polls, route>>
       \/ post.op = "cancel" /\ UNCHANGED <<screen, loads, polls, route>>
       \/ post.to.kind # "workers" /\ post.op # "cancel" /\ Open(post.to)
    /\ UNCHANGED <<auth, session, down>>
\* Refused, or lost on the way there or back: a toast, and the page stays.
Refused ==
    /\ post.op # "logout" /\ live' \in (IF down THEN {live, Effect} ELSE {live})
    /\ Bounce(Response(Now(post.to)))
    /\ UNCHANGED <<screen, loads, polls, route, login, session, down>>
PostAnswer ==
    /\ post # NoPost /\ post' = NoPost
    /\ doLogout \/ Saved \/ Refused
    /\ UNCHANGED beat
-----------------------------------------------------------------------------
(***************************************************************************)
(* The environment.                                                        *)
(***************************************************************************)
SessionExpires ==
    /\ "expire" \in Faults /\ session /\ session' = FALSE
    /\ UNCHANGED <<screen, loads, polls, beat, route, auth, live, down>>
Disconnect ==
    /\ "error" \in Faults /\ ~down /\ down' = TRUE
    /\ UNCHANGED <<screen, loads, polls, beat, route, auth, session, live>>
Reconnect ==
    /\ down /\ down' = FALSE
    /\ UNCHANGED <<screen, loads, polls, beat, route, auth, session, live>>
RunFinishes(r) ==
    /\ r \in live /\ live' = live \ {r}
    /\ UNCHANGED <<screen, loads, polls, beat, route, auth, session, down>>
-----------------------------------------------------------------------------
Machine == \/ Hashchange \/ HeartbeatAnswer \/ LogEnds
           \/ LoginAnswer \/ MeAnswer \/ resolveMode \/ startApp \/ Reconnect
           \/ \E l \in loads : Applied(l)
           \/ \E p \in polls : PollAnswer(p)
           \/ \E r \in Runs : RunFinishes(r)
Ticks == Heartbeat \/ \E p \in polls : PollTick(p)
Outside == \/ \E h \in Routes : Click(h)
           \/ Back \/ setLang \/ setMode \/ showLog \/ showAllLogs \/ LoginSubmit
           \/ SessionExpires \/ Disconnect
Clicks == \/ LogoutClick \/ SaveClick \/ toggleDrainWorker
          \/ renderDagsNovice \/ renderRunActions \/ renderNovRunBanner
Next == \/ (Machine \/ Ticks) /\ UNCHANGED <<post, acts>>
        \/ PostAnswer /\ UNCHANGED acts
        \/ Outside /\ acts < MaxActs /\ acts' = acts + 1 /\ UNCHANGED post
        \/ Clicks /\ acts < MaxActs /\ acts' = acts + 1
Spec == Init /\ [][Next]_vars

\* Requests are answered, queued events are handled, intervals tick (the tab
\* is visible), and a lost connection comes back.
PollStep(p) == PollTick(p) \/ PollAnswer(p)
FairSpec ==
    /\ Spec
    /\ WF_vars((Hashchange \/ LoginAnswer \/ MeAnswer \/ resolveMode \/ startApp \/ Reconnect)
               /\ UNCHANGED <<post, acts>>)
    /\ WF_vars((\E l \in loads : Applied(l)) /\ UNCHANGED <<post, acts>>)
    /\ WF_vars((Heartbeat \/ HeartbeatAnswer) /\ UNCHANGED <<post, acts>>)
    /\ WF_vars((\E p \in polls : Current(p) /\ PollStep(p)) /\ UNCHANGED <<post, acts>>)
    /\ WF_vars((\E p \in polls : ~Current(p) /\ PollStep(p)) /\ UNCHANGED <<post, acts>>)
-----------------------------------------------------------------------------
\* The login gate: without a known user the overlay is up or a login call is
\* on its way, so nobody is left before a page that no longer refreshes.
LoginGate == user \/ overlay \/ login = "me"

\* The types and the gate, which every step keeps.
ConsoleInv == TypeOK /\ LoginGate

\* An expired session is noticed without a click: the heartbeat's footer
\* request meets the 401 and brings the login up.
ExpiryNoticed == []<>(session \/ overlay)

\* A run poll that waited draws only for the run the user looks at now, as it
\* was opened last, and the heartbeat never touches a page other than the
\* dashboard.
NoStaleDraw ==
    [][/\ (\E p \in polls : PollAnswer(p)) /\ page' # page =>
            /\ page'.kind = view
            /\ view = "run" => page'.run = cur /\ page'.gen = gen["run"]
       /\ HeartbeatAnswer /\ page' # page => view = "dags"]_vars

\* An interval whose screen was left or opened again stops ("otherwise it
\* would keep fetching every 2s forever"; "can never leak across views").
PollsEnd == []<>(\A p \in polls : Current(p))

\* The end of the run on the screen is drawn, unless the user leaves it, the
\* session ends, or the late answer of a superseded showRun draws over it: the
\* poll stops only once it has drawn that end.  What it has drawn need not stay:
\* an older request of the poll may be answered last, and shows the run live
\* again on a page that no longer polls.
Watched == view = "run" /\ page.kind = "run" /\ page.run = cur /\ page.gen = gen["run"] /\ session
EndDrawn == []<>(Watched /\ cur \notin live => page.told)
=============================================================================
