------------------------------ MODULE GuiStore ------------------------------
(***************************************************************************)
(* The desktop GUI's store and the asynchronous functions that fill it     *)
(* (gui/src/session-ops.ts, actions.ts, state.ts, render/center.ts,        *)
(* terminals.ts), with the bridge commands they call (src-tauri/lib.rs).   *)
(*                                                                         *)
(* JavaScript runs to the next await without interruption.  An async       *)
(* function is a program: the calls it still has to make and, between      *)
(* them, the synchronous stretches.  A call is served by the daemon in one *)
(* step and its answer is applied in a later one, together with the code   *)
(* up to the next call, so answers may be applied in any order.  A split   *)
(* and the closing of a window take the daemon two steps.                  *)
(*                                                                         *)
(* The daemon is either the single process (session.rs) or the supervisor  *)
(* with its workers (supervisor.rs): they differ in when the tree and the  *)
(* events of a change are there, and in whether a stream ends with its     *)
(* pane.                                                                   *)
(*                                                                         *)
(* Sessions, windows and panes are numbered as they are created; a layout  *)
(* tree is its set of leaves, of which the least is the first.             *)
(***************************************************************************)
EXTENDS Naturals, Sequences, SequencesExt, FiniteSets, FiniteSetsExt, Functions

CONSTANTS
  MaxWindows,   \* bound on the windows (and so the sessions) ever created
  MaxPanes,     \* bound on the panes ever created
  Scripts,      \* scenarios: what the user and other clients do, and how often
  Nil

VARIABLES
  script,   \* the scenario
  wins,     \* the daemon: window -> its session and its live panes
  trees,    \* and window -> the leaves of its layout tree, {} for none
  halves,   \* calls that the daemon has half done
  reports,  \* pane_closed that workers told to shut down have still to send
  made,     \* ids given out by the daemon, and the number of its changes
  bus,      \* lifecycle events the event loop has not taken
  view,     \* AppState of the store, the terminals, the last render, and as
            \* history whether an older answer has replaced a newer one
  jobs,     \* async functions in progress
  pumps,    \* stream_tasks of the bridge: panes with a pump
  gone,     \* pane-closed notices of ended pumps
  missed,   \* history: live panes whose attach or close failed, and those that
            \* the daemon left out of their tree
  spent     \* steps of the user and of others, and polls so far

svars == <<script, wins, trees, halves, reports, made, bus, view, jobs, pumps, gone, missed, spent>>

Windows  == 1 .. MaxWindows
Sessions == 1 .. MaxWindows
Panes    == 1 .. MaxPanes

\* The event loop, the user's actions, the poll and the pane-closed handler.
Actors == {"loop", "user", "user2", "poll", "pump"}

Drop(f, S) == Restrict(f, DOMAIN f \ S)
Set(f, x, v) == [y \in DOMAIN f \cup {x} |-> IF y = x THEN v ELSE f[y]]
Least(S) == IF S = {} THEN Nil ELSE Min(S)

(***************************************************************************)
(* The daemon.                                                             *)
(***************************************************************************)
LivePanes       == UNION {wins[w].panes : w \in DOMAIN wins}
Listed     == {wins[w].s : w \in DOMAIN wins}
WindowsOf(s) == {w \in DOMAIN wins : wins[w].s = s}
PanesOf(s) == UNION {wins[w].panes : w \in WindowsOf(s)}
WindowOf(p) == CHOOSE w \in DOMAIN wins : p \in wins[w].panes

\* LayoutNode::close: the last leaf of a tree stays.
Prune(tree, P) ==
  IF tree = {} THEN {} ELSE IF tree \subseteq P THEN {Max(tree)} ELSE tree \ P

\* split_focused: next to the leaf p, if the tree has it.
SplitAt(tree, p, new) ==
  LET t == IF tree = {} THEN {p} ELSE tree IN IF p \in t THEN t \cup {new} ELSE t

\* The panes P end, and a session without panes goes.
Ended(P) ==
  LET left == [w \in DOMAIN wins |-> [wins[w] EXCEPT !.panes = @ \ P]]
      alive == {left[w].s : w \in {x \in DOMAIN left : left[x].panes # {}}}
  IN  Restrict(left, {w \in DOMAIN left : left[w].s \in alive})

Event(k, p) == [k |-> k, p |-> p]
ClosedEvents(P) == SetToSeq({Event("closed", p) : p \in P})

\* The daemon changes.  Where a stream ends with its pane, its pump gives notice.
Changes(f, ids, evs) ==
  LET dead == LivePanes \ UNION {f[w].panes : w \in DOMAIN f}
  IN  /\ wins' = f
      /\ bus' = bus \o evs
      /\ made' = [w |-> made.w + ids[1], p |-> made.p + ids[2], v |-> made.v + 1]
      /\ gone' = IF script.single THEN gone \cup (dead \cap pumps) ELSE gone
      /\ pumps' = IF script.single THEN pumps \ dead ELSE pumps

NewW == made.w + 1
NewP == made.p + 1

SpawnDaemon ==
  /\ NewW <= MaxWindows /\ NewP <= MaxPanes
  /\ Changes(Set(wins, NewW, [s |-> NewW, panes |-> {NewP}]), <<1, 1>>, <<Event("spawned", NewP)>>)
  /\ trees' = [trees EXCEPT ![NewW] = {NewP}]
  /\ UNCHANGED <<halves, reports, missed>>

\* A new pane in window w.
AddPane(w, evs) ==
  /\ NewP <= MaxPanes
  /\ Changes([wins EXCEPT ![w].panes = @ \cup {NewP}], <<0, 1>>, evs)

\* open_pane: the first pane of a window becomes its tree.  The supervisor has
\* the window from new_window, and leaves its tree empty.
OpenDaemon(w) ==
  /\ AddPane(w, <<Event("spawned", NewP)>>)
  /\ trees' = IF script.single /\ trees[w] = {} THEN [trees EXCEPT ![w] = {NewP}] ELSE trees
  /\ missed' = IF NewP \in trees'[w] THEN missed ELSE missed \cup {NewP}
  /\ UNCHANGED <<halves, reports>>

\* open_pane_split for the actor or client `by`.  The single daemon opens the
\* pane and splits the tree later, the supervisor splits the tree and enters the
\* pane in its index of windows later.
StartSplit(by, p) ==
  LET w == WindowOf(p) IN
  /\ AddPane(w, IF script.single THEN <<Event("spawned", NewP)>> ELSE <<>>)
  /\ trees' = IF script.single THEN trees ELSE [trees EXCEPT ![w] = SplitAt(@, p, NewP)]
  /\ halves' = halves \cup {[op |-> "split", by |-> by, w |-> w, of |-> p, new |-> NewP]}
  /\ UNCHANGED <<reports, missed>>

FinishSplit(h) ==
  /\ Changes(wins, <<0, 0>>,
             (IF script.single THEN <<>> ELSE <<Event("spawned", h.new)>>) \o <<Event("layout", Nil)>>)
  /\ trees' = IF script.single THEN [trees EXCEPT ![h.w] = SplitAt(@, h.of, h.new)] ELSE trees
  /\ missed' = IF h.new \in trees'[h.w] THEN missed ELSE missed \cup {h.new}

\* The panes that the supervisor's index of windows has.
Splitting == {h.new : h \in {x \in halves : x.op = "split"}}
Indexed(w) == wins[w].panes \ Splitting

\* A shell ends: remove_pane of the single daemon leaves the tree as it is, the
\* supervisor's pane_closed prunes it.
ExitDaemon(p) ==
  LET w == WindowOf(p)
      pruned == ~script.single /\ p \in Indexed(w) /\ trees[w] # {}
  IN  /\ Changes(Ended({p}), <<0, 0>>, (IF pruned THEN <<Event("layout", Nil)>> ELSE <<>>) \o ClosedEvents({p}))
      /\ trees' = IF pruned THEN [trees EXCEPT ![w] = Prune(@, {p})] ELSE trees
      /\ UNCHANGED <<halves, reports, missed>>

\* close_pane, for the panes P of window w.
CloseDaemon(w, P) ==
  /\ Changes(Ended(P), <<0, 0>>, IF P = {} THEN <<>> ELSE <<Event("layout", Nil)>> \o ClosedEvents(P))
  /\ trees' = [trees EXCEPT ![w] = Prune(@, P)]
  /\ UNCHANGED <<reports, missed>>

\* close_session and kill_session.  The supervisor emits nothing: the worker
\* closes its panes after the grace period, and each of them is reported then.
KillDaemon(s) ==
  LET P == PanesOf(s) IN
  /\ Changes(Drop(wins, WindowsOf(s)), <<0, 0>>, IF script.single THEN ClosedEvents(P) ELSE <<>>)
  /\ reports' = IF script.single THEN reports ELSE reports + Cardinality(P)
  /\ UNCHANGED <<trees, halves, missed>>

\* pane_closed for a session that the supervisor has forgotten: the slot gets a
\* PaneId that no client knows.
WorkerReports ==
  /\ reports # 0
  /\ reports' = reports - 1
  /\ bus' = Append(bus, Event("closed", Nil))
  /\ UNCHANGED <<script, wins, trees, halves, made, view, jobs, pumps, gone, missed, spent>>

(***************************************************************************)
(* The store: derived reads and the synchronous stretches.                 *)
(***************************************************************************)
WindowTabs(u, s) == IF s \in DOMAIN u.windows THEN u.windows[s] ELSE {}

ActiveWindowOf(u, s) ==
  LET ws == WindowTabs(u, s)
  IN  IF s \in DOMAIN u.actWin /\ u.actWin[s] \in ws THEN u.actWin[s] ELSE Least(ws)

Leaves(m, ws) == UNION {m[w].panes : w \in ws \cap DOMAIN m}

FocusFirstLeaf(u, s) ==
  LET w == ActiveWindowOf(u, s)
  IN  [u EXCEPT !.focus = IF w \in DOMAIN u.layouts THEN Least(u.layouts[w].panes) ELSE Nil]

\* Mutant: the structure is the set of windows, whatever their trees.
MutantFingerprint(u) ==
  [trees |-> WindowTabs(u, u.active), win |-> ActiveWindowOf(u, u.active), zoom |-> u.zoom]

\* windowsFingerprint and renderCenter: a changed structure mounts the leaves
\* of every window of the active session, of the active window only the zoomed
\* pane while there is one.
Fingerprint(u) ==
  [trees |-> [w \in WindowTabs(u, u.active) |-> Leaves(u.layouts, {w})],
   win |-> ActiveWindowOf(u, u.active), zoom |-> u.zoom]

Shown(u) ==
  LET ws == WindowTabs(u, u.active)
      aw == ActiveWindowOf(u, u.active)
  IN  IF u.zoom = Nil \/ aw \notin DOMAIN u.layouts THEN Leaves(u.layouts, ws)
      ELSE Leaves(u.layouts, ws \ {aw}) \cup {u.zoom}

Render(u) ==
  IF Fingerprint(u) = u.print THEN u
  ELSE [u EXCEPT !.print = Fingerprint(u), !.terms = @ \cup Shown(u)]

Dispose(u, P) == [u EXCEPT !.terms = @ \ P]
Detach(u, P)  == [Dispose(u, P) EXCEPT !.cut = @ \cup P]

\* Forget the windows and layouts of the given sessions.
Forget(u, S) ==
  LET ws == UNION {WindowTabs(u, s) : s \in S}
  IN  [u EXCEPT !.windows = Drop(@, S), !.actWin = Drop(@, S), !.layouts = Drop(@, ws)]

\* reloadSessions, with its answer.
ReloadSessions(u, a) ==
  LET v == [Forget(u, DOMAIN u.windows \ DOMAIN a.count) EXCEPT !.sessions = a.count, !.first = a.first,
                !.at = a.v, !.stale = @ \/ a.v < u.at]
  IN  IF u.active = Nil \/ u.active \in DOMAIN a.count THEN v
      ELSE [v EXCEPT !.active = Nil, !.focus = Nil, !.zoom = Nil]

\* reloadWindows, with its answer.
ReloadWindows(u, s, ws, v) ==
  [u EXCEPT !.windows = Set(@, s, ws), !.winAt[s] = v, !.stale = @ \/ v < u.winAt[s],
            !.actWin = IF ws = {} THEN Drop(@, {s})
                       ELSE IF s \in DOMAIN @ /\ @[s] \in ws THEN @ ELSE Set(@, s, Least(ws))]

Pick(u, s) == [u EXCEPT !.active = s, !.focus = Nil, !.zoom = Nil]

SwitchWindow(u, w) ==
  IF u.active = Nil THEN u
  ELSE FocusFirstLeaf([u EXCEPT !.actWin = Set(@, u.active, w)], u.active)

ZoomPane(u, p) == [u EXCEPT !.zoom = IF @ = p THEN Nil ELSE p, !.focus = p]

(***************************************************************************)
(* Programs.  Call waits for the bridge, Then runs at once.                *)
(***************************************************************************)
Call(o, x) == [op |-> o, x |-> x, y |-> Nil, sync |-> FALSE]
Then(o, x, y) == [op |-> o, x |-> x, y |-> y, sync |-> TRUE]

List == <<Call("list", Nil)>>
States == <<Call("states", Nil)>>
\* reloadSession: the layouts follow when the windows are known.
Tree(s) == <<Call("tree", s)>>
TreeFocus(s) == Tree(s) \o <<Then("first", s, Nil)>>

\* The user's actions (actions.ts).
NewSession == <<Call("spawn", Nil)>>
SwitchSession(s) == <<Then("switch", s, Nil)>> \o TreeFocus(s)
RenameSession == <<Call("rename", Nil)>> \o List
CloseSession(s, ps, was) ==
  <<Call("closeSession", s), Then("closedSession", s, ps)>> \o List \o <<Then("afterSession", was, Nil)>>
DoSplit(p, s) == <<[Call("split", p) EXCEPT !.y = s]>>
ClosePane(p, s) == <<Call("closePane", p), Then("closedPane", p, Nil)>> \o List \o <<Then("afterClose", s, Nil)>>
RenamePane == <<Call("rename", Nil)>> \o States
NewWindow(s) == <<Call("newWindow", s)>>
RenameWindow(s) == <<Call("rename", Nil), Call("windows", s)>>
CloseWindow(w, s, ps) ==
  <<Call("closeWindow", w), Then("closedWindow", w, [s |-> s, ps |-> ps])>> \o List \o <<Then("afterClose", s, Nil)>>
GotoPane(u, p) ==
  (IF u.active = u.states[p] THEN <<>> ELSE SwitchSession(u.states[p])) \o <<Then("focus", p, Nil)>>

\* Mutant: a spawned pane reloads the trees only.
MutantLifecycle(u, e) ==
  IF e.k = "closed" THEN <<Then("dispose", e.p, Nil)>> \o List ELSE States \o <<Then("reload", Nil, "adopt")>>

\* applyLifecycleEvent.
Lifecycle(u, e) ==
  CASE e.k = "spawned" -> List \o States \o <<Then("reload", Nil, "adopt")>>
    [] e.k = "closed"  -> <<Then("dispose", e.p, Nil)>> \o List
                            \o <<Then("afterClosed", e.p, IF e.p \in DOMAIN u.states THEN u.states[e.p] ELSE Nil)>>
    [] e.k = "layout"  -> <<Then("reload", Nil, Nil)>>
    [] e.k = "state"   -> <<Then("state", e.p, Nil)>>

\* What becomes of the user's view when session s may have ended.
AfterClose(u, s) ==
  IF s = Nil THEN [u |-> u, c |-> <<>>]
  ELSE IF s \in DOMAIN u.sessions THEN [u |-> u, c |-> TreeFocus(s)]
  ELSE [u |-> Pick(u, u.first), c |-> IF u.first = Nil THEN NewSession ELSE TreeFocus(u.first)]

\* removeSessionNow; next is sessions[0] of the others.
RemoveSessionNow(u, s) ==
  LET rest == Drop(u.sessions, {s})
      next == IF u.first # s THEN u.first ELSE Least(DOMAIN rest)
      v    == [Detach(Forget(u, {s}), Leaves(u.layouts, WindowTabs(u, s)))
                 EXCEPT !.sessions = rest, !.first = next]
  IN  IF u.active # s THEN [u |-> v, c |-> <<>>]
      ELSE [u |-> Pick(v, next), c |-> IF next = Nil THEN NewSession ELSE TreeFocus(next)]

\* The map copied before the layouts were fetched misses what was written since.
Older(map, now) == \E w \in DOMAIN now : w \notin DOMAIN map \/ map[w].v < now[w].v

Exec(i, u, map) ==
  LET Same(v) == [u |-> v, c |-> <<>>]
  IN
  CASE i.op = "first"   -> Same(FocusFirstLeaf(u, i.x))
    [] i.op = "switch"  -> Same([u EXCEPT !.active = i.x, !.zoom = Nil])
    [] i.op = "active"  -> Same([u EXCEPT !.active = i.x])
    [] i.op = "focus"   -> Same([u EXCEPT !.focus = i.x])
    [] i.op = "zoom"    -> Same(ZoomPane(u, i.x))
    [] i.op = "window"  -> Same(SwitchWindow(u, i.x))
    [] i.op = "dispose" -> Same(Dispose(u, {i.x}))
    [] i.op = "write"   -> [u |-> [u EXCEPT !.layouts = map, !.stale = @ \/ Older(map, u.layouts)],
                            c |-> LET ps == Leaves(map, i.y) \ u.terms
                                  IN  IF ps = {} THEN <<>> ELSE <<Call("attach", ps)>>]
    [] i.op = "closedPane" -> Same([Dispose(u, {i.x}) EXCEPT !.zoom = IF @ = i.x THEN Nil ELSE @])
    [] i.op = "closedWindow" ->
         Same([Detach(u, i.y.ps) EXCEPT !.layouts = Drop(@, {i.x}),
                 !.actWin = IF i.y.s \in DOMAIN @ /\ @[i.y.s] = i.x THEN Drop(@, {i.y.s}) ELSE @])
    [] i.op = "closedSession" -> Same(Detach(Forget(u, {i.x}), i.y))
    [] i.op = "afterClose"   -> AfterClose(u, i.x)
    [] i.op = "afterSession" ->
         IF i.x THEN [u |-> Pick(u, u.first), c |-> IF u.first = Nil THEN NewSession ELSE TreeFocus(u.first)]
         ELSE Same(u)
    [] i.op = "reload" ->
         [u |-> u, c |-> IF u.active \notin DOMAIN u.sessions THEN <<>>
                         ELSE Tree(u.active) \o (IF i.y = "adopt" THEN <<Then("adopt", u.active, Nil)>> ELSE <<>>)]
    [] i.op = "adopt" ->
         IF u.active = Nil THEN [u |-> [u EXCEPT !.active = i.x], c |-> TreeFocus(i.x)] ELSE Same(u)
    [] i.op = "afterClosed" ->
         IF i.y = Nil THEN Same(u)
         ELSE IF i.y \notin DOMAIN u.sessions \/ u.sessions[i.y] = 0 THEN RemoveSessionNow(u, i.y)
         ELSE [u |-> u, c |-> States \o <<Then("closedTree", i.x, i.y)>>]
    [] i.op = "closedTree" ->
         [u |-> u, c |-> IF u.active = i.y THEN Tree(i.y) \o <<Then("refocus", i.x, i.y)>>
                         ELSE <<Call("windows", i.y)>>]
    [] i.op = "refocus" -> Same(IF u.focus = i.x THEN FocusFirstLeaf(u, i.y) ELSE u)
    [] i.op = "state"   -> Same([u EXCEPT !.states = Set(@, i.x, IF i.x \in DOMAIN @ THEN @[i.x] ELSE u.active)])

\* One Then, when one is next.
Round(x, map) ==
  IF x.c = <<>> \/ ~Head(x.c).sync THEN x
  ELSE LET r == Exec(Head(x.c), x.u, map) IN [u |-> r.u, c |-> r.c \o Tail(x.c)]

\* The program up to its next Call.  What a Then leads to begins with a Call, so
\* there are no more rounds than instructions.
Run(u, c, map) ==
  LET f[n \in 0..Len(c)] == IF n = 0 THEN [u |-> u, c |-> c] ELSE Round(f[n - 1], map)
  IN  f[Len(c)]

(***************************************************************************)
(* Calls: the bridge and the daemon serve them, then the caller resumes.   *)
(***************************************************************************)
Idle(a) == jobs[a].c = <<>>
Doing(a) == Head(jobs[a].c)
Err == [ok |-> FALSE]
Ok(r) == [ok |-> TRUE, r |-> r, v |-> made.v]

Returns(a, r) == jobs' = [jobs EXCEPT ![a].ans = r]
Replies(a, r) == Returns(a, r) /\ UNCHANGED <<wins, halves, reports, made, bus, gone, pumps>>
Reads(a, r)   == Replies(a, r) /\ UNCHANGED <<trees, missed>>

\* A step may fail, though what it is about is alive.
MayFail == Cardinality(missed) < script.fails

\* Without a tree the single daemon answers with a pane of the window, if it has
\* one, the supervisor with one of the session.
Fallback(w) == IF script.single THEN wins[w].panes ELSE PanesOf(wins[w].s)

\* Leaves of w that the supervisor takes for ghosts, where it knows a live pane.
Ghosts(w) == IF script.single \/ Indexed(w) = {} THEN {} ELSE trees[w] \ Indexed(w)

\* list_sessions, list_windows, get_window_layout and pane_states.
ListAllSessions(a) ==
  \E f \in IF Listed = {} THEN {Nil} ELSE Listed :
     Reads(a, Ok([count |-> [s \in Listed |-> Cardinality(PanesOf(s))], first |-> f, v |-> made.v]))
ListWindows(a, s) == Reads(a, IF s = Nil THEN Err ELSE Ok(WindowsOf(s)))
GetWindowLayout(a, w) ==
  LET Layout(P) == Ok([panes |-> P, v |-> made.v]) IN
  \/ w \notin DOMAIN wins /\ Reads(a, Err)
  \/ /\ w \in DOMAIN wins /\ trees[w] = {}
     /\ \/ \E p \in Fallback(w) : Reads(a, Layout({p}))
        \/ Fallback(w) = {} /\ Reads(a, Err)
  \/ /\ w \in DOMAIN wins /\ trees[w] # {}
     /\ trees' = [trees EXCEPT ![w] = Prune(@, Ghosts(w))]
     /\ missed' = missed \cup (Ghosts(w) \cap wins[w].panes)
     /\ Replies(a, Layout(trees'[w]))
PaneStates(a) == Reads(a, Ok([p \in LivePanes |-> wins[WindowOf(p)].s]))
Rename(a) == Reads(a, Ok(Nil))

ServeRead(a) ==
  LET i == Doing(a) IN
  \/ i.op = "list" /\ ListAllSessions(a)
  \/ i.op \in {"tree", "windows"} /\ ListWindows(a, i.x)
  \/ i.op = "layout" /\ GetWindowLayout(a, i.x)
  \/ i.op = "states" /\ PaneStates(a)
  \/ i.op = "rename" /\ Rename(a)

\* spawn_session, open_split, open_pane, new_window, close_pane, close_session
\* and close_window.
Spawn(a) == SpawnDaemon /\ Returns(a, Ok(NewW))
OpenSplit(a, p) == p \in LivePanes /\ StartSplit(a, p) /\ UNCHANGED jobs
OpenPane(a, w) == w \in DOMAIN wins /\ OpenDaemon(w) /\ Returns(a, Ok(NewP))
OpenWindow(a, s) ==
  /\ s \in Listed /\ NewW <= MaxWindows
  /\ Changes(Set(wins, NewW, [s |-> s, panes |-> {}]), <<1, 0>>, <<>>)
  /\ UNCHANGED <<trees, halves, reports, missed>>
  /\ Returns(a, Ok(NewW))
EndPane(a, p) ==
  /\ p \in LivePanes
  /\ \/ CloseDaemon(WindowOf(p), {p}) /\ UNCHANGED halves /\ Returns(a, Ok(Nil))
     \/ MayFail /\ Replies(a, Err) /\ missed' = missed \cup {p} /\ UNCHANGED trees
\* The sweep of stale sessions that follows may fail.
EndSession(a, s) ==
  /\ s \in Listed
  /\ KillDaemon(s)
  /\ \/ Returns(a, Ok(Nil))
     \/ script.fails # 0 /\ Returns(a, Err)
EndWindow(a, w) ==
  /\ w \in DOMAIN wins
  /\ CloseDaemon(w, wins[w].panes)
  /\ halves' = halves \cup {[op |-> "window", by |-> a, w |-> w]}
  /\ UNCHANGED jobs

\* The rest of close_window.  (A window that got a pane meanwhile stays here.)
FinishWindow(h) ==
  /\ Changes(IF h.w \in DOMAIN wins /\ wins[h.w].panes = {} THEN Drop(wins, {h.w}) ELSE wins, <<0, 0>>, <<>>)
  /\ UNCHANGED <<trees, missed>>

\* The rest of a half-done call, and its answer.
FinishCall(h) ==
  /\ \/ h.op = "split" /\ FinishSplit(h)
     \/ h.op = "window" /\ FinishWindow(h)
  /\ halves' = halves \ {h}
  /\ \/ h.by \notin Actors /\ UNCHANGED jobs
     \/ h.by \in Actors /\ Doing(h.by).op = "split" /\ Returns(h.by, Ok(h.new))
     \/ h.by \in Actors /\ Doing(h.by).op = "closeWindow" /\ Returns(h.by, Ok(Nil))
  /\ UNCHANGED <<script, reports, view, spent>>

ServeWrite(a) ==
  LET i == Doing(a) IN
  \/ i.op = "spawn" /\ Spawn(a)
  \/ i.op = "split" /\ OpenSplit(a, i.x)
  \/ i.op = "openPane" /\ OpenPane(a, i.x)
  \/ i.op = "newWindow" /\ OpenWindow(a, i.x)
  \/ i.op = "closePane" /\ EndPane(a, i.x)
  \/ i.op = "closeSession" /\ EndSession(a, i.x)
  \/ i.op = "closeWindow" /\ EndWindow(a, i.x)

\* The daemon knows no such pane, window or session, or the bounds are reached.
Refused(i) ==
  CASE i.op = "spawn" -> NewW > MaxWindows \/ NewP > MaxPanes
    [] i.op = "split" -> i.x \notin LivePanes \/ NewP > MaxPanes
    [] i.op = "openPane" -> i.x \notin DOMAIN wins \/ NewP > MaxPanes
    [] i.op = "newWindow" -> i.x \notin Listed \/ NewW > MaxWindows
    [] i.op = "closePane" -> i.x \notin LivePanes
    [] i.op = "closeSession" -> i.x \notin Listed
    [] i.op = "closeWindow" -> i.x \notin DOMAIN wins
    [] OTHER -> FALSE

\* attach_pane_stream replaces the pump of a pane.  The stream of a pane that the
\* daemon does not know ends at once.  When the connection fails the old pump is
\* gone all the same.
Attach(a) ==
  LET i == Doing(a) IN
  /\ i.op = "attach"
  /\ \E p \in i.x :
       /\ \/ p \in LivePanes /\ pumps' = pumps \cup {p} /\ UNCHANGED <<gone, missed>>
          \/ p \in LivePanes /\ MayFail /\ pumps' = pumps \ {p} /\ missed' = missed \cup {p} /\ UNCHANGED gone
          \/ p \notin LivePanes /\ pumps' = pumps \ {p} /\ gone' = gone \cup {p} /\ UNCHANGED missed
       /\ jobs' = [jobs EXCEPT ![a].c[1].x = @ \ {p}, ![a].ans = IF i.x = {p} THEN Ok(Nil) ELSE @]
  /\ UNCHANGED <<wins, trees, halves, reports, made, bus>>

ServeCall(a) ==
  /\ ~Idle(a) /\ jobs[a].ans = Nil /\ \A h \in halves : h.by # a
  /\ \/ ServeRead(a) \/ ServeWrite(a) \/ Attach(a)
     \/ Refused(Doing(a)) /\ Reads(a, Err)
  /\ UNCHANGED <<script, view, spent>>

\* What the answer changes in the store, and the calls it leads to.
Applied(i, a, u) ==
  CASE i.op = "list" -> [u |-> ReloadSessions(u, a.r), c |-> <<>>]
    [] i.op = "windows" -> [u |-> ReloadWindows(u, i.x, a.r, a.v), c |-> <<>>]
    [] i.op = "tree" -> [u |-> ReloadWindows(u, i.x, a.r, a.v),
                         c |-> [k \in 1 .. Cardinality(a.r) |-> Call("layout", SetToSortSeq(a.r, <)[k])]
                               \o <<Then("write", i.x, a.r)>>]
    [] i.op = "states" -> [u |-> [u EXCEPT !.states = a.r], c |-> <<>>]
    [] i.op = "spawn" -> [u |-> u, c |-> List \o <<Then("active", a.r, Nil)>> \o TreeFocus(a.r)]
    [] i.op = "split" -> [u |-> u, c |-> Tree(i.y) \o <<Then("focus", a.r, Nil)>>]
    [] i.op = "newWindow" -> [u |-> u, c |-> <<Call("openPane", a.r)>> \o States \o Tree(i.x)
                                             \o <<Then("window", a.r, Nil)>>]
    [] OTHER -> [u |-> u, c |-> <<>>]

\* The error ends the function, or only its caller's try block.
Fatal == {"spawn", "split", "newWindow", "openPane", "closeSession", "rename"}

Settle(u) == Render([u EXCEPT !.cut = {}])

\* Run a program of actor a from state u; the panes it detaches lose their pump.
Proceed(a, u, c, map) ==
  LET r == Run(u, c, map)
  IN  /\ view' = Settle(r.u)
      /\ jobs' = [jobs EXCEPT ![a] = [c |-> r.c, ans |-> Nil, map |-> IF r.c = <<>> THEN <<>> ELSE map]]
      /\ pumps' = pumps \ r.u.cut

Resume(a) ==
  LET i == Doing(a)
      r == jobs[a].ans
      m == jobs[a].map
      t == Tail(jobs[a].c)
  IN
  /\ ~Idle(a) /\ r # Nil
  /\ IF ~r.ok THEN Proceed(a, view, IF i.op \in Fatal THEN <<>> ELSE t, m)
     ELSE LET e == Applied(i, r, view)
          IN  Proceed(a, e.u, e.c \o t,
                      CASE i.op = "tree" -> e.u.layouts
                        [] i.op = "layout" -> Set(m, i.x, r.r)
                        [] OTHER -> m)
  /\ UNCHANGED <<script, wins, trees, halves, reports, made, bus, gone, missed, spent>>

(***************************************************************************)
(* What starts the functions.                                              *)
(***************************************************************************)
Begin(a, c) ==
  Idle(a) /\ Proceed(a, view, c, <<>>) /\ UNCHANGED <<script, wins, trees, halves, reports, made, missed>>

\* runEventLoop takes the next event.
TakeEvent ==
  /\ bus # <<>>
  /\ Begin("loop", Lifecycle(view, Head(bus)))
  /\ bus' = Tail(bus)
  /\ UNCHANGED <<gone, spent>>

\* onPaneClosed.
PaneClosed(p) ==
  /\ p \in gone
  /\ Begin("pump", <<Then("dispose", p, Nil)>> \o (IF view.active = Nil THEN <<>> ELSE Tree(view.active)))
  /\ gone' = gone \ {p}
  /\ UNCHANGED <<bus, spent>>

\* The poll's reloadPaneStates.
PollStates ==
  /\ spent.poll < script.polls
  /\ Begin("poll", States)
  /\ spent' = [spent EXCEPT !.poll = @ + 1]
  /\ UNCHANGED <<bus, gone>>

\* An action runs in the first of the user's slots that is free.
Slot == IF Idle("user") THEN "user" ELSE "user2"

Invoke(name, c) ==
  /\ name \in script.user /\ spent.user < script.ops
  /\ Begin(Slot, c)
  /\ spent' = [spent EXCEPT !.user = @ + 1]
  /\ UNCHANGED <<bus, gone>>

Tabs == WindowTabs(view, view.active)

UserSession ==
  \/ Invoke("new", NewSession)
  \/ \E s \in DOMAIN view.sessions :
       \/ Invoke("switch", SwitchSession(s))
       \/ Invoke("closeSession", CloseSession(s, Leaves(view.layouts, WindowTabs(view, s)), view.active = s))
       \/ Invoke("rename", RenameSession)
  \/ \E p \in DOMAIN view.states :
       Invoke("goto", GotoPane(view, p))

UserPane ==
  /\ view.focus # Nil
  /\ \/ Invoke("split", IF view.active = Nil THEN <<>> ELSE DoSplit(view.focus, view.active))
     \/ Invoke("closePane", ClosePane(view.focus, view.active))
     \/ Invoke("renamePane", RenamePane)
     \/ Invoke("zoom", <<Then("zoom", view.focus, Nil)>>)
     \/ \E p \in Shown(view) : Invoke("click", <<Then("focus", p, Nil)>>)

UserWindow ==
  /\ view.active # Nil
  /\ \/ Invoke("newWindow", NewWindow(view.active))
     \/ \E w \in Tabs :
          \/ Invoke("window", <<Then("window", w, Nil)>>)
          \/ Invoke("closeWindow", CloseWindow(w, view.active, Leaves(view.layouts, {w})))
          \/ Invoke("renameWindow", RenameWindow(view.active))

\* Other clients, and shells that end.
Other(name) ==
  /\ name \in script.other /\ spent.other < script.outs
  /\ spent' = [spent EXCEPT !.other = @ + 1]
  /\ UNCHANGED <<script, view, jobs>>

Others ==
  \/ Other("spawn") /\ SpawnDaemon
  \/ \E p \in LivePanes :
       \/ Other("split") /\ StartSplit("other", p)
       \/ Other("exit") /\ ExitDaemon(p)
       \/ /\ Other("heat") /\ bus' = Append(bus, Event("state", p))
          /\ UNCHANGED <<wins, trees, halves, reports, made, gone, pumps, missed>>
  \/ \E s \in Listed : Other("kill") /\ KillDaemon(s)

\* One session is loaded: its window, its pane and the pump of the pane.
\* AppState once loadInitial has filled it for the only session.
Loaded ==
  [sessions |-> [s \in {1} |-> 1], first |-> 1, at |-> 0, active |-> 1, focus |-> 1, zoom |-> Nil,
   windows |-> [s \in {1} |-> {1}], winAt |-> [s \in Sessions |-> 0], actWin |-> [s \in {1} |-> 1],
   layouts |-> [w \in {1} |-> [panes |-> {1}, v |-> 0]], states |-> [p \in {1} |-> 1],
   terms |-> {}, cut |-> {}, stale |-> FALSE, print |-> Nil]

GuiInit ==
  /\ script \in Scripts
  /\ wins = [w \in {1} |-> [s |-> 1, panes |-> {1}]]
  /\ trees = [w \in Windows |-> IF w = 1 THEN {1} ELSE {}]
  /\ halves = {} /\ reports = 0 /\ missed = {}
  /\ made = [w |-> 1, p |-> 1, v |-> 0]
  /\ bus = <<>> /\ gone = {}
  /\ view = Settle(Loaded)
  /\ jobs = [a \in Actors |-> [c |-> <<>>, ans |-> Nil, map |-> <<>>]]
  /\ pumps = {1}
  /\ spent = [user |-> 0, other |-> 0, poll |-> 0]

GuiNext ==
  \/ \E a \in Actors : ServeCall(a) \/ Resume(a)
  \/ \E h \in halves : FinishCall(h)
  \/ WorkerReports
  \/ TakeEvent \/ \E p \in Panes : PaneClosed(p)
  \/ PollStates \/ UserSession \/ UserPane \/ UserWindow \/ Others

GuiSpec == GuiInit /\ [][GuiNext]_svars

\* The daemon owes nothing.
Done == halves = {} /\ reports = 0 /\ bus = <<>>

Quiet == Done /\ gone = {} /\ \A a \in Actors : Idle(a)

\* When every event is handled and every answer applied, the rail lists the
\* sessions the daemon has, unless an older answer replaced a newer one
\* (reloadSessions is called by every handler that may change the list).
RailConverges == Quiet /\ ~view.stale => DOMAIN view.sessions = Listed

\* Panes that the pane-closed handler is about to attach.
Attaching == IF ~Idle("pump") /\ Doing("pump").op = "attach" THEN Doing("pump").x ELSE {}

\* When every event is handled and all but the pane-closed handler are at rest
\* (a dead leaf keeps that one busy with the single daemon), every live pane of
\* the active session is in a tree that is shown and, unless a pane is zoomed,
\* has a terminal, fed by a pump of the bridge.  Except for the panes whose
\* attach or close has failed or that the daemon left out of their tree: those
\* stay as they are (reloadSession, ensureStreams and renderCenter agree on what
\* is mounted).
LivePanesServed ==
  Done /\ (\A a \in Actors \ {"pump"} : Idle(a)) /\ ~view.stale /\ view.active # Nil =>
    \A p \in PanesOf(view.active) \ missed :
      /\ p \in Leaves(view.layouts, Tabs)
      /\ view.zoom = Nil => p \in view.terms /\ p \in pumps \cup Attaching

=============================================================================
