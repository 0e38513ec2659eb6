------------------------------ MODULE Registry ------------------------------
(***************************************************************************)
(* SessionRegistry of the single-process daemon (session.rs), the RPCs of  *)
(* server.rs that drive it, and the child-wait task of every shell         *)
(* (pty.rs).  Each RPC runs on a task of its own; a step below ends where  *)
(* the code releases a lock or awaits, which is where tasks interleave.    *)
(*                                                                         *)
(* Abstractions: identifiers are fresh members of finite sets; a layout    *)
(* tree is the set of its leaves ({} is None); names, geometry, weights    *)
(* and timestamps are dropped.  SQLite writes succeed.                     *)
(***************************************************************************)
EXTENDS Naturals, Sequences

CONSTANTS
  Sessions, Windows, Panes,   \* identifiers available (each used once)
  Tasks,                      \* RPCs in flight at the same time
  Scenarios,                  \* which of the tasks and identifiers a behaviour
                              \* uses, and the RPCs its clients call
  None

ASSUME NoneAssumption == None \notin Sessions \cup Windows \cup Panes

VARIABLES
  sessions,    \* keys of SessionRegistry.sessions
  panes,       \* SessionState.panes; outlives eviction through its Arc
  wins,        \* SessionState.windows, in order
  owner,       \* WindowState.session (None: not created)
  home,        \* PaneState.window (None: not created)
  layout,      \* WindowState.layout
  rows,        \* window rows in SQLite
  stored,      \* windows.layout in SQLite
  proc,        \* the shell, and how far its child-wait task is
  signalled,   \* shells sent SIGTERM
  task,        \* the RPC each task runs
  scn          \* the scenario

mem    == <<sessions, panes, wins, owner, home, layout>>
sql    == <<rows, stored>>
child  == <<proc, signalled>>
vars   == <<mem, sql, child, task, scn>>

Idle == [rpc |-> "none", pc |-> "idle", sess |-> None, win |-> None, pane |-> None,
         parent |-> None, todo |-> {}, snap |-> {}, next |-> "idle", del |-> {}]

\* A task takes a request in and starts on it with this frame.
Call(t, frame)      == /\ t \in scn.tasks /\ frame.rpc \in scn.rpcs
                       /\ task[t] = Idle
                       /\ task' = [task EXCEPT ![t] = frame]
At(t, pc)           == task[t].pc = pc
Goto(t, pc)         == task' = [task EXCEPT ![t].pc = pc]
Return(t)           == task' = [task EXCEPT ![t] = Idle]
WinsOf(s)           == {wins[s][i] : i \in DOMAIN wins[s]}

\* A new identifier: any unused one will do.
Fresh(S)            == IF S = {} THEN None ELSE CHOOSE x \in S : TRUE

\* get_pane finds p, as does every list RPC.
Listed(p)           == \E s \in sessions : p \in panes[s]
SessionOf(p)        == CHOOSE s \in sessions : p \in panes[s]

-----------------------------------------------------------------------------
(* new_session, new_window *)

\* spawn: insert the session with its default window.
NewSession(t) ==
  \E s \in Sessions, w \in Windows :
    /\ \A v \in Windows : owner[v] # s
    /\ w = Fresh({v \in scn.windows : owner[v] = None /\ \A u \in Tasks : task[u].win # v})
    /\ Call(t, [Idle EXCEPT !.rpc = "spawn", !.pc = "window_row", !.sess = s,
                         !.win = w])
    /\ sessions' = sessions \cup {s}
    /\ wins' = [wins EXCEPT ![s] = <<w>>]
    /\ owner' = [owner EXCEPT ![w] = s]
    /\ UNCHANGED <<panes, home, layout, sql, child, scn>>

\* new_window: the session must exist; the new window's id is drawn.
NewWindow(t) ==
  \E s \in sessions, w \in Windows :
    /\ w = Fresh({v \in scn.windows : owner[v] = None /\ \A u \in Tasks : task[u].win # v})
    /\ Call(t, [Idle EXCEPT !.rpc = "new_window", !.pc = "push_window",
                         !.sess = s, !.win = w])
    /\ UNCHANGED <<mem, sql, child, scn>>

\* windows.push, through the session's Arc.
PushWindow(t) ==
  LET s == task[t].sess
      w == task[t].win IN
  /\ At(t, "push_window")
  /\ owner' = [owner EXCEPT ![w] = s]
  /\ wins' = [wins EXCEPT ![s] = Append(@, w)]
  /\ Goto(t, "window_row")
  /\ UNCHANGED <<sessions, panes, home, layout, sql, child, scn>>

\* Store::upsert_window: the table with a row for w.
WithRow(w) == rows \cup {w}

\* upsert_session and upsert_window; spawn goes on to open_pane.
UpsertWindow(t) ==
  /\ At(t, "window_row")
  /\ rows' = WithRow(task[t].win)
  /\ IF task[t].rpc = "spawn" THEN Goto(t, "open_lookup") ELSE Return(t)
  /\ UNCHANGED <<mem, stored, child, scn>>

-----------------------------------------------------------------------------
(* open_pane *)

OpenPane(t) ==
  \E s \in Sessions, w \in Windows :
    /\ owner[w] # None
    /\ Call(t, [Idle EXCEPT !.rpc = "open_pane", !.pc = "open_lookup", !.sess = s,
                         !.win = w])
    /\ UNCHANGED <<mem, sql, child, scn>>

\* Clone the session's Arc, or fail.
OpenLookup(t) ==
  /\ At(t, "open_lookup")
  /\ IF task[t].sess \in sessions THEN Goto(t, "open_window") ELSE Return(t)
  /\ UNCHANGED <<mem, sql, child, scn>>

\* The requested window, or the first one, or fail.
OpenWindow(t) ==
  LET s == task[t].sess IN
  /\ At(t, "open_window")
  /\ \/ /\ task[t].win \in WinsOf(s)
        /\ Goto(t, "spawn_pty")
     \/ /\ task[t].win \notin WinsOf(s)
        /\ wins[s] # <<>>
        /\ task' = [task EXCEPT ![t].pc = "spawn_pty", ![t].win = Head(wins[s])]
     \/ /\ wins[s] = <<>>
        /\ Return(t)
  /\ UNCHANGED <<mem, sql, child, scn>>

\* spawn_pty starts the shell and its child-wait task, or fails.
SpawnPty(t) ==
  /\ At(t, "spawn_pty")
  /\ \/ \E p \in Panes :
          /\ p = Fresh({q \in scn.panes : proc[q] = "none"})
          /\ proc' = [proc EXCEPT ![p] = "running"]
          /\ home' = [home EXCEPT ![p] = task[t].win]
          /\ task' = [task EXCEPT ![t].pc = "insert", ![t].pane = p]
     \/ Return(t) /\ UNCHANGED <<proc, home>>
  /\ UNCHANGED <<sessions, panes, wins, owner, layout, sql, signalled, scn>>

\* session.panes.insert, through the Arc taken in OpenLookup.
InsertPane(t) ==
  /\ At(t, "insert")
  /\ panes' = [panes EXCEPT ![task[t].sess] = @ \cup {task[t].pane}]
  /\ Goto(t, "init_layout")
  /\ UNCHANGED <<sessions, wins, owner, home, layout, sql, child, scn>>

\* Under the layout lock: the first pane becomes the root leaf.
InitLayout(t) ==
  LET w == task[t].win IN
  /\ At(t, "init_layout")
  /\ \/ /\ layout[w] = {}
        /\ layout' = [layout EXCEPT ![w] = {task[t].pane}]
        /\ task' = [task EXCEPT ![t].pc = "persist", ![t].next = "emit_spawned",
                                ![t].snap = {task[t].pane}]
     \/ /\ layout[w] # {}
        /\ Goto(t, "emit_spawned")
        /\ UNCHANGED layout
  /\ UNCHANGED <<sessions, panes, wins, owner, home, sql, child, scn>>

\* upsert_window_layout, after the layout lock was dropped: an UPDATE, so a
\* window without a row is left alone.
PersistLayout(t) ==
  LET w == task[t].win IN
  /\ At(t, "persist")
  /\ stored' = IF w \in rows THEN [stored EXCEPT ![w] = task[t].snap] ELSE stored
  /\ Goto(t, task[t].next)
  /\ UNCHANGED <<mem, rows, child, scn>>

\* emit_event(Spawned); open_pane_split goes on to the layout.
EmitSpawned(t) ==
  /\ At(t, "emit_spawned")
  /\ IF task[t].rpc = "split" THEN Goto(t, "split_layout") ELSE Return(t)
  /\ UNCHANGED <<mem, sql, child, scn>>

-----------------------------------------------------------------------------
(* open_pane_split, set_pane_weight *)

\* The parent and its window must be found; then open_pane in that window.
OpenPaneSplit(t) ==
  \E p \in Panes :
    /\ Listed(p)
    /\ home[p] \in WinsOf(SessionOf(p))
    /\ Call(t, [Idle EXCEPT !.rpc = "split", !.pc = "open_lookup",
                         !.sess = SessionOf(p), !.win = home[p],
                         !.parent = p])
    /\ UNCHANGED <<mem, sql, child, scn>>

\* split_focused: the new leaf joins the tree if its parent is still in it.
Split(leaves, parent, new) ==
  LET tree == IF leaves = {} THEN {parent} ELSE leaves
  IN  IF parent \in tree THEN tree \cup {new} ELSE tree

\* Mutant: the tree is serialised before it is split.
SplitLayoutStale(t) ==
  LET w == home[task[t].parent] IN
  /\ At(t, "split_layout")
  /\ layout' = [layout EXCEPT ![w] = Split(@, task[t].parent, task[t].pane)]
  /\ task' = [task EXCEPT ![t].pc = "persist", ![t].next = "emit_layout",
                          ![t].snap = layout[w], ![t].win = w]
  /\ UNCHANGED <<sessions, panes, wins, owner, home, sql, child, scn>>

\* In the parent's window, which was looked up before the pane was opened.
SplitLayout(t) ==
  LET w == home[task[t].parent]
      tree == Split(layout[w], task[t].parent, task[t].pane) IN
  /\ At(t, "split_layout")
  /\ layout' = [layout EXCEPT ![w] = tree]
  /\ task' = [task EXCEPT ![t].pc = "persist", ![t].next = "emit_layout",
                          ![t].snap = tree, ![t].win = w]
  /\ UNCHANGED <<sessions, panes, wins, owner, home, sql, child, scn>>

\* Leaves stay; the whole tree is written back like any other mutation.
SetPaneWeight(t) ==
  \E p \in Panes :
    /\ Listed(p)
    /\ home[p] \in WinsOf(SessionOf(p))
    /\ layout[home[p]] # {}
    /\ Call(t, [Idle EXCEPT !.rpc = "weight", !.pc = "persist",
                         !.next = "emit_layout", !.pane = p,
                         !.sess = SessionOf(p), !.win = home[p],
                         !.snap = layout[home[p]]])
    /\ UNCHANGED <<mem, sql, child, scn>>

\* emit_event(LayoutChanged); close_pane goes on to evict.
EmitLayout(t) ==
  /\ At(t, "emit_layout")
  /\ IF task[t].rpc \in {"split", "weight"} THEN Return(t) ELSE Goto(t, "evict")
  /\ UNCHANGED <<mem, sql, child, scn>>

-----------------------------------------------------------------------------
(* close_pane *)

ClosePane(t) ==
  \E p \in Panes :
    /\ Listed(p)
    /\ Call(t, [Idle EXCEPT !.rpc = "close_pane", !.pc = "close_kill",
                         !.sess = SessionOf(p), !.pane = p])
    /\ UNCHANGED <<mem, sql, child, scn>>

\* Back to the caller: the RPC ends, or close_window takes its next pane.
CloseReturn(t) ==
  IF task[t].rpc = "close_window" THEN Goto(t, "close_next") ELSE Return(t)

\* kill() reaches a shell until its exit status is collected.
Killable(p) == proc[p] \in {"running", "dead"}

\* kill()? returns early on error; then the pane leaves the map.
CloseKill(t) ==
  LET p == task[t].pane IN
  /\ At(t, "close_kill")
  /\ \/ /\ Killable(p)
        /\ signalled' = signalled \cup {p}
        /\ panes' = [panes EXCEPT ![task[t].sess] = @ \ {p}]
        /\ Goto(t, "close_layout")
     \/ /\ ~Killable(p)
        /\ CloseReturn(t)
        /\ UNCHANGED <<signalled, panes>>
  /\ UNCHANGED <<sessions, wins, owner, home, layout, sql, proc, scn>>

\* Mutant: the leaf is looked up but not removed.
CloseLeafKept(leaves, p) == leaves

\* LayoutNode::close: a sole root leaf stays.
CloseLeaf(leaves, p) == IF leaves = {p} THEN leaves ELSE leaves \ {p}

CloseLayout(t) ==
  LET w == home[task[t].pane]
      tree == CloseLeaf(layout[w], task[t].pane) IN
  /\ At(t, "close_layout")
  /\ \/ /\ w \in WinsOf(task[t].sess)
        /\ layout[w] # {}
        /\ layout' = [layout EXCEPT ![w] = tree]
        /\ task' = [task EXCEPT ![t].pc = "persist", ![t].next = "emit_layout",
                                ![t].snap = tree, ![t].win = w]
     \/ /\ w \notin WinsOf(task[t].sess) \/ layout[w] = {}
        /\ Goto(t, "evict")
        /\ UNCHANGED layout
  /\ UNCHANGED <<sessions, panes, wins, owner, home, sql, child, scn>>

\* evict_session_if_empty under the sessions lock, then emit_event(Closed).
EvictIfEmpty(t) ==
  LET s == task[t].sess IN
  /\ At(t, "evict")
  /\ sessions' = IF panes[s] = {} THEN sessions \ {s} ELSE sessions
  /\ CloseReturn(t)
  /\ UNCHANGED <<panes, wins, owner, home, layout, sql, child, scn>>

-----------------------------------------------------------------------------
(* close_window *)

\* Snapshot the window's panes.
CloseWindow(t) ==
  \E s \in sessions : \E w \in WinsOf(s) :
    /\ Call(t, [Idle EXCEPT !.rpc = "close_window", !.pc = "close_next",
                         !.sess = s, !.del = {w},
                         !.todo = {p \in panes[s] : home[p] = w}])
    /\ UNCHANGED <<mem, sql, child, scn>>

\* close_pane on each of them; an error there is only logged.
CloseWindowNext(t) ==
  /\ At(t, "close_next")
  /\ \/ \E p \in task[t].todo :
          task' = [task EXCEPT ![t].pc = IF Listed(p) THEN "close_kill" ELSE "close_next",
                               ![t].todo = @ \ {p}, ![t].pane = p]
     \/ task[t].todo = {} /\ Goto(t, "close_remove")
  /\ UNCHANGED <<mem, sql, child, scn>>

\* windows.retain, on ids that are unique.
Retain(ws, w) ==
  LET at == {i \in DOMAIN ws : ws[i] = w}
      k  == CHOOSE i \in at : TRUE
  IN  IF at = {} THEN ws
      ELSE [i \in 1 .. Len(ws) - 1 |-> IF i < k THEN ws[i] ELSE ws[i + 1]]

\* Drop the window, through the session's Arc.
CloseWindowRemove(t) ==
  LET s == task[t].sess IN
  /\ At(t, "close_remove")
  /\ \/ /\ s \in sessions
        /\ \E w \in task[t].del : wins' = [wins EXCEPT ![s] = Retain(@, w)]
        /\ Goto(t, "close_empty")
     \/ /\ s \notin sessions
        /\ Goto(t, "delete_rows")
        /\ UNCHANGED wins
  /\ UNCHANGED <<sessions, panes, owner, home, layout, sql, child, scn>>

\* A session found without windows leaves the registry.
CloseWindowEmpty(t) ==
  /\ At(t, "close_empty")
  /\ Goto(t, IF wins[task[t].sess] = <<>> THEN "close_drop" ELSE "delete_rows")
  /\ UNCHANGED <<mem, sql, child, scn>>

CloseWindowDrop(t) ==
  /\ At(t, "close_drop")
  /\ sessions' = sessions \ {task[t].sess}
  /\ Goto(t, "delete_rows")
  /\ UNCHANGED <<panes, wins, owner, home, layout, sql, child, scn>>

DeleteRows(t) ==
  /\ At(t, "delete_rows")
  /\ rows' = rows \ task[t].del
  /\ Return(t)
  /\ UNCHANGED <<mem, stored, child, scn>>

-----------------------------------------------------------------------------
(* kill, close_session, gc_stale_sessions: all end in kill_session *)

Kill(t) ==
  \E s \in sessions :
    /\ Call(t, [Idle EXCEPT !.rpc = "kill", !.pc = "kill_remove", !.sess = s])
    /\ UNCHANGED <<mem, sql, child, scn>>

\* The windows to delete come from memory, or from SQLite for an evicted id.
CloseSession(t) ==
  \E s \in Sessions :
    /\ Call(t, [Idle EXCEPT !.rpc = "close_session", !.pc = "kill_remove",
                         !.sess = s,
                         !.del = IF s \in sessions THEN WinsOf(s) ELSE {w \in rows : owner[w] = s}])
    /\ UNCHANGED <<mem, sql, child, scn>>

\* list_sessions: the sessions that have no pane now are killed one by one.
GcStaleSessions(t) ==
  /\ Call(t, [Idle EXCEPT !.rpc = "gc", !.pc = "gc_next",
                          !.todo = {s \in sessions : panes[s] = {}}])
  /\ UNCHANGED <<mem, sql, child, scn>>

GcNext(t) ==
  /\ At(t, "gc_next")
  /\ \/ \E s \in task[t].todo :
          task' = [task EXCEPT ![t].pc = "kill_remove", ![t].sess = s,
                               ![t].todo = @ \ {s}]
     \/ task[t].todo = {} /\ Return(t)
  /\ UNCHANGED <<mem, sql, child, scn>>

KillReturn(t) == Goto(t, IF task[t].rpc = "gc" THEN "gc_next" ELSE "delete_rows")

KillRemove(t) ==
  /\ At(t, "kill_remove")
  /\ sessions' = sessions \ {task[t].sess}
  /\ IF task[t].sess \in sessions THEN Goto(t, "kill_panes") ELSE KillReturn(t)
  /\ UNCHANGED <<panes, wins, owner, home, layout, sql, child, scn>>

\* kill() every pane of the snapshot; errors are only logged.
KillPanes(t) ==
  /\ At(t, "kill_panes")
  /\ signalled' = signalled \cup {p \in panes[task[t].sess] : Killable(p)}
  /\ KillReturn(t)
  /\ UNCHANGED <<mem, sql, proc, scn>>

-----------------------------------------------------------------------------
(* The shell and its child-wait task *)

Exit(p) ==
  /\ proc[p] = "running"
  /\ proc' = [proc EXCEPT ![p] = "dead"]
  /\ UNCHANGED <<mem, sql, signalled, task, scn>>

\* wait() returns and the close token is cancelled.
Reap(p) ==
  /\ proc[p] = "dead"
  /\ proc' = [proc EXCEPT ![p] = "reaped"]
  /\ UNCHANGED <<mem, sql, signalled, task, scn>>

\* Mutant: the session goes with any of its panes.
RemovePaneDropsSession(p) ==
  /\ proc[p] = "reaped"
  /\ proc' = [proc EXCEPT ![p] = "removed"]
  /\ panes' = [s \in Sessions |-> IF s \in sessions THEN panes[s] \ {p} ELSE panes[s]]
  /\ sessions' = {s \in sessions : p \notin panes[s]}
  /\ UNCHANGED <<wins, owner, home, layout, sql, signalled, task, scn>>

\* Mutant: the emptied session stays in the registry.
RemovePaneNoEvict(p) ==
  /\ proc[p] = "reaped"
  /\ proc' = [proc EXCEPT ![p] = "removed"]
  /\ panes' = [s \in Sessions |-> IF s \in sessions THEN panes[s] \ {p} ELSE panes[s]]
  /\ UNCHANGED <<sessions, wins, owner, home, layout, sql, signalled, task, scn>>

\* Mutant: the child-wait task ends with the cancelled token.
RemovePaneForgotten(p) ==
  /\ proc[p] = "reaped"
  /\ proc' = [proc EXCEPT ![p] = "removed"]
  /\ UNCHANGED <<mem, sql, signalled, task, scn>>

\* remove_pane under the sessions lock, then emit_event(Closed).
RemovePane(p) ==
  /\ proc[p] = "reaped"
  /\ proc' = [proc EXCEPT ![p] = "removed"]
  /\ panes' = [s \in Sessions |-> IF s \in sessions THEN panes[s] \ {p} ELSE panes[s]]
  /\ sessions' = {s \in sessions : p \in panes[s] => panes[s] # {p}}
  /\ UNCHANGED <<wins, owner, home, layout, sql, signalled, task, scn>>

-----------------------------------------------------------------------------
Init ==
  /\ sessions = {}
  /\ panes = [s \in Sessions |-> {}]
  /\ wins = [s \in Sessions |-> <<>>]
  /\ owner = [w \in Windows |-> None]
  /\ home = [p \in Panes |-> None]
  /\ layout = [w \in Windows |-> {}]
  /\ rows = {}
  /\ stored = [w \in Windows |-> {}]
  /\ proc = [p \in Panes |-> "none"]
  /\ signalled = {}
  /\ task = [t \in Tasks |-> Idle]
  /\ scn \in Scenarios

\* A client calls an RPC.
Request(t) ==
  \/ NewSession(t) \/ NewWindow(t) \/ OpenPane(t) \/ OpenPaneSplit(t)
  \/ SetPaneWeight(t) \/ ClosePane(t) \/ CloseWindow(t)
  \/ Kill(t) \/ CloseSession(t) \/ GcStaleSessions(t)

\* A task in an RPC goes on.
Step(t) ==
  \/ PushWindow(t) \/ UpsertWindow(t)
  \/ OpenLookup(t) \/ OpenWindow(t) \/ SpawnPty(t) \/ InsertPane(t) \/ InitLayout(t)
  \/ PersistLayout(t) \/ EmitSpawned(t) \/ SplitLayout(t) \/ EmitLayout(t)
  \/ CloseKill(t) \/ CloseLayout(t) \/ EvictIfEmpty(t)
  \/ CloseWindowNext(t) \/ CloseWindowRemove(t) \/ CloseWindowEmpty(t) \/ CloseWindowDrop(t)
  \/ DeleteRows(t)
  \/ GcNext(t) \/ KillRemove(t) \/ KillPanes(t)

ChildWait(p) == Reap(p) \/ RemovePane(p)

Next ==
  \/ \E t \in Tasks : Request(t) \/ Step(t)
  \/ \E p \in Panes : Exit(p) \/ ChildWait(p)

Spec == Init /\ [][Next]_vars

\* The runtime runs every task that can go on, and a dead shell is waited for.
FairSpec ==
  /\ Spec
  /\ \A t \in Tasks : WF_vars(Step(t))
  /\ \A p \in Panes : WF_vars(ChildWait(p))
-----------------------------------------------------------------------------
(* Properties *)

Pcs == {"idle", "push_window", "window_row", "open_lookup", "open_window",
        "spawn_pty", "insert", "init_layout", "persist", "emit_spawned",
        "split_layout", "emit_layout", "close_kill", "close_layout", "evict",
        "close_next", "close_remove", "close_empty", "close_drop", "delete_rows",
        "gc_next", "kill_remove", "kill_panes"}

RpcNames == {"spawn", "new_window", "open_pane", "split", "weight", "close_pane",
             "close_window", "kill", "close_session", "gc"}

Frames == [rpc : RpcNames \cup {"none"}, pc : Pcs, sess : Sessions \cup {None},
           win : Windows \cup {None}, pane : Panes \cup {None},
           parent : Panes \cup {None}, todo : SUBSET (Panes \cup Sessions),
           snap : SUBSET Panes, next : Pcs, del : SUBSET Windows]

\* Every variable keeps its type.
TypeOK ==
  /\ sessions \subseteq Sessions
  /\ panes \in [Sessions -> SUBSET Panes]
  /\ wins \in [Sessions -> Seq(Windows)]
  /\ owner \in [Windows -> Sessions \cup {None}]
  /\ home \in [Panes -> Windows \cup {None}]
  /\ layout \in [Windows -> SUBSET Panes]
  /\ rows \subseteq Windows
  /\ stored \in [Windows -> SUBSET Panes]
  /\ proc \in [Panes -> {"none", "running", "dead", "reaped", "removed"}]
  /\ signalled \subseteq Panes
  /\ task \in [Tasks -> Frames]

\* open_pane has put p into some session's map.
Inserted(p) == /\ home[p] # None
               /\ \A t \in Tasks : ~(At(t, "insert") /\ task[t].pane = p)

\* A close_pane (or close_window) has taken a pane of s out of the map and
\* has not reached its evict_session_if_empty yet.
Closing(s) == \E t \in Tasks : /\ task[t].sess = s
                               /\ task[t].rpc \in {"close_pane", "close_window"}
                               /\ task[t].pc \in {"close_layout", "persist",
                                                  "emit_layout", "evict"}

\* Lifecycle rule I-4, "spawn -> running -> close -> evict": a session that has
\* had a pane and has none left is gone, or the close that emptied it is about
\* to evict it.  It has to survive closes, shell exits and opens of the same
\* session in any order.
EmptySessionEvicted ==
  \A s \in sessions :
    /\ panes[s] = {}
    /\ \E p \in Panes : Inserted(p) /\ owner[home[p]] = s
    => Closing(s)

\* No RPC is in flight, and every shell that died has been waited for.
Quiet == /\ \A t \in Tasks : task[t] = Idle
         /\ \A p \in Panes : proc[p] \notin {"dead", "reaped"}

\* One RPC at a time.
Serial == \A t, u \in scn.tasks : t = u

\* WindowState::layout, "mutations are serialised through this Mutex": at rest
\* after RPCs that did not overlap, SQLite holds the tree that is in memory, for
\* every window of every session.
StoredMatchesMemory ==
  Serial /\ Quiet => \A s \in sessions : \A w \in WinsOf(s) : stored[w] = layout[w]

\* close_pane collapses the tree: at rest after RPCs that did not overlap, a pane
\* that was closed on request is in no tree, except as the sole root leaf that
\* LayoutNode::close cannot remove.
ClosedPaneLeavesTree ==
  Serial /\ Quiet => \A s \in sessions : \A w \in WinsOf(s) : \A p \in layout[w] :
             p \in signalled => layout[w] = {p}

\* A healthy shell leaves the lists only on request: unless its session is
\* being killed, a listed pane with a running shell disappears after SIGTERM.
HealthyPaneStays ==
  [][Serial => \A p \in Panes :
       Listed(p) /\ proc[p] = "running" /\ ~Listed(p)' =>
         \/ p \in signalled'
         \/ \E t \in Tasks : /\ At(t, "kill_remove")
                             /\ task[t].rpc \in {"kill", "close_session"}
                             /\ p \in panes[task[t].sess]]_vars

\* The child-wait task cleans up: a listed pane whose shell died leaves the
\* lists, for good.
DeadPaneLeaves ==
  \A p \in Panes : (proc[p] = "dead" /\ Listed(p)) ~> []~Listed(p)
=============================================================================
