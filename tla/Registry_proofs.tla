--------------------------- MODULE Registry_proofs ---------------------------
(***************************************************************************)
(* Proofs about the session registry of the single daemon, for any number  *)
(* of sessions, windows and panes, and of RPCs that run at the same time.  *)
(***************************************************************************)
EXTENDS Registry, TLAPS

-----------------------------------------------------------------------------
(* The frame of an RPC *)

OpenPcs  == {"open_lookup", "open_window", "spawn_pty", "insert", "init_layout", "persist", "emit_spawned"}
ClosePcs == {"close_kill", "close_layout", "persist", "emit_layout", "evict"}
KillPcs  == {"kill_remove", "kill_panes"}

\* The steps of each RPC.
Stages(rpc) ==
  CASE rpc = "spawn"         -> OpenPcs \cup {"window_row"}
    [] rpc = "new_window"    -> {"push_window", "window_row"}
    [] rpc = "open_pane"     -> OpenPcs
    [] rpc = "split"         -> OpenPcs \cup {"split_layout", "emit_layout"}
    [] rpc = "weight"        -> {"persist", "emit_layout"}
    [] rpc = "close_pane"    -> ClosePcs
    [] rpc = "close_window"  -> ClosePcs \cup {"close_next", "close_remove", "close_empty",
                                               "close_drop", "delete_rows"}
    [] rpc = "kill"          -> KillPcs \cup {"delete_rows"}
    [] rpc = "close_session" -> KillPcs \cup {"delete_rows"}
    [] rpc = "gc"            -> KillPcs \cup {"gc_next"}
    [] rpc = "none"          -> {"idle"}

Opens  == {"spawn", "open_pane", "split"}
Closes == {"close_pane", "close_window"}

\* What the frame of a task holds while the RPC needs it.
FrameOK(t) ==
  LET f == task[t] IN
  /\ f.pc \in Stages(f.rpc)
  /\ f.rpc = "none" => f = Idle
  /\ f.rpc # "none" => t \in scn.tasks
  /\ f.rpc \notin {"none", "gc"} \/ f.pc \in KillPcs => f.sess \in Sessions
  /\ f.rpc \in Opens \cup {"new_window"} \/ f.pc = "persist" => f.win \in Windows
  /\ f.pc \in {"insert", "init_layout", "emit_spawned", "split_layout", "close_kill", "close_layout"}
       => f.pane \in Panes
  /\ f.pc = "persist" => /\ f.next = "emit_layout" \/ (f.next = "emit_spawned" /\ f.rpc \in Opens)
                         /\ f.rpc \in Opens => f.pane \in Panes
                         /\ f.next = "emit_layout" => f.rpc \in {"split", "weight"} \cup Closes
  /\ f.rpc = "split" => f.parent \in Panes /\ home[f.parent] \in Windows
  /\ f.rpc = "close_window" => f.todo \subseteq Panes
  /\ f.rpc = "gc" => f.todo \subseteq Sessions

FramesOK == \A t \in Tasks : FrameOK(t)

-----------------------------------------------------------------------------
(* What a step does to the frames *)

\* Only t's frame changes.
Others(t) == \A u \in Tasks : u # t => task'[u] = task[u]

\* t's frame changes in its pc only.
Moved(t, pc) ==
  /\ task'[t].pc = pc
  /\ task'[t].rpc = task[t].rpc /\ task'[t].sess = task[t].sess /\ task'[t].win = task[t].win
  /\ task'[t].pane = task[t].pane /\ task'[t].parent = task[t].parent
  /\ task'[t].todo = task[t].todo /\ task'[t].snap = task[t].snap
  /\ task'[t].next = task[t].next /\ task'[t].del = task[t].del

Typed == task \in [Tasks -> Frames]

LEMMA GotoFrame ==
  ASSUME Typed, NEW t \in Tasks, NEW pc \in Pcs, Goto(t, pc)
  PROVE  Typed' /\ Others(t) /\ Moved(t, pc)
BY DEF Typed, Goto, Others, Moved, Frames

LEMMA ReturnFrame ==
  ASSUME Typed, NEW t \in Tasks, Return(t)
  PROVE  Typed' /\ Others(t) /\ task'[t] = Idle
<1>1. Idle \in Frames
  BY DEF Idle, Frames, Pcs
<1> QED BY <1>1 DEF Typed, Return, Others

LEMMA CallFrame ==
  ASSUME Typed, NEW t \in Tasks, NEW f \in Frames, Call(t, f)
  PROVE  Typed' /\ Others(t) /\ task'[t] = f /\ task[t] = Idle /\ t \in scn.tasks
BY DEF Typed, Call, Others

LEMMA FreshMember ==
  ASSUME NEW S, NEW x \in Sessions \cup Windows \cup Panes, x = Fresh(S)
  PROVE  x \in S
BY NoneAssumption DEF Fresh

\* Panes keep their windows.
HomesKept == \A p \in Panes : home[p] \in Windows => home'[p] = home[p]

LEMMA OthersKept ==
  ASSUME Typed, FramesOK, NEW t \in Tasks, Others(t), scn' = scn, HomesKept
  PROVE  \A u \in Tasks : u # t => FrameOK(u)'
<1> SUFFICES ASSUME NEW u \in Tasks, u # t PROVE FrameOK(u)'
  OBVIOUS
<1>1. task'[u] = task[u] /\ FrameOK(u)
  BY DEF Others, FramesOK
<1>2. task[u].rpc = "split" => home'[task[u].parent] \in Windows
  BY <1>1 DEF HomesKept, FrameOK
<1> QED BY <1>1, <1>2 DEF FrameOK

\* An RPC that has ended leaves a good frame.
LEMMA IdleFrame ==
  ASSUME NEW t \in Tasks, task'[t] = Idle
  PROVE  FrameOK(t)'
BY DEF FrameOK, Idle, Stages, Opens, KillPcs

\* A window of a session is a window.
LEMMA WinsOfWindows ==
  ASSUME TypeOK, NEW s \in Sessions
  PROVE  WinsOf(s) \subseteq Windows /\ (wins[s] # <<>> => Head(wins[s]) \in WinsOf(s))
<1>1. wins[s] \in Seq(Windows)
  BY DEF TypeOK
<1> QED BY <1>1 DEF WinsOf

LEMMA SessionOfListed ==
  ASSUME NEW p, Listed(p)
  PROVE  SessionOf(p) \in sessions /\ p \in panes[SessionOf(p)]
BY DEF Listed, SessionOf

LEMMA RequestFrame ==
  ASSUME TypeOK, FramesOK, NEW t \in Tasks, Request(t)
  PROVE  Typed' /\ Others(t) /\ FrameOK(t)' /\ task[t] = Idle /\ scn' = scn /\ home' = home
<1>0. Typed
  BY DEF TypeOK, Typed
<1>f. ASSUME NEW f \in Frames, Call(t, f)
      PROVE  Typed' /\ Others(t) /\ task'[t] = f /\ task[t] = Idle /\ t \in scn.tasks
  BY <1>0, <1>f, CallFrame
<1>1. CASE NewSession(t)
  <2>1. PICK s \in Sessions, w \in Windows :
          Call(t, [Idle EXCEPT !.rpc = "spawn", !.pc = "window_row", !.sess = s, !.win = w])
    BY <1>1 DEF NewSession
  <2> DEFINE F == [Idle EXCEPT !.rpc = "spawn", !.pc = "window_row", !.sess = s, !.win = w]
  <2>2. F \in Frames
    BY DEF Idle, Frames, Pcs, RpcNames
  <2>7. Typed' /\ Others(t) /\ task'[t] = F /\ task[t] = Idle /\ t \in scn.tasks
    BY <1>f, <2>1, <2>2
  <2>8. scn' = scn /\ home' = home
    BY <1>1 DEF NewSession
  <2> QED BY <2>2, <2>7, <2>8 DEF FrameOK, Idle, Stages, OpenPcs, Opens, KillPcs
<1>2. CASE NewWindow(t)
  <2>1. PICK s \in sessions, w \in Windows :
          Call(t, [Idle EXCEPT !.rpc = "new_window", !.pc = "push_window", !.sess = s, !.win = w])
    BY <1>2 DEF NewWindow
  <2> DEFINE F == [Idle EXCEPT !.rpc = "new_window", !.pc = "push_window", !.sess = s, !.win = w]
  <2>2. /\ s \in Sessions
        /\ F \in Frames
    BY DEF Idle, Frames, Pcs, RpcNames, TypeOK
  <2>7. Typed' /\ Others(t) /\ task'[t] = F /\ task[t] = Idle /\ t \in scn.tasks
    BY <1>f, <2>1, <2>2
  <2>8. scn' = scn /\ home' = home
    BY <1>2 DEF NewWindow, mem
  <2> QED BY <2>2, <2>7, <2>8 DEF FrameOK, Idle, Stages, Opens, KillPcs
<1>3. CASE OpenPane(t)
  <2>1. PICK s \in Sessions, w \in Windows :
          Call(t, [Idle EXCEPT !.rpc = "open_pane", !.pc = "open_lookup", !.sess = s, !.win = w])
    BY <1>3 DEF OpenPane
  <2> DEFINE F == [Idle EXCEPT !.rpc = "open_pane", !.pc = "open_lookup", !.sess = s, !.win = w]
  <2>2. F \in Frames
    BY DEF Idle, Frames, Pcs, RpcNames
  <2>7. Typed' /\ Others(t) /\ task'[t] = F /\ task[t] = Idle /\ t \in scn.tasks
    BY <1>f, <2>1, <2>2
  <2>8. scn' = scn /\ home' = home
    BY <1>3 DEF OpenPane, mem
  <2> QED BY <2>2, <2>7, <2>8 DEF FrameOK, Idle, Stages, OpenPcs, Opens, KillPcs
<1>4. CASE OpenPaneSplit(t)
  <2>1. PICK p \in Panes :
          /\ Listed(p) /\ home[p] \in WinsOf(SessionOf(p))
          /\ Call(t, [Idle EXCEPT !.rpc = "split", !.pc = "open_lookup", !.sess = SessionOf(p),
                                  !.win = home[p], !.parent = p])
    BY <1>4 DEF OpenPaneSplit
  <2>2. SessionOf(p) \in Sessions /\ home[p] \in Windows
    BY <2>1, SessionOfListed, WinsOfWindows DEF TypeOK
  <2> DEFINE F == [Idle EXCEPT !.rpc = "split", !.pc = "open_lookup", !.sess = SessionOf(p),
                               !.win = home[p], !.parent = p]
  <2>3. F \in Frames
    BY <2>2 DEF Idle, Frames, Pcs, RpcNames
  <2>7. Typed' /\ Others(t) /\ task'[t] = F /\ task[t] = Idle /\ t \in scn.tasks
    BY <1>f, <2>1, <2>3
  <2>8. scn' = scn /\ home' = home
    BY <1>4 DEF OpenPaneSplit, mem
  <2> QED BY <2>2, <2>7, <2>8 DEF FrameOK, Idle, Stages, OpenPcs, Opens, KillPcs
<1>5. CASE SetPaneWeight(t)
  <2>1. PICK p \in Panes :
          /\ Listed(p) /\ home[p] \in WinsOf(SessionOf(p))
          /\ Call(t, [Idle EXCEPT !.rpc = "weight", !.pc = "persist", !.next = "emit_layout", !.pane = p,
                                  !.sess = SessionOf(p), !.win = home[p], !.snap = layout[home[p]]])
    BY <1>5 DEF SetPaneWeight
  <2>2. SessionOf(p) \in Sessions /\ home[p] \in Windows /\ layout[home[p]] \in SUBSET Panes
    BY <2>1, SessionOfListed, WinsOfWindows DEF TypeOK
  <2> DEFINE F == [Idle EXCEPT !.rpc = "weight", !.pc = "persist", !.next = "emit_layout",
                               !.pane = p, !.sess = SessionOf(p), !.win = home[p],
                               !.snap = layout[home[p]]]
  <2>3. F \in Frames
    BY <2>2 DEF Idle, Frames, Pcs, RpcNames
  <2>7. Typed' /\ Others(t) /\ task'[t] = F /\ task[t] = Idle /\ t \in scn.tasks
    BY <1>f, <2>1, <2>3
  <2>8. scn' = scn /\ home' = home
    BY <1>5 DEF SetPaneWeight, mem
  <2> QED BY <2>2, <2>7, <2>8 DEF FrameOK, Idle, Stages, Opens, KillPcs, Closes
<1>6. CASE ClosePane(t)
  <2>1. PICK p \in Panes :
          /\ Listed(p)
          /\ Call(t, [Idle EXCEPT !.rpc = "close_pane", !.pc = "close_kill", !.sess = SessionOf(p), !.pane = p])
    BY <1>6 DEF ClosePane
  <2>2. SessionOf(p) \in Sessions
    BY <2>1, SessionOfListed DEF TypeOK
  <2> DEFINE F == [Idle EXCEPT !.rpc = "close_pane", !.pc = "close_kill", !.sess = SessionOf(p),
                               !.pane = p]
  <2>3. F \in Frames
    BY <2>2 DEF Idle, Frames, Pcs, RpcNames
  <2>7. Typed' /\ Others(t) /\ task'[t] = F /\ task[t] = Idle /\ t \in scn.tasks
    BY <1>f, <2>1, <2>3
  <2>8. scn' = scn /\ home' = home
    BY <1>6 DEF ClosePane, mem
  <2> QED BY <2>2, <2>7, <2>8 DEF FrameOK, Idle, Stages, ClosePcs, Opens, KillPcs
<1>7. CASE CloseWindow(t)
  <2>0. PICK s \in sessions : \E w \in WinsOf(s) :
          Call(t, [Idle EXCEPT !.rpc = "close_window", !.pc = "close_next", !.sess = s, !.del = {w},
                               !.todo = {p \in panes[s] : home[p] = w}])
    BY <1>7 DEF CloseWindow
  <2>1. PICK w \in WinsOf(s) :
          Call(t, [Idle EXCEPT !.rpc = "close_window", !.pc = "close_next", !.sess = s, !.del = {w},
                               !.todo = {p \in panes[s] : home[p] = w}])
    BY <2>0
  <2>2. s \in Sessions /\ w \in Windows /\ {p \in panes[s] : home[p] = w} \subseteq Panes
    BY WinsOfWindows DEF TypeOK
  <2> DEFINE F == [Idle EXCEPT !.rpc = "close_window", !.pc = "close_next", !.sess = s,
                               !.del = {w}, !.todo = {p \in panes[s] : home[p] = w}]
  <2>3. F \in Frames
    BY <2>2 DEF Idle, Frames, Pcs, RpcNames
  <2>7. Typed' /\ Others(t) /\ task'[t] = F /\ task[t] = Idle /\ t \in scn.tasks
    BY <1>f, <2>1, <2>3
  <2>8. scn' = scn /\ home' = home
    BY <1>7 DEF CloseWindow, mem
  <2> QED BY <2>2, <2>7, <2>8 DEF FrameOK, Idle, Stages, ClosePcs, Opens, KillPcs
<1>8. CASE Kill(t)
  <2>1. PICK s \in sessions : Call(t, [Idle EXCEPT !.rpc = "kill", !.pc = "kill_remove", !.sess = s])
    BY <1>8 DEF Kill
  <2> DEFINE F == [Idle EXCEPT !.rpc = "kill", !.pc = "kill_remove", !.sess = s]
  <2>2. s \in Sessions /\ F \in Frames
    BY DEF Idle, Frames, Pcs, RpcNames, TypeOK
  <2>7. Typed' /\ Others(t) /\ task'[t] = F /\ task[t] = Idle /\ t \in scn.tasks
    BY <1>f, <2>1, <2>2
  <2>8. scn' = scn /\ home' = home
    BY <1>8 DEF Kill, mem
  <2> QED BY <2>2, <2>7, <2>8 DEF FrameOK, Idle, Stages, Opens, KillPcs
<1>9. CASE CloseSession(t)
  <2>1. PICK s \in Sessions :
          Call(t, [Idle EXCEPT !.rpc = "close_session", !.pc = "kill_remove", !.sess = s,
                     !.del = IF s \in sessions THEN WinsOf(s) ELSE {w \in rows : owner[w] = s}])
    BY <1>9 DEF CloseSession
  <2>2. (IF s \in sessions THEN WinsOf(s) ELSE {w \in rows : owner[w] = s}) \in SUBSET Windows
    BY WinsOfWindows DEF TypeOK
  <2> DEFINE F == [Idle EXCEPT !.rpc = "close_session", !.pc = "kill_remove", !.sess = s,
                               !.del = IF s \in sessions THEN WinsOf(s) ELSE {w \in rows : owner[w] = s}]
  <2>3. F \in Frames
    BY <2>2 DEF Idle, Frames, Pcs, RpcNames
  <2>7. Typed' /\ Others(t) /\ task'[t] = F /\ task[t] = Idle /\ t \in scn.tasks
    BY <1>f, <2>1, <2>3
  <2>8. scn' = scn /\ home' = home
    BY <1>9 DEF CloseSession, mem
  <2> QED BY <2>2, <2>7, <2>8 DEF FrameOK, Idle, Stages, Opens, KillPcs
<1>10. CASE GcStaleSessions(t)
  <2>1. Call(t, [Idle EXCEPT !.rpc = "gc", !.pc = "gc_next", !.todo = {s \in sessions : panes[s] = {}}])
    BY <1>10 DEF GcStaleSessions
  <2>2. {s \in sessions : panes[s] = {}} \subseteq Sessions
    BY DEF TypeOK
  <2> DEFINE F == [Idle EXCEPT !.rpc = "gc", !.pc = "gc_next",
                               !.todo = {s \in sessions : panes[s] = {}}]
  <2>3. F \in Frames
    BY <2>2 DEF Idle, Frames, Pcs, RpcNames
  <2>7. Typed' /\ Others(t) /\ task'[t] = F /\ task[t] = Idle /\ t \in scn.tasks
    BY <1>f, <2>1, <2>3
  <2>8. scn' = scn /\ home' = home
    BY <1>10 DEF GcStaleSessions, mem
  <2> QED BY <2>2, <2>7, <2>8 DEF FrameOK, Idle, Stages, Opens, KillPcs
<1> QED BY <1>1, <1>2, <1>3, <1>4, <1>5, <1>6, <1>7, <1>8, <1>9, <1>10 DEF Request

\* The next step of an RPC: the frame is good if the step is one of the RPC's and
\* what it needs is there.
LEMMA MovedFrame ==
  ASSUME FramesOK, NEW t \in Tasks, NEW pc \in Pcs, Moved(t, pc), scn' = scn, HomesKept,
         task[t].rpc # "none", pc \in Stages(task[t].rpc),
         pc \in KillPcs => task[t].sess \in Sessions,
         pc # "persist",
         pc \in {"insert", "init_layout", "emit_spawned", "split_layout", "close_kill", "close_layout"}
           => task[t].pane \in Panes
  PROVE  FrameOK(t)'
<1>1. FrameOK(t)
  BY DEF FramesOK
<1>2. task[t].rpc = "split" => home'[task[t].parent] \in Windows
  BY <1>1 DEF HomesKept, FrameOK
<1> QED BY <1>1, <1>2 DEF FrameOK, Moved

\* What a task that is at a step has in its frame.
LEMMA AtFrame ==
  ASSUME FramesOK, NEW t \in Tasks
  PROVE  /\ FrameOK(t)
         /\ task[t].pc # "idle" => task[t].rpc # "none"
         /\ task[t].pc \in Stages(task[t].rpc)
BY DEF FramesOK, FrameOK, Stages

LEMMA StageRpc ==
  ASSUME TypeOK, FramesOK, NEW t \in Tasks
  PROVE  /\ task[t].rpc \in RpcNames \cup {"none"}
         /\ task[t].pc = "push_window" => task[t].rpc = "new_window"
         /\ task[t].pc = "window_row" => task[t].rpc \in {"spawn", "new_window"}
         /\ task[t].pc \in OpenPcs \ {"persist"} => task[t].rpc \in Opens
         /\ task[t].pc = "split_layout" => task[t].rpc = "split"
         /\ task[t].pc = "persist" => task[t].rpc \in Opens \cup Closes \cup {"weight"}
         /\ task[t].pc = "emit_layout" => task[t].rpc \in {"split", "weight"} \cup Closes
         /\ task[t].pc \in {"close_kill", "close_layout", "evict"} => task[t].rpc \in Closes
         /\ task[t].pc \in {"close_next", "close_remove", "close_empty", "close_drop"} => task[t].rpc = "close_window"
         /\ task[t].pc = "delete_rows" => task[t].rpc \in {"close_window", "kill", "close_session"}
         /\ task[t].pc = "gc_next" => task[t].rpc = "gc"
         /\ task[t].pc \in KillPcs => task[t].rpc \in {"kill", "close_session", "gc"}
<1>1. task[t].rpc \in RpcNames \cup {"none"}
  BY DEF TypeOK, Frames
<1>2. task[t].pc \in Stages(task[t].rpc)
  BY AtFrame
<1> QED BY <1>1, <1>2 DEF Stages, OpenPcs, ClosePcs, KillPcs, Opens, Closes, RpcNames

\* A shell has a window from its start.
HomesOK == \A p \in Panes : proc[p] = "none" <=> home[p] = None

\* The effect of a step on the frames: it is a move of one task.
FrameEffect(t) == Typed' /\ Others(t) /\ FrameOK(t)' /\ scn' = scn /\ HomesKept

LEMMA PcNames ==
  {"spawn_pty", "insert", "persist", "emit_spawned", "emit_layout", "close_kill", "close_next",
   "kill_remove"} \subseteq Pcs
BY DEF Pcs

LEMMA OpenStepFrame ==
  ASSUME TypeOK, FramesOK, HomesOK, NEW t \in Tasks,
         \/ PushWindow(t) \/ UpsertWindow(t) \/ OpenLookup(t) \/ OpenWindow(t) \/ SpawnPty(t)
         \/ InsertPane(t) \/ InitLayout(t) \/ PersistLayout(t) \/ EmitSpawned(t)
         \/ SplitLayout(t) \/ EmitLayout(t)
  PROVE  FrameEffect(t)
<1>0. Typed /\ FrameOK(t)
  BY AtFrame DEF TypeOK, Typed
<1>k. home' = home => HomesKept
  BY DEF HomesKept
<1>g. ASSUME NEW pc \in Pcs, Goto(t, pc), scn' = scn, HomesKept,
             task[t].rpc # "none", pc \in Stages(task[t].rpc), pc \notin KillPcs, pc # "persist",
             pc \in {"insert", "init_layout", "emit_spawned", "split_layout", "close_kill", "close_layout"}
               => task[t].pane \in Panes
      PROVE  FrameEffect(t)
  BY <1>0, <1>g, GotoFrame, MovedFrame DEF FrameEffect
<1>r. ASSUME Return(t), scn' = scn, HomesKept PROVE FrameEffect(t)
  BY <1>0, <1>r, ReturnFrame, IdleFrame DEF FrameEffect
<1>1. CASE PushWindow(t)
  BY <1>1, <1>k, <1>g, StageRpc DEF PushWindow, At, Stages, Pcs, KillPcs
<1>2. CASE UpsertWindow(t)
  BY <1>2, <1>k, <1>g, <1>r, StageRpc DEF UpsertWindow, At, Stages, Pcs, OpenPcs, KillPcs, mem
<1>3. CASE OpenLookup(t)
  <2>1. task[t].rpc \in Opens /\ scn' = scn /\ home' = home
    BY <1>3, StageRpc DEF OpenLookup, At, OpenPcs, mem
  <2> QED BY <1>3, <2>1, <1>k, <1>g, <1>r DEF OpenLookup, Stages, Pcs, OpenPcs, KillPcs, Opens
<1>4. CASE OpenWindow(t)
  <2>1. task[t].rpc \in Opens /\ scn' = scn /\ home' = home
    BY <1>4, StageRpc DEF OpenWindow, At, OpenPcs, mem
  <2>2. task[t].sess \in Sessions
    BY <1>0, <2>1 DEF FrameOK, Opens
  <2>3. CASE /\ wins[task[t].sess] # <<>>
             /\ task' = [task EXCEPT ![t].pc = "spawn_pty", ![t].win = Head(wins[task[t].sess])]
    <3>1. Head(wins[task[t].sess]) \in Windows
      BY <2>2, <2>3, WinsOfWindows
    <3>2. Typed' /\ Others(t)
      <4>1. [task[t] EXCEPT !.pc = "spawn_pty", !.win = Head(wins[task[t].sess])] \in Frames
        BY <1>0, <3>1, PcNames DEF Typed, Frames
      <4>2. task' = [task EXCEPT ![t] = [task[t] EXCEPT !.pc = "spawn_pty", !.win = Head(wins[task[t].sess])]]
        BY <1>0, <2>3 DEF Typed
      <4> QED BY <1>0, <4>1, <4>2 DEF Typed, Others
    <3>3. /\ task'[t].pc = "spawn_pty" /\ task'[t].win \in Windows /\ task'[t].rpc = task[t].rpc
          /\ task'[t].sess = task[t].sess /\ task'[t].parent = task[t].parent
      BY <1>0, <2>3, <3>1 DEF Typed, Frames
    <3> QED BY <1>0, <1>k, <2>1, <2>2, <3>2, <3>3 DEF FrameEffect, FrameOK, Stages, OpenPcs, KillPcs, Opens
  <2> QED BY <1>4, <2>1, <2>3, <1>k, <1>g, <1>r DEF OpenWindow, Stages, Pcs, OpenPcs, KillPcs, Opens
<1>5. CASE SpawnPty(t)
  <2>1. task[t].rpc \in Opens /\ scn' = scn /\ task[t].win \in Windows
    BY <1>0, <1>5, StageRpc DEF SpawnPty, At, OpenPcs, FrameOK
  <2>2. CASE Return(t) /\ UNCHANGED <<proc, home>>
    BY <1>k, <1>r, <2>1, <2>2
  <2>3. ASSUME NEW p \in Panes, p = Fresh({q \in scn.panes : proc[q] = "none"}),
               home' = [home EXCEPT ![p] = task[t].win],
               task' = [task EXCEPT ![t].pc = "insert", ![t].pane = p]
        PROVE  FrameEffect(t)
    <3>1. proc[p] = "none"
      BY <2>3, FreshMember
    <3>2. HomesKept
      BY <2>3, <3>1, NoneAssumption DEF HomesOK, HomesKept, TypeOK
    <3>3. Typed' /\ Others(t)
      <4>1. [task[t] EXCEPT !.pc = "insert", !.pane = p] \in Frames
        BY <1>0, PcNames DEF Typed, Frames
      <4>2. task' = [task EXCEPT ![t] = [task[t] EXCEPT !.pc = "insert", !.pane = p]]
        BY <1>0, <2>3 DEF Typed
      <4> QED BY <1>0, <4>1, <4>2 DEF Typed, Others
    <3>4. /\ task'[t].pc = "insert" /\ task'[t].pane = p /\ task'[t].rpc = task[t].rpc
          /\ task'[t].sess = task[t].sess /\ task'[t].parent = task[t].parent /\ task'[t].win = task[t].win
      BY <1>0, <2>3 DEF Typed, Frames
    <3>5. task[t].rpc = "split" => home'[task[t].parent] \in Windows
      BY <1>0, <3>2 DEF FrameOK, HomesKept
    <3> QED BY <1>0, <2>1, <3>2, <3>3, <3>4, <3>5 DEF FrameEffect, FrameOK, Stages, OpenPcs, KillPcs, Opens
  <2> QED BY <1>5, <2>2, <2>3 DEF SpawnPty
<1>6. CASE InsertPane(t)
  <2>1. task[t].rpc \in Opens /\ scn' = scn /\ home' = home /\ task[t].pane \in Panes
    BY <1>0, <1>6, StageRpc DEF InsertPane, At, OpenPcs, FrameOK
  <2> QED BY <1>6, <2>1, <1>k, <1>g DEF InsertPane, Stages, Pcs, OpenPcs, KillPcs, Opens
<1>7. CASE InitLayout(t)
  <2>1. task[t].rpc \in Opens /\ scn' = scn /\ home' = home /\ task[t].pane \in Panes /\ task[t].win \in Windows
    BY <1>0, <1>7, StageRpc DEF InitLayout, At, OpenPcs, FrameOK
  <2>2. CASE task' = [task EXCEPT ![t].pc = "persist", ![t].next = "emit_spawned", ![t].snap = {task[t].pane}]
    <3>1. Typed' /\ Others(t)
      <4>1. [task[t] EXCEPT !.pc = "persist", !.next = "emit_spawned", !.snap = {task[t].pane}] \in Frames
        BY <1>0, <2>1, PcNames DEF Typed, Frames
      <4>2. task' = [task EXCEPT ![t] = [task[t] EXCEPT !.pc = "persist", !.next = "emit_spawned",
                                                        !.snap = {task[t].pane}]]
        BY <1>0, <2>2 DEF Typed
      <4> QED BY <1>0, <4>1, <4>2 DEF Typed, Others
    <3>2. /\ task'[t].pc = "persist" /\ task'[t].next = "emit_spawned" /\ task'[t].rpc = task[t].rpc
          /\ task'[t].sess = task[t].sess /\ task'[t].parent = task[t].parent /\ task'[t].win = task[t].win
          /\ task'[t].pane = task[t].pane
      BY <1>0, <2>2 DEF Typed, Frames
    <3> QED BY <1>0, <1>k, <2>1, <3>1, <3>2 DEF FrameEffect, FrameOK, Stages, OpenPcs, KillPcs, Opens
  <2> QED BY <1>7, <2>1, <2>2, <1>k, <1>g DEF InitLayout, Stages, Pcs, OpenPcs, KillPcs, Opens
<1>8. CASE PersistLayout(t)
  <2>1. /\ scn' = scn /\ home' = home /\ task[t].pc = "persist" /\ Goto(t, task[t].next)
    BY <1>8 DEF PersistLayout, At, mem
  <2>2. CASE task[t].next = "emit_spawned"
    BY <1>0, <1>g, <1>k, <2>1, <2>2 DEF FrameOK, Stages, Pcs, OpenPcs, KillPcs, Opens, Closes
  <2>3. CASE task[t].next = "emit_layout"
    BY <1>0, <1>g, <1>k, <2>1, <2>3 DEF FrameOK, Stages, Pcs, ClosePcs, KillPcs, Closes
  <2> QED BY <1>0, <2>1, <2>2, <2>3 DEF FrameOK
<1>9. CASE EmitSpawned(t)
  <2>1. task[t].rpc \in Opens /\ scn' = scn /\ home' = home /\ task[t].pane \in Panes
    BY <1>0, <1>9, StageRpc DEF EmitSpawned, At, OpenPcs, FrameOK, mem
  <2> QED BY <1>9, <2>1, <1>k, <1>g, <1>r DEF EmitSpawned, Stages, Pcs, OpenPcs, KillPcs, Opens
<1>10. CASE SplitLayout(t)
  <2>1. /\ task[t].rpc = "split" /\ scn' = scn /\ home' = home /\ task[t].pane \in Panes
        /\ task[t].parent \in Panes /\ home[task[t].parent] \in Windows
    BY <1>0, <1>10, StageRpc DEF SplitLayout, At, FrameOK
  <2> DEFINE w == home[task[t].parent]
             tree == Split(layout[w], task[t].parent, task[t].pane)
  <2>2. tree \in SUBSET Panes
    BY <2>1 DEF Split, TypeOK
  <2>3. task' = [task EXCEPT ![t].pc = "persist", ![t].next = "emit_layout", ![t].snap = tree, ![t].win = w]
    BY <1>10 DEF SplitLayout
  <2> HIDE DEF tree
  <2>4. Typed' /\ Others(t)
    <3>1. [task[t] EXCEPT !.pc = "persist", !.next = "emit_layout", !.snap = tree, !.win = w] \in Frames
      BY <1>0, <2>1, <2>2, PcNames DEF Typed, Frames
    <3>2. task' = [task EXCEPT ![t] = [task[t] EXCEPT !.pc = "persist", !.next = "emit_layout",
                                                      !.snap = tree, !.win = w]]
      BY <1>0, <2>3 DEF Typed
    <3> QED BY <1>0, <3>1, <3>2 DEF Typed, Others
  <2>5. /\ task'[t].pc = "persist" /\ task'[t].next = "emit_layout" /\ task'[t].rpc = task[t].rpc
        /\ task'[t].sess = task[t].sess /\ task'[t].parent = task[t].parent
        /\ task'[t].win = home[task[t].parent] /\ task'[t].pane = task[t].pane
    BY <1>0, <2>3 DEF Typed, Frames
  <2> QED BY <1>0, <1>k, <2>1, <2>4, <2>5 DEF FrameEffect, FrameOK, Stages, OpenPcs, KillPcs, Opens
<1>11. CASE EmitLayout(t)
  <2>1. task[t].rpc \in {"split", "weight"} \cup Closes /\ scn' = scn /\ home' = home
    BY <1>0, <1>11, StageRpc DEF EmitLayout, At, mem
  <2> QED BY <1>11, <2>1, <1>k, <1>g, <1>r DEF EmitLayout, Stages, Pcs, ClosePcs, KillPcs, Closes
<1> QED BY <1>1, <1>2, <1>3, <1>4, <1>5, <1>6, <1>7, <1>8, <1>9, <1>10, <1>11

LEMMA CloseStepFrame ==
  ASSUME TypeOK, FramesOK, NEW t \in Tasks,
         \/ CloseKill(t) \/ CloseLayout(t) \/ EvictIfEmpty(t) \/ CloseWindowNext(t)
         \/ CloseWindowRemove(t) \/ CloseWindowEmpty(t) \/ CloseWindowDrop(t) \/ DeleteRows(t)
         \/ GcNext(t) \/ KillRemove(t) \/ KillPanes(t)
  PROVE  FrameEffect(t)
<1>0. Typed /\ FrameOK(t)
  BY AtFrame DEF TypeOK, Typed
<1>k. home' = home => HomesKept
  BY DEF HomesKept
<1>g. ASSUME NEW pc \in Pcs, Goto(t, pc), scn' = scn, home' = home,
             task[t].rpc # "none", pc \in Stages(task[t].rpc), pc # "persist",
             pc \in KillPcs => task[t].sess \in Sessions,
             pc \in {"insert", "init_layout", "emit_spawned", "split_layout", "close_kill", "close_layout"}
               => task[t].pane \in Panes
      PROVE  FrameEffect(t)
  BY <1>0, <1>g, <1>k, GotoFrame, MovedFrame DEF FrameEffect
<1>r. ASSUME Return(t), scn' = scn, home' = home PROVE FrameEffect(t)
  BY <1>0, <1>k, <1>r, ReturnFrame, IdleFrame DEF FrameEffect
<1>c. ASSUME CloseReturn(t), scn' = scn, home' = home, task[t].rpc # "none" PROVE FrameEffect(t)
  BY <1>c, <1>g, <1>r DEF CloseReturn, Stages, Pcs, KillPcs
<1>1. CASE CloseKill(t)
  <2>1. task[t].rpc \in Closes /\ scn' = scn /\ home' = home /\ task[t].pane \in Panes
    BY <1>0, <1>1, StageRpc DEF CloseKill, At, FrameOK
  <2> QED BY <1>1, <2>1, <1>c, <1>g DEF CloseKill, Stages, Pcs, ClosePcs, KillPcs, Closes
<1>2. CASE CloseLayout(t)
  <2>1. task[t].rpc \in Closes /\ scn' = scn /\ home' = home /\ task[t].pane \in Panes /\ task[t].sess \in Sessions
    BY <1>0, <1>2, StageRpc DEF CloseLayout, At, FrameOK, Closes
  <2> DEFINE w == home[task[t].pane]
             tree == CloseLeaf(layout[w], task[t].pane)
  <2>2. CASE /\ w \in WinsOf(task[t].sess)
             /\ task' = [task EXCEPT ![t].pc = "persist", ![t].next = "emit_layout", ![t].snap = tree, ![t].win = w]
    <3>1. w \in Windows /\ tree \in SUBSET Panes
      BY <2>1, <2>2, WinsOfWindows DEF TypeOK, CloseLeaf
    <3> HIDE DEF tree
    <3>2. [task[t] EXCEPT !.pc = "persist", !.next = "emit_layout", !.snap = tree, !.win = w] \in Frames
      BY <1>0, <3>1, PcNames DEF Typed, Frames
    <3>3. task' = [task EXCEPT ![t] = [task[t] EXCEPT !.pc = "persist", !.next = "emit_layout",
                                                      !.snap = tree, !.win = w]]
      BY <1>0, <2>2 DEF Typed
    <3>4. Typed' /\ Others(t)
      BY <1>0, <3>2, <3>3 DEF Typed, Others
    <3>5. /\ task'[t].pc = "persist" /\ task'[t].next = "emit_layout" /\ task'[t].rpc = task[t].rpc
          /\ task'[t].sess = task[t].sess /\ task'[t].win = w /\ task'[t].todo = task[t].todo
      BY <1>0, <2>2 DEF Typed, Frames
    <3> QED BY <1>0, <1>k, <2>1, <3>1, <3>4, <3>5 DEF FrameEffect, FrameOK, Stages, ClosePcs, KillPcs, Opens, Closes
  <2> QED BY <1>2, <2>1, <2>2, <1>g DEF CloseLayout, Stages, Pcs, ClosePcs, KillPcs, Closes
<1>3. CASE EvictIfEmpty(t)
  <2>1. task[t].rpc \in Closes /\ scn' = scn /\ home' = home
    BY <1>0, <1>3, StageRpc DEF EvictIfEmpty, At
  <2> QED BY <1>3, <2>1, <1>c DEF EvictIfEmpty, Closes
<1>4. CASE CloseWindowNext(t)
  <2>1. /\ task[t].rpc = "close_window" /\ scn' = scn /\ home' = home /\ task[t].sess \in Sessions
        /\ task[t].todo \subseteq Panes
    BY <1>0, <1>4, StageRpc DEF CloseWindowNext, At, FrameOK, mem
  <2>2. ASSUME NEW p \in task[t].todo, NEW pc \in {"close_kill", "close_next"},
               task' = [task EXCEPT ![t].pc = pc, ![t].todo = @ \ {p}, ![t].pane = p]
        PROVE  FrameEffect(t)
    <3>1. p \in Panes /\ task[t].todo \ {p} \in SUBSET (Panes \cup Sessions)
      BY <2>1
    <3>2. [task[t] EXCEPT !.pc = pc, !.todo = task[t].todo \ {p}, !.pane = p] \in Frames
      BY <1>0, <3>1, PcNames DEF Typed, Frames
    <3>3. task' = [task EXCEPT ![t] = [task[t] EXCEPT !.pc = pc, !.todo = task[t].todo \ {p}, !.pane = p]]
      BY <1>0, <2>2 DEF Typed
    <3>4. Typed' /\ Others(t)
      BY <1>0, <3>2, <3>3 DEF Typed, Others
    <3>5. /\ task'[t].pc = pc /\ task'[t].rpc = task[t].rpc /\ task'[t].sess = task[t].sess
          /\ task'[t].pane = p /\ task'[t].todo = task[t].todo \ {p}
      BY <1>0, <2>2 DEF Typed, Frames
    <3> QED BY <1>0, <1>k, <2>1, <3>1, <3>4, <3>5 DEF FrameEffect, FrameOK, Stages, ClosePcs, KillPcs, Opens
  <2> QED BY <1>4, <2>1, <2>2, <1>g DEF CloseWindowNext, Stages, Pcs, ClosePcs, KillPcs
<1>5. CASE CloseWindowRemove(t) \/ CloseWindowEmpty(t) \/ CloseWindowDrop(t)
  <2>1. task[t].rpc = "close_window" /\ scn' = scn /\ home' = home
    BY <1>0, <1>5, StageRpc DEF CloseWindowRemove, CloseWindowEmpty, CloseWindowDrop, At, mem
  <2>2. Goto(t, "close_empty") \/ Goto(t, "close_drop") \/ Goto(t, "delete_rows")
    BY <1>5 DEF CloseWindowRemove, CloseWindowEmpty, CloseWindowDrop
  <2> QED BY <2>1, <2>2, <1>g DEF Stages, Pcs, KillPcs
<1>6. CASE DeleteRows(t)
  BY <1>6, <1>r DEF DeleteRows, mem
<1>7. CASE GcNext(t)
  <2>1. /\ task[t].rpc = "gc" /\ scn' = scn /\ home' = home /\ task[t].todo \subseteq Sessions
    BY <1>0, <1>7, StageRpc DEF GcNext, At, FrameOK, mem
  <2>2. ASSUME NEW s \in task[t].todo,
               task' = [task EXCEPT ![t].pc = "kill_remove", ![t].sess = s, ![t].todo = @ \ {s}]
        PROVE  FrameEffect(t)
    <3>1. s \in Sessions /\ task[t].todo \ {s} \in SUBSET (Panes \cup Sessions)
      BY <2>1
    <3>2. [task[t] EXCEPT !.pc = "kill_remove", !.sess = s, !.todo = task[t].todo \ {s}] \in Frames
      BY <1>0, <3>1, PcNames DEF Typed, Frames
    <3>3. task' = [task EXCEPT ![t] = [task[t] EXCEPT !.pc = "kill_remove", !.sess = s, !.todo = task[t].todo \ {s}]]
      BY <1>0, <2>2 DEF Typed
    <3>4. Typed' /\ Others(t)
      BY <1>0, <3>2, <3>3 DEF Typed, Others
    <3>5. /\ task'[t].pc = "kill_remove" /\ task'[t].rpc = task[t].rpc /\ task'[t].sess = s
          /\ task'[t].todo = task[t].todo \ {s}
      BY <1>0, <2>2 DEF Typed, Frames
    <3> QED BY <1>0, <1>k, <2>1, <3>1, <3>4, <3>5 DEF FrameEffect, FrameOK, Stages, KillPcs, Opens
  <2> QED BY <1>7, <2>1, <2>2, <1>r DEF GcNext
<1>8. CASE KillRemove(t) \/ KillPanes(t)
  <2>1. /\ task[t].rpc \in {"kill", "close_session", "gc"} /\ scn' = scn /\ home' = home
        /\ task[t].sess \in Sessions
    BY <1>0, <1>8, StageRpc DEF KillRemove, KillPanes, At, FrameOK, mem, KillPcs
  <2>2. \/ Goto(t, "kill_panes")
        \/ task[t].rpc = "gc" /\ Goto(t, "gc_next")
        \/ task[t].rpc # "gc" /\ Goto(t, "delete_rows")
    BY <1>8 DEF KillRemove, KillPanes, KillReturn
  <2> QED BY <2>1, <2>2, <1>g DEF Stages, Pcs, KillPcs
<1> QED BY <1>1, <1>2, <1>3, <1>4, <1>5, <1>6, <1>7, <1>8

LEMMA TaskFrames ==
  ASSUME TypeOK, FramesOK, HomesOK, NEW t \in Tasks, Request(t) \/ Step(t)
  PROVE  FrameEffect(t) /\ FramesOK'
<1>1. FrameEffect(t)
  <2>1. CASE Request(t)
    BY <2>1, RequestFrame DEF FrameEffect, HomesKept
  <2> QED BY <2>1, OpenStepFrame, CloseStepFrame DEF Step
<1>2. \A u \in Tasks : u # t => FrameOK(u)'
  BY <1>1, OthersKept DEF FrameEffect, TypeOK, Typed
<1> QED BY <1>1, <1>2 DEF FrameEffect, FramesOK

-----------------------------------------------------------------------------
(* Types *)

Elems(ws)    == {ws[i] : i \in DOMAIN ws}
Distinct(ws) == \A i, j \in DOMAIN ws : ws[i] = ws[j] => i = j

\* windows.retain keeps the others, in order.
LEMMA Retained ==
  ASSUME NEW ws \in Seq(Windows), NEW w
  PROVE  /\ Retain(ws, w) \in Seq(Windows)
         /\ Elems(Retain(ws, w)) \subseteq Elems(ws)
         /\ Distinct(ws) => Distinct(Retain(ws, w)) /\ w \notin Elems(Retain(ws, w))
         /\ Elems(ws) \subseteq Elems(Retain(ws, w)) \cup {w}
<1> DEFINE at == {i \in DOMAIN ws : ws[i] = w}
           k  == CHOOSE i \in at : TRUE
<1>1. CASE at = {}
  <2>1. Retain(ws, w) = ws
    BY <1>1 DEF Retain
  <2> QED BY <1>1, <2>1 DEF Elems
<1>2. CASE at # {}
  <2>1. k \in at
    BY <1>2
  <2>2. k \in 1 .. Len(ws) /\ ws[k] = w /\ Len(ws) \in Nat /\ DOMAIN ws = 1 .. Len(ws)
    BY <2>1
  <2>3. Retain(ws, w) = [i \in 1 .. Len(ws) - 1 |-> IF i < k THEN ws[i] ELSE ws[i + 1]]
    BY <1>2 DEF Retain
  <2> HIDE DEF k, at
  <2> DEFINE left == [i \in 1 .. Len(ws) - 1 |-> IF i < k THEN ws[i] ELSE ws[i + 1]]
  <2>4. \A i \in 1 .. Len(ws) - 1 : (IF i < k THEN ws[i] ELSE ws[i + 1]) \in Windows
    BY <2>2
  <2>5. left \in Seq(Windows) /\ DOMAIN left = 1 .. Len(ws) - 1
    BY <2>2, <2>4
  <2>6. \A i \in 1 .. Len(ws) - 1 : left[i] = IF i < k THEN ws[i] ELSE ws[i + 1]
    OBVIOUS
  <2> HIDE DEF left
  <2>7. Elems(left) \subseteq Elems(ws)
    <3>1. ASSUME NEW i \in DOMAIN left PROVE left[i] \in Elems(ws)
      <4>1. i \in 1 .. Len(ws) - 1 /\ i \in DOMAIN ws /\ i + 1 \in DOMAIN ws
        BY <2>2, <2>5
      <4>2. left[i] = ws[i] \/ left[i] = ws[i + 1]
        BY <2>6, <4>1
      <4> QED BY <4>1, <4>2 DEF Elems
    <3> QED BY <3>1 DEF Elems
  <2>8. ASSUME Distinct(ws) PROVE Distinct(left) /\ w \notin Elems(left)
    <3>1. ASSUME NEW i \in DOMAIN left, NEW j \in DOMAIN left, left[i] = left[j] PROVE i = j
      <4>1. i \in 1 .. Len(ws) - 1 /\ j \in 1 .. Len(ws) - 1
        BY <2>5
      <4>2. /\ i < k => left[i] = ws[i]
            /\ ~(i < k) => left[i] = ws[i + 1]
            /\ j < k => left[j] = ws[j]
            /\ ~(j < k) => left[j] = ws[j + 1]
        BY <2>6, <4>1
      <4>3. \A a, b \in 1 .. Len(ws) : ws[a] = ws[b] => a = b
        BY <2>2, <2>8 DEF Distinct
      <4>4. i \in 1 .. Len(ws) /\ i + 1 \in 1 .. Len(ws) /\ j \in 1 .. Len(ws) /\ j + 1 \in 1 .. Len(ws)
        BY <2>2, <4>1
      <4> QED BY <2>2, <3>1, <4>2, <4>3, <4>4
    <3>2. ASSUME NEW i \in DOMAIN left PROVE left[i] # w
      <4>1. i \in 1 .. Len(ws) - 1 /\ i \in DOMAIN ws /\ i + 1 \in DOMAIN ws /\ k \in DOMAIN ws
        BY <2>2, <2>5
      <4>2. i < k => left[i] = ws[i] /\ i # k
        BY <2>2, <2>6, <4>1
      <4>3. ~(i < k) => left[i] = ws[i + 1] /\ i + 1 # k
        BY <2>2, <2>6, <4>1
      <4> QED BY <2>2, <2>8, <4>1, <4>2, <4>3 DEF Distinct
    <3> QED BY <3>1, <3>2 DEF Distinct, Elems
  <2>9. ASSUME NEW i \in DOMAIN ws PROVE ws[i] \in Elems(left) \cup {w}
    <3>1. CASE i < k
      BY <2>2, <2>5, <2>6, <3>1 DEF Elems
    <3>2. CASE i > k
      <4>1. i - 1 \in DOMAIN left /\ left[i - 1] = ws[i]
        BY <2>2, <2>5, <2>6, <3>2
      <4> QED BY <4>1 DEF Elems
    <3>3. CASE i = k
      BY <2>2, <3>3
    <3> QED BY <2>2, <3>1, <3>2, <3>3
  <2> QED BY <2>3, <2>5, <2>7, <2>8, <2>9 DEF left, Elems
<1> QED BY <1>1, <1>2

LEMMA TypeStep ==
  ASSUME TypeOK, FramesOK, HomesOK, [Next]_vars
  PROVE  TypeOK' /\ FramesOK' /\ HomesOK'
<1> USE DEF mem, sql, child
<1>1. ASSUME NEW t \in Tasks, Request(t) PROVE TypeOK' /\ HomesOK'
  <2>1. Typed'
    BY <1>1, RequestFrame
  <2>2. CASE NewSession(t)
    <3>1. PICK s \in Sessions, w \in Windows :
            /\ sessions' = sessions \cup {s} /\ wins' = [wins EXCEPT ![s] = <<w>>]
            /\ owner' = [owner EXCEPT ![w] = s]
      BY <2>2 DEF NewSession
    <3>2. <<w>> \in Seq(Windows)
      OBVIOUS
    <3>3. wins' \in [Sessions -> Seq(Windows)]
      BY <3>1, <3>2 DEF TypeOK
    <3> QED BY <2>1, <2>2, <3>1, <3>3 DEF NewSession, TypeOK, Typed, HomesOK
  <2>3. CASE UNCHANGED <<mem, sql, child>>
    BY <2>1, <2>3 DEF TypeOK, Typed, HomesOK
  <2> QED BY <1>1, <2>2, <2>3 DEF Request, NewWindow, OpenPane, OpenPaneSplit, SetPaneWeight, ClosePane,
             CloseWindow, Kill, CloseSession, GcStaleSessions
<1>2. ASSUME NEW t \in Tasks, Step(t) PROVE TypeOK' /\ HomesOK'
  <2>1. Typed' /\ Typed /\ FrameOK(t)
    BY <1>2, TaskFrames, AtFrame DEF FrameEffect, TypeOK, Typed
  <2> USE <2>1
  <2>2. CASE PushWindow(t)
    <3>1. task[t].sess \in Sessions /\ task[t].win \in Windows
      BY <2>2, StageRpc DEF PushWindow, At, FrameOK
    <3>2. Append(wins[task[t].sess], task[t].win) \in Seq(Windows)
      BY <3>1 DEF TypeOK
    <3>3. wins' = [wins EXCEPT ![task[t].sess] = Append(wins[task[t].sess], task[t].win)]
      BY <2>2 DEF PushWindow
    <3>4. wins' \in [Sessions -> Seq(Windows)]
      BY <3>2, <3>3 DEF TypeOK
    <3> QED BY <2>2, <3>1, <3>4 DEF PushWindow, TypeOK, Typed, HomesOK
  <2>3. CASE UpsertWindow(t)
    <3>1. task[t].win \in Windows
      BY <2>3, StageRpc DEF UpsertWindow, At, FrameOK, Opens
    <3> QED BY <2>3, <3>1 DEF UpsertWindow, WithRow, TypeOK, Typed, HomesOK
  <2>4. CASE SpawnPty(t)
    <3>1. task[t].win \in Windows
      BY <2>4, StageRpc DEF SpawnPty, At, FrameOK, OpenPcs
    <3>2. CASE UNCHANGED <<proc, home>>
      BY <2>4, <3>2 DEF SpawnPty, TypeOK, Typed, HomesOK
    <3>3. ASSUME NEW p \in Panes, proc' = [proc EXCEPT ![p] = "running"], home' = [home EXCEPT ![p] = task[t].win]
          PROVE  TypeOK' /\ HomesOK'
      BY <2>4, <3>1, <3>3, NoneAssumption DEF SpawnPty, TypeOK, Typed, HomesOK
    <3> QED BY <2>4, <3>2, <3>3 DEF SpawnPty
  <2>5. CASE InsertPane(t)
    <3>1. task[t].pane \in Panes /\ task[t].sess \in Sessions
      BY <2>5, StageRpc DEF InsertPane, At, FrameOK, OpenPcs, Opens
    <3> QED BY <2>5, <3>1 DEF InsertPane, TypeOK, Typed, HomesOK
  <2>6. CASE InitLayout(t)
    <3>1. task[t].pane \in Panes /\ task[t].win \in Windows
      BY <2>6, StageRpc DEF InitLayout, At, FrameOK, OpenPcs, Opens
    <3>2. layout' \in [Windows -> SUBSET Panes]
      BY <2>6, <3>1 DEF InitLayout, TypeOK
    <3>3. UNCHANGED <<sessions, panes, wins, owner, home, sql, child, scn>>
      BY <2>6 DEF InitLayout
    <3> QED BY <3>2, <3>3 DEF TypeOK, Typed, HomesOK
  <2>7. CASE PersistLayout(t)
    <3>1. task[t].snap \in SUBSET Panes
      BY DEF Typed, Frames
    <3> QED BY <2>7, <3>1 DEF PersistLayout, TypeOK, Typed, HomesOK
  <2>8. CASE SplitLayout(t)
    <3>1. task[t].pane \in Panes /\ task[t].parent \in Panes /\ home[task[t].parent] \in Windows
      BY <2>8, StageRpc DEF SplitLayout, At, FrameOK
    <3>2. Split(layout[home[task[t].parent]], task[t].parent, task[t].pane) \in SUBSET Panes
      BY <3>1 DEF Split, TypeOK
    <3> QED BY <2>8, <3>1, <3>2 DEF SplitLayout, TypeOK, Typed, HomesOK
  <2>9. CASE CloseKill(t)
    <3>1. task[t].pane \in Panes /\ task[t].sess \in Sessions
      BY <2>9, StageRpc DEF CloseKill, At, FrameOK, Closes
    <3>2. panes' \in [Sessions -> SUBSET Panes] /\ signalled' \subseteq Panes
      BY <2>9, <3>1 DEF CloseKill, TypeOK
    <3>3. UNCHANGED <<sessions, wins, owner, home, layout, sql, proc, scn>>
      BY <2>9 DEF CloseKill
    <3> QED BY <3>2, <3>3 DEF TypeOK, Typed, HomesOK
  <2>10. CASE CloseLayout(t)
    <3>1. CASE layout' = layout
      BY <2>10, <3>1 DEF CloseLayout, TypeOK, Typed, HomesOK
    <3>2. ASSUME home[task[t].pane] \in WinsOf(task[t].sess),
                 layout' = [layout EXCEPT ![home[task[t].pane]] =
                              CloseLeaf(layout[home[task[t].pane]], task[t].pane)]
          PROVE  TypeOK' /\ HomesOK'
      <4>1. task[t].sess \in Sessions
        BY <2>10, StageRpc DEF CloseLayout, At, FrameOK, Closes
      <4>2. home[task[t].pane] \in Windows
        BY <3>2, <4>1, WinsOfWindows
      <4>3. CloseLeaf(layout[home[task[t].pane]], task[t].pane) \in SUBSET Panes
        BY <4>2 DEF CloseLeaf, TypeOK
      <4> QED BY <2>10, <3>2, <4>2, <4>3 DEF CloseLayout, TypeOK, Typed, HomesOK
    <3> QED BY <2>10, <3>1, <3>2 DEF CloseLayout
  <2>11. CASE EvictIfEmpty(t) \/ CloseWindowDrop(t) \/ KillRemove(t)
    BY <2>11 DEF EvictIfEmpty, CloseWindowDrop, KillRemove, TypeOK, Typed, HomesOK
  <2>12. CASE CloseWindowRemove(t)
    <3>1. CASE wins' = wins
      BY <2>12, <3>1 DEF CloseWindowRemove, TypeOK, Typed, HomesOK
    <3>2. ASSUME task[t].sess \in sessions, NEW w \in task[t].del,
                 wins' = [wins EXCEPT ![task[t].sess] = Retain(wins[task[t].sess], w)]
          PROVE  TypeOK' /\ HomesOK'
      <4>1. Retain(wins[task[t].sess], w) \in Seq(Windows)
        BY <3>2, Retained DEF TypeOK
      <4>2. wins' \in [Sessions -> Seq(Windows)]
        BY <3>2, <4>1 DEF TypeOK
      <4> QED BY <2>12, <4>2 DEF CloseWindowRemove, TypeOK, Typed, HomesOK
    <3> QED BY <2>12, <3>1, <3>2 DEF CloseWindowRemove
  <2>13. CASE DeleteRows(t)
    BY <2>13 DEF DeleteRows, TypeOK, Typed, HomesOK
  <2>14. CASE KillPanes(t)
    <3>1. {p \in panes[task[t].sess] : Killable(p)} \subseteq Panes
      BY <2>14, StageRpc DEF KillPanes, At, FrameOK, KillPcs, TypeOK
    <3> QED BY <2>14, <3>1 DEF KillPanes, TypeOK, Typed, HomesOK
  <2>15. CASE UNCHANGED <<mem, sql, child>>
    BY <2>15 DEF TypeOK, Typed, HomesOK
  <2> QED BY <1>2, <2>2, <2>3, <2>4, <2>5, <2>6, <2>7, <2>8, <2>9, <2>10, <2>11, <2>12, <2>13, <2>14, <2>15
          DEF Step, OpenLookup, OpenWindow, EmitSpawned, EmitLayout, CloseWindowNext, CloseWindowEmpty, GcNext
<1>3. ASSUME NEW p \in Panes, Exit(p) \/ ChildWait(p) PROVE TypeOK' /\ FramesOK' /\ HomesOK'
  <2>1. task' = task /\ scn' = scn /\ home' = home
    BY <1>3 DEF Exit, ChildWait, Reap, RemovePane
  <2>2. FramesOK'
    BY <2>1 DEF FramesOK, FrameOK
  <2>3. TypeOK' /\ HomesOK'
    <3>1. CASE Exit(p) \/ Reap(p)
      BY <3>1 DEF Exit, Reap, TypeOK, HomesOK
    <3>2. CASE RemovePane(p)
      <4>1. panes' \in [Sessions -> SUBSET Panes]
        BY <3>2 DEF RemovePane, TypeOK
      <4> QED BY <3>2, <4>1 DEF RemovePane, TypeOK, HomesOK
    <3> QED BY <1>3, <3>1, <3>2 DEF ChildWait
  <2> QED BY <2>2, <2>3
<1>4. CASE UNCHANGED vars
  BY <1>4 DEF vars, TypeOK, FramesOK, FrameOK, HomesOK
<1> QED BY <1>1, <1>2, <1>3, <1>4, TaskFrames DEF Next

\* Every variable of the registry keeps its type, whatever RPCs run at the same
\* time: what a task needs at a step is in its frame.
THEOREM TypeCorrect == Spec => [](TypeOK /\ FramesOK /\ HomesOK)
<1>1. Init => TypeOK /\ FramesOK /\ HomesOK
  <2> SUFFICES ASSUME Init PROVE TypeOK /\ FramesOK /\ HomesOK
    OBVIOUS
  <2>1. Idle \in Frames
    BY DEF Idle, Frames, Pcs
  <2>2. TypeOK /\ HomesOK
    BY <2>1 DEF Init, TypeOK, HomesOK
  <2>3. FramesOK
    BY DEF Init, FramesOK, FrameOK, Idle, Stages, KillPcs, Opens
  <2> QED BY <2>2, <2>3
<1>2. TypeOK /\ FramesOK /\ HomesOK /\ [Next]_vars => (TypeOK /\ FramesOK /\ HomesOK)'
  BY TypeStep
<1> QED BY <1>1, <1>2, PTL DEF Spec

-----------------------------------------------------------------------------
(* Who writes what *)

LEMMA RequestWrites ==
  ASSUME NEW t \in Tasks, Request(t)
  PROVE  /\ UNCHANGED <<panes, home, layout, rows, stored, proc, signalled, scn>>
         /\ NewSession(t) \/ UNCHANGED <<sessions, wins, owner>>
BY DEF Request, NewSession, NewWindow, OpenPane, OpenPaneSplit, SetPaneWeight, ClosePane, CloseWindow,
       Kill, CloseSession, GcStaleSessions, mem, sql, child

LEMMA StepWrites ==
  ASSUME NEW t \in Tasks, Step(t)
  PROVE  /\ scn' = scn
         /\ sessions' = sessions \/ EvictIfEmpty(t) \/ CloseWindowDrop(t) \/ KillRemove(t)
         /\ panes' = panes \/ InsertPane(t) \/ CloseKill(t)
         /\ wins' = wins \/ PushWindow(t) \/ CloseWindowRemove(t)
         /\ owner' = owner \/ PushWindow(t)
         /\ home' = home \/ SpawnPty(t)
         /\ layout' = layout \/ InitLayout(t) \/ SplitLayout(t) \/ CloseLayout(t)
         /\ rows' = rows \/ UpsertWindow(t) \/ DeleteRows(t)
         /\ stored' = stored \/ PersistLayout(t)
         /\ proc' = proc \/ SpawnPty(t)
         /\ signalled' = signalled \/ CloseKill(t) \/ KillPanes(t)
<1> USE DEF mem, sql, child
<1>1. CASE PushWindow(t) \/ UpsertWindow(t) \/ OpenLookup(t) \/ OpenWindow(t)
  BY <1>1 DEF PushWindow, UpsertWindow, OpenLookup, OpenWindow
<1>2. CASE SpawnPty(t) \/ InsertPane(t) \/ InitLayout(t) \/ PersistLayout(t)
  BY <1>2 DEF SpawnPty, InsertPane, InitLayout, PersistLayout
<1>3. CASE EmitSpawned(t) \/ SplitLayout(t) \/ EmitLayout(t) \/ CloseKill(t)
  BY <1>3 DEF EmitSpawned, SplitLayout, EmitLayout, CloseKill
<1>4. CASE CloseLayout(t) \/ EvictIfEmpty(t) \/ CloseWindowNext(t) \/ CloseWindowRemove(t)
  BY <1>4 DEF CloseLayout, EvictIfEmpty, CloseWindowNext, CloseWindowRemove
<1>5. CASE CloseWindowEmpty(t) \/ CloseWindowDrop(t) \/ DeleteRows(t)
  BY <1>5 DEF CloseWindowEmpty, CloseWindowDrop, DeleteRows
<1>6. CASE GcNext(t) \/ KillRemove(t) \/ KillPanes(t)
  BY <1>6 DEF GcNext, KillRemove, KillPanes
<1> QED BY <1>1, <1>2, <1>3, <1>4, <1>5, <1>6 DEF Step

LEMMA ChildWrites ==
  ASSUME NEW p \in Panes, Exit(p) \/ ChildWait(p)
  PROVE  /\ UNCHANGED <<wins, owner, home, layout, rows, stored, signalled, task, scn>>
         /\ RemovePane(p) \/ UNCHANGED <<sessions, panes>>
BY DEF Exit, ChildWait, Reap, RemovePane, mem, sql

LEMMA Writers ==
  ASSUME [Next]_vars
  PROVE  /\ sessions' = sessions
            \/ (\E t \in Tasks : NewSession(t) \/ EvictIfEmpty(t) \/ CloseWindowDrop(t) \/ KillRemove(t))
            \/ (\E p \in Panes : RemovePane(p))
         /\ panes' = panes \/ (\E t \in Tasks : InsertPane(t) \/ CloseKill(t)) \/ \E p \in Panes : RemovePane(p)
         /\ wins' = wins \/ \E t \in Tasks : NewSession(t) \/ PushWindow(t) \/ CloseWindowRemove(t)
         /\ owner' = owner \/ \E t \in Tasks : NewSession(t) \/ PushWindow(t)
         /\ home' = home \/ \E t \in Tasks : SpawnPty(t)
         /\ layout' = layout \/ \E t \in Tasks : InitLayout(t) \/ SplitLayout(t) \/ CloseLayout(t)
         /\ rows' = rows \/ \E t \in Tasks : UpsertWindow(t) \/ DeleteRows(t)
         /\ stored' = stored \/ \E t \in Tasks : PersistLayout(t)
         /\ signalled' = signalled \/ \E t \in Tasks : CloseKill(t) \/ KillPanes(t)
         /\ scn' = scn
         /\ task' = task \/ \E t \in Tasks : Request(t) \/ Step(t)
<1>1. CASE \E t \in Tasks : Request(t)
  BY <1>1, RequestWrites
<1>2. CASE \E t \in Tasks : Step(t)
  BY <1>2, StepWrites
<1>3. CASE \E p \in Panes : Exit(p) \/ ChildWait(p)
  <2>1. PICK p \in Panes : Exit(p) \/ ChildWait(p)
    BY <1>3
  <2>2. /\ UNCHANGED <<wins, owner, home, layout, rows, stored, signalled, task, scn>>
        /\ RemovePane(p) \/ UNCHANGED <<sessions, panes>>
    BY <2>1, ChildWrites
  <2>3. CASE RemovePane(p)
    BY <2>2, <2>3
  <2>4. CASE UNCHANGED <<sessions, panes>>
    BY <2>2, <2>4
  <2> QED BY <2>2, <2>3, <2>4
<1>4. CASE UNCHANGED vars
  BY <1>4 DEF vars, mem, sql, child
<1> QED BY <1>1, <1>2, <1>3, <1>4 DEF Next

-----------------------------------------------------------------------------
(* Who owns what *)

\* The windows of a session are its own, and listed once.
WinsOwned ==
  \A s \in Sessions : Distinct(wins[s]) /\ \A w \in WinsOf(s) : owner[w] = s

\* A pane's window has been in a session, and a pane is in no session but its
\* window's.
HomeOwned  == \A p \in Panes : home[p] \in Windows => owner[home[p]] \in Sessions
PanesOwned == \A s \in Sessions : \A p \in panes[s] : home[p] \in Windows /\ owner[home[p]] = s

\* A window that new_window is about to push is new, and nobody else's.
PushFresh ==
  \A t \in Tasks : At(t, "push_window") =>
    /\ owner[task[t].win] = None
    /\ \A u \in Tasks : u # t => task[u].win # task[t].win

Opening(t) ==
  \/ At(t, "insert") \/ At(t, "init_layout") \/ At(t, "emit_spawned") \/ At(t, "split_layout")
  \/ At(t, "persist") /\ task[t].next = "emit_spawned"

\* What an RPC works on belongs to the session it looked up.
TaskOwns(t) ==
  LET f == task[t] IN
  /\ f.pc \in {"window_row", "spawn_pty", "insert", "init_layout", "persist", "emit_spawned"}
       => owner[f.win] = f.sess
  /\ Opening(t) => home[f.pane] = f.win
  /\ f.rpc = "split" => owner[home[f.parent]] = f.sess
  /\ f.pc \in {"close_kill", "close_layout"} => home[f.pane] \in Windows /\ owner[home[f.pane]] = f.sess
  /\ f.rpc = "close_window" => \A p \in f.todo : home[p] \in Windows /\ owner[home[p]] = f.sess
  /\ f.rpc \notin {"close_window", "close_session"} => f.del = {}
  /\ \A w \in f.del : owner[w] = f.sess

Owned == WinsOwned /\ HomeOwned /\ PanesOwned /\ PushFresh /\ \A t \in Tasks : TaskOwns(t)

\* What is known before a step.
Ready == TypeOK /\ FramesOK /\ HomesOK

\* A window keeps its session.
OwnersKept == \A w \in Windows : owner[w] \in Sessions => owner'[w] = owner[w]

LEMMA OwnerEffect ==
  ASSUME Ready, Owned, [Next]_vars
  PROVE  /\ owner' \in [Windows -> Sessions \cup {None}]
         /\ OwnersKept /\ HomesKept
<1>0. TypeOK' /\ \A p \in Panes : home' = home => home'[p] = home[p]
  BY TypeStep DEF Ready
<1>1. OwnersKept
  <2>1. ASSUME NEW t \in Tasks, NewSession(t) PROVE OwnersKept
    <3>1. PICK s \in Sessions, w \in Windows :
            /\ w = Fresh({v \in scn.windows : owner[v] = None /\ \A u \in Tasks : task[u].win # v})
            /\ owner' = [owner EXCEPT ![w] = s]
      BY <2>1 DEF NewSession
    <3>2. owner[w] = None
      BY <3>1, FreshMember
    <3> QED BY <3>1, <3>2, NoneAssumption DEF OwnersKept, Ready, TypeOK
  <2>2. ASSUME NEW t \in Tasks, PushWindow(t) PROVE OwnersKept
    <3>1. owner[task[t].win] = None /\ owner' = [owner EXCEPT ![task[t].win] = task[t].sess]
      BY <2>2 DEF PushWindow, Owned, PushFresh
    <3> QED BY <3>1, NoneAssumption DEF OwnersKept, Ready, TypeOK
  <2>3. CASE owner' = owner
    BY <2>3 DEF OwnersKept
  <2>4. \/ owner' = owner \/ \E t \in Tasks : NewSession(t) \/ PushWindow(t)
    BY Writers
  <2> QED BY <2>1, <2>2, <2>3, <2>4
<1>2. HomesKept
  <2>1. CASE home' = home
    BY <2>1 DEF HomesKept
  <2>2. ASSUME NEW t \in Tasks, Request(t) \/ Step(t) PROVE HomesKept
    BY <2>2, TaskFrames DEF FrameEffect, Ready
  <2>3. ASSUME NEW p \in Panes, Exit(p) \/ ChildWait(p) PROVE home' = home
    BY <2>3 DEF Exit, ChildWait, Reap, RemovePane, mem
  <2>4. CASE UNCHANGED vars
    BY <2>1, <2>4 DEF vars, mem
  <2> QED BY <2>1, <2>2, <2>3, <2>4 DEF Next
<1> QED BY <1>0, <1>1, <1>2 DEF TypeOK

LEMMA WinsOfElems == ASSUME NEW s PROVE WinsOf(s) = Elems(wins[s])
BY DEF WinsOf, Elems

LEMMA WinsOwnedStep ==
  ASSUME Ready, Owned, [Next]_vars
  PROVE  WinsOwned'
<1>0. OwnersKept /\ wins \in [Sessions -> Seq(Windows)] /\ owner \in [Windows -> Sessions \cup {None}]
  BY OwnerEffect DEF Ready, TypeOK
<1>a. ASSUME NEW s \in Sessions, wins'[s] = wins[s]
      PROVE  Distinct(wins[s])' /\ \A w \in WinsOf(s)' : owner'[w] = s
  <2>1. WinsOf(s)' = WinsOf(s)
    BY <1>a DEF WinsOf
  <2>2. \A w \in WinsOf(s) : w \in Windows /\ owner[w] = s
    BY WinsOfWindows DEF Owned, WinsOwned, Ready
  <2>3. Distinct(wins[s])'
    BY <1>a DEF Owned, WinsOwned, Distinct
  <2> QED BY <1>0, <2>1, <2>2, <2>3 DEF OwnersKept
<1>1. ASSUME NEW t \in Tasks, NewSession(t) PROVE WinsOwned'
  <2>1. PICK s \in Sessions, w \in Windows : /\ wins' = [wins EXCEPT ![s] = <<w>>]
                                             /\ owner' = [owner EXCEPT ![w] = s]
    BY <1>1 DEF NewSession
  <2>2. wins'[s] = <<w>> /\ owner'[w] = s
    BY <1>0, <2>1
  <2>3. Distinct(wins[s])' /\ \A v \in WinsOf(s)' : owner'[v] = s
    BY <2>2 DEF Distinct, WinsOf
  <2>4. \A u \in Sessions : u # s => wins'[u] = wins[u]
    BY <1>0, <2>1
  <2> QED BY <1>a, <2>3, <2>4 DEF WinsOwned
<1>2. ASSUME NEW t \in Tasks, PushWindow(t) PROVE WinsOwned'
  <2>1. task[t].sess \in Sessions /\ task[t].win \in Windows
    BY <1>2, StageRpc, AtFrame DEF PushWindow, At, FrameOK, Ready
  <2>2. PICK s \in Sessions, w \in Windows : s = task[t].sess /\ w = task[t].win
    BY <2>1
  <2>3. /\ wins' = [wins EXCEPT ![s] = Append(wins[s], w)] /\ owner' = [owner EXCEPT ![w] = s]
        /\ owner[w] = None
    BY <1>2, <2>2 DEF PushWindow, Owned, PushFresh
  <2>4. w \notin WinsOf(s)
    BY <2>3, NoneAssumption DEF Owned, WinsOwned
  <2>5. wins'[s] = Append(wins[s], w) /\ owner'[w] = s
    BY <1>0, <2>3
  <2>6. Distinct(wins[s])' /\ WinsOf(s)' = WinsOf(s) \cup {w}
    <3>1. /\ wins[s] \in Seq(Windows) /\ DOMAIN wins[s] = 1 .. Len(wins[s]) /\ Len(wins[s]) \in Nat
          /\ DOMAIN wins'[s] = 1 .. Len(wins[s]) + 1
          /\ \A i \in 1 .. Len(wins[s]) : wins'[s][i] = wins[s][i]
          /\ wins'[s][Len(wins[s]) + 1] = w
      BY <1>0, <2>5
    <3>2. \A i \in 1 .. Len(wins[s]) : wins[s][i] # w
      BY <2>4, <3>1 DEF WinsOf
    <3>3. Distinct(wins[s])
      BY DEF Owned, WinsOwned
    <3>4. Distinct(wins[s])'
      BY SMTT(20), <3>1, <3>2, <3>3 DEF Distinct
    <3>5. WinsOf(s)' = WinsOf(s) \cup {w}
      BY <3>1 DEF WinsOf
    <3> QED BY <3>4, <3>5
  <2>7. \A v \in WinsOf(s) : v \in Windows /\ owner[v] = s
    BY WinsOfWindows DEF Owned, WinsOwned, Ready
  <2>8. \A v \in WinsOf(s)' : owner'[v] = s
    BY <1>0, <2>5, <2>6, <2>7 DEF OwnersKept
  <2>9. \A u \in Sessions : u # s => wins'[u] = wins[u]
    BY <1>0, <2>3
  <2> QED BY <1>a, <2>6, <2>8, <2>9 DEF WinsOwned
<1>3. ASSUME NEW t \in Tasks, CloseWindowRemove(t) PROVE WinsOwned'
  <2>1. CASE wins' = wins
    BY <1>a, <2>1 DEF WinsOwned
  <2>2. ASSUME task[t].sess \in sessions, NEW w \in task[t].del,
               wins' = [wins EXCEPT ![task[t].sess] = Retain(wins[task[t].sess], w)]
        PROVE  WinsOwned'
    <3>1. PICK s \in Sessions : s = task[t].sess
      BY <2>2 DEF Ready, TypeOK
    <3>2. wins'[s] = Retain(wins[s], w) /\ wins[s] \in Seq(Windows)
      BY <1>0, <2>2, <3>1
    <3>3. Distinct(wins[s]) /\ \A v \in WinsOf(s) : v \in Windows /\ owner[v] = s
      BY WinsOfWindows DEF Owned, WinsOwned, Ready
    <3>4. Distinct(wins'[s]) /\ Elems(wins'[s]) \subseteq Elems(wins[s])
      BY <3>2, <3>3, Retained
    <3>5. WinsOf(s)' \subseteq WinsOf(s)
      BY <3>4 DEF WinsOf, Elems
    <3>6. \A v \in WinsOf(s)' : owner'[v] = s
      BY <1>0, <3>3, <3>5 DEF OwnersKept
    <3>7. \A u \in Sessions : u # s => wins'[u] = wins[u]
      BY <1>0, <2>2, <3>1
    <3>8. Distinct(wins[s])'
      BY <3>4 DEF Distinct
    <3> QED BY <1>a, <3>6, <3>7, <3>8 DEF WinsOwned
  <2> QED BY <1>3, <2>1, <2>2 DEF CloseWindowRemove
<1>4. CASE wins' = wins
  BY <1>a, <1>4 DEF WinsOwned
<1>5. \/ wins' = wins \/ \E t \in Tasks : NewSession(t) \/ PushWindow(t) \/ CloseWindowRemove(t)
  BY Writers
<1> QED BY <1>1, <1>2, <1>3, <1>4, <1>5

LEMMA PanesOwnedStep ==
  ASSUME Ready, Owned, [Next]_vars
  PROVE  HomeOwned' /\ PanesOwned'
<1> USE DEF mem
<1>0. /\ OwnersKept /\ HomesKept /\ panes \in [Sessions -> SUBSET Panes]
      /\ home \in [Panes -> Windows \cup {None}]
  BY OwnerEffect DEF Ready, TypeOK
<1>1. HomeOwned'
  <2>1. ASSUME NEW p \in Panes, home'[p] = home[p], home'[p] \in Windows PROVE owner'[home'[p]] \in Sessions
    BY <1>0, <2>1 DEF Owned, HomeOwned, OwnersKept
  <2>2. ASSUME NEW t \in Tasks, SpawnPty(t) PROVE HomeOwned'
    <3>1. task[t].win \in Windows /\ owner[task[t].win] \in Sessions
      <4>1. task[t].pc = "spawn_pty" /\ task[t].rpc \in Opens
        BY <2>2, StageRpc DEF SpawnPty, At, Ready, OpenPcs
      <4> QED BY <4>1, AtFrame DEF FrameOK, Opens, Owned, TaskOwns, Ready
    <3>2. CASE home' = home
      BY <2>1, <3>2 DEF HomeOwned
    <3>3. ASSUME NEW p \in Panes, home' = [home EXCEPT ![p] = task[t].win] PROVE HomeOwned'
      BY <1>0, <2>1, <3>1, <3>3 DEF HomeOwned, OwnersKept
    <3> QED BY <2>2, <3>2, <3>3 DEF SpawnPty
  <2>3. CASE home' = home
    BY <2>1, <2>3 DEF HomeOwned
  <2>4. home' = home \/ \E t \in Tasks : SpawnPty(t)
    BY Writers
  <2> QED BY <2>2, <2>3, <2>4
<1>2. PanesOwned'
  <2>1. ASSUME NEW s \in Sessions, NEW p \in panes'[s], p \in panes[s]
        PROVE  home'[p] \in Windows /\ owner'[home'[p]] = s
    BY <1>0, <2>1 DEF Owned, PanesOwned, OwnersKept, HomesKept
  <2>2. ASSUME NEW t \in Tasks, InsertPane(t) PROVE PanesOwned'
    <3>1. task[t].pc = "insert" /\ task[t].rpc \in Opens
      BY <2>2, StageRpc DEF InsertPane, At, Ready, OpenPcs
    <3>2. task[t].win \in Windows /\ task[t].sess \in Sessions /\ task[t].pane \in Panes
      BY <3>1, AtFrame DEF FrameOK, Opens, Ready
    <3>3. home[task[t].pane] = task[t].win /\ owner[task[t].win] = task[t].sess
      BY <3>1 DEF Owned, TaskOwns, Opening, At
    <3>4. home'[task[t].pane] \in Windows /\ owner'[home'[task[t].pane]] = task[t].sess
      BY <1>0, <3>2, <3>3 DEF OwnersKept, HomesKept
    <3>5. panes' = [panes EXCEPT ![task[t].sess] = panes[task[t].sess] \cup {task[t].pane}]
      BY <2>2 DEF InsertPane
    <3> QED BY <1>0, <2>1, <3>2, <3>4, <3>5 DEF PanesOwned
  <2>3. ASSUME \A s \in Sessions : panes'[s] \subseteq panes[s] PROVE PanesOwned'
    BY <2>1, <2>3 DEF PanesOwned
  <2>4. ASSUME NEW t \in Tasks, CloseKill(t) PROVE \A s \in Sessions : panes'[s] \subseteq panes[s]
    BY <1>0, <2>4 DEF CloseKill
  <2>5. ASSUME NEW p \in Panes, RemovePane(p) PROVE \A s \in Sessions : panes'[s] \subseteq panes[s]
    BY <1>0, <2>5 DEF RemovePane
  <2>6. \/ panes' = panes \/ \E t \in Tasks : InsertPane(t) \/ CloseKill(t)
        \/ \E p \in Panes : RemovePane(p)
    BY Writers
  <2> QED BY <2>2, <2>3, <2>4, <2>5, <2>6
<1> QED BY <1>1, <1>2

\* What a step leaves in the frame of its task.
StepKeepsFrame(t) ==
  /\ task'[t].rpc = task[t].rpc /\ task'[t].parent = task[t].parent /\ task'[t].del = task[t].del
  /\ task'[t].sess = task[t].sess \/ GcNext(t)
  /\ task'[t].win = task[t].win \/ OpenWindow(t) \/ SplitLayout(t) \/ CloseLayout(t)
  /\ task'[t].pane = task[t].pane \/ SpawnPty(t) \/ CloseWindowNext(t)
  /\ task'[t].todo = task[t].todo \/ CloseWindowNext(t) \/ GcNext(t)
  /\ task'[t].snap = task[t].snap \/ InitLayout(t) \/ SplitLayout(t) \/ CloseLayout(t)
  /\ task'[t].next = task[t].next \/ InitLayout(t) \/ SplitLayout(t) \/ CloseLayout(t)

LEMMA StepKeeps ==
  ASSUME Typed, NEW t \in Tasks, Step(t)
  PROVE  task'[t] = Idle \/ StepKeepsFrame(t)
<1>g. ASSUME NEW pc, Goto(t, pc) PROVE StepKeepsFrame(t)
  BY <1>g DEF Goto, Typed, Frames, StepKeepsFrame
<1>r. ASSUME Return(t) PROVE task'[t] = Idle
  BY <1>r DEF Return, Typed
<1>1. CASE OpenWindow(t)
  BY <1>1, <1>g, <1>r DEF OpenWindow, Typed, Frames, StepKeepsFrame
<1>2. CASE SpawnPty(t)
  <2>1. ASSUME NEW p, task' = [task EXCEPT ![t].pc = "insert", ![t].pane = p] PROVE StepKeepsFrame(t)
    BY <1>2, <2>1 DEF Typed, Frames, StepKeepsFrame
  <2> QED BY <1>2, <1>r, <2>1 DEF SpawnPty
<1>3. CASE InitLayout(t)
  BY <1>3, <1>g, <1>r DEF InitLayout, Typed, Frames, StepKeepsFrame
<1>4. CASE SplitLayout(t)
  BY <1>4 DEF SplitLayout, Typed, Frames, StepKeepsFrame
<1>5. CASE CloseLayout(t)
  <2>1. ASSUME NEW w, NEW tree,
               task' = [task EXCEPT ![t].pc = "persist", ![t].next = "emit_layout", ![t].snap = tree, ![t].win = w]
        PROVE  StepKeepsFrame(t)
    BY <1>5, <2>1 DEF Typed, Frames, StepKeepsFrame
  <2> QED BY <1>5, <1>g, <2>1 DEF CloseLayout
<1>6. CASE CloseWindowNext(t)
  <2>1. ASSUME NEW p, NEW pc, task' = [task EXCEPT ![t].pc = pc, ![t].todo = @ \ {p}, ![t].pane = p]
        PROVE  StepKeepsFrame(t)
    BY <1>6, <2>1 DEF Typed, Frames, StepKeepsFrame
  <2> QED BY <1>6, <1>g, <2>1 DEF CloseWindowNext
<1>7. CASE GcNext(t)
  <2>1. ASSUME NEW u, task' = [task EXCEPT ![t].pc = "kill_remove", ![t].sess = u, ![t].todo = @ \ {u}]
        PROVE  StepKeepsFrame(t)
    BY <1>7, <2>1 DEF Typed, Frames, StepKeepsFrame
  <2> QED BY <1>7, <1>r, <2>1 DEF GcNext
<1>8. CASE \/ PushWindow(t) \/ UpsertWindow(t) \/ OpenLookup(t) \/ InsertPane(t) \/ PersistLayout(t)
           \/ EmitSpawned(t) \/ EmitLayout(t) \/ CloseKill(t) \/ EvictIfEmpty(t)
           \/ CloseWindowRemove(t) \/ CloseWindowEmpty(t) \/ CloseWindowDrop(t) \/ DeleteRows(t)
           \/ KillRemove(t) \/ KillPanes(t)
  <2>1. Return(t) \/ \E pc : Goto(t, pc)
    BY <1>8 DEF PushWindow, UpsertWindow, OpenLookup, InsertPane, PersistLayout, EmitSpawned, EmitLayout,
       CloseKill, EvictIfEmpty, CloseWindowRemove, CloseWindowEmpty, CloseWindowDrop, DeleteRows,
       KillRemove, KillPanes, CloseReturn, KillReturn
  <2> QED BY <1>g, <1>r, <2>1
<1> QED BY <1>1, <1>2, <1>3, <1>4, <1>5, <1>6, <1>7, <1>8 DEF Step

\* Where the window of a frame comes from: it is one that some session has had, or
\* a new one.
LEMMA WinSource ==
  ASSUME Ready, Owned, NEW t \in Tasks, Request(t) \/ Step(t)
  PROVE  \/ task'[t].win = task[t].win
         \/ task'[t].win = None
         \/ task'[t].win \in Windows /\ owner[task'[t].win] \in Sessions
         \/ /\ task'[t].win \in Windows /\ owner[task'[t].win] = None
            /\ \A u \in Tasks : task[u].win # task'[t].win
<1> USE DEF Ready
<1>0. /\ Typed /\ owner \in [Windows -> Sessions \cup {None}] /\ FrameOK(t)
      /\ \A s \in Sessions : \A w \in WinsOf(s) : w \in Windows /\ owner[w] \in Sessions
  BY WinsOfWindows, AtFrame DEF TypeOK, Typed, Owned, WinsOwned
<1>f. ASSUME NEW f \in Frames, Call(t, f) PROVE task'[t] = f
  BY <1>0, <1>f, CallFrame
<1>c. ASSUME NEW f, Call(t, f) PROVE task'[t] = f
  BY <1>0, <1>c DEF Call, Typed
<1>g. ASSUME NEW pc, Goto(t, pc) PROVE task'[t].win = task[t].win
  BY <1>0, <1>g DEF Goto, Typed, Frames
<1>r. ASSUME Return(t) PROVE task'[t].win = None
  BY <1>0, <1>r DEF Return, Typed, Idle
<1>1. CASE NewSession(t) \/ NewWindow(t)
  <2>1. PICK w \in Windows :
          /\ w = Fresh({v \in scn.windows : owner[v] = None /\ \A u \in Tasks : task[u].win # v})
          /\ \E s : \/ Call(t, [Idle EXCEPT !.rpc = "spawn", !.pc = "window_row", !.sess = s, !.win = w])
                    \/ Call(t, [Idle EXCEPT !.rpc = "new_window", !.pc = "push_window", !.sess = s, !.win = w])
    BY <1>1 DEF NewSession, NewWindow
  <2>2. task'[t].win = w
    BY <1>c, <2>1 DEF Idle
  <2>3. w \in {v \in scn.windows : owner[v] = None /\ \A u \in Tasks : task[u].win # v}
    BY <2>1, FreshMember
  <2> QED BY <2>2, <2>3
<1>2. CASE OpenPane(t)
  <2>1. PICK s \in Sessions, w \in Windows :
          /\ owner[w] # None
          /\ Call(t, [Idle EXCEPT !.rpc = "open_pane", !.pc = "open_lookup", !.sess = s, !.win = w])
    BY <1>2 DEF OpenPane
  <2>2. task'[t].win = w
    BY <1>c, <2>1 DEF Idle
  <2> QED BY <1>0, <2>1, <2>2
<1>3. CASE OpenPaneSplit(t) \/ SetPaneWeight(t)
  <2>1. PICK p \in Panes :
          /\ Listed(p) /\ home[p] \in WinsOf(SessionOf(p))
          /\ \/ Call(t, [Idle EXCEPT !.rpc = "split", !.pc = "open_lookup", !.sess = SessionOf(p),
                                     !.win = home[p], !.parent = p])
             \/ Call(t, [Idle EXCEPT !.rpc = "weight", !.pc = "persist", !.next = "emit_layout", !.pane = p,
                                     !.sess = SessionOf(p), !.win = home[p], !.snap = layout[home[p]]])
    BY <1>3 DEF OpenPaneSplit, SetPaneWeight
  <2>2. task'[t].win = home[p]
    BY <1>c, <2>1 DEF Idle
  <2>3. SessionOf(p) \in Sessions
    BY <2>1, SessionOfListed DEF TypeOK
  <2> QED BY <1>0, <2>1, <2>2, <2>3
<1>4. CASE ClosePane(t) \/ CloseWindow(t) \/ Kill(t) \/ CloseSession(t) \/ GcStaleSessions(t)
  BY ZenonT(40), <1>4, <1>c DEF ClosePane, CloseWindow, Kill, CloseSession, GcStaleSessions, Idle
<1>5. CASE OpenWindow(t)
  <2>1. task[t].sess \in Sessions
    BY <1>0, <1>5, StageRpc DEF OpenWindow, At, OpenPcs, Opens, FrameOK
  <2>2. ASSUME wins[task[t].sess] # <<>>,
               task' = [task EXCEPT ![t].pc = "spawn_pty", ![t].win = Head(wins[task[t].sess])]
        PROVE  task'[t].win \in WinsOf(task[t].sess)
    BY <1>0, <2>1, <2>2, WinsOfWindows DEF Typed, Frames
  <2> QED BY <1>0, <1>5, <1>g, <1>r, <2>1, <2>2 DEF OpenWindow
<1>7. CASE SplitLayout(t)
  <2>1. task'[t].win = home[task[t].parent]
    BY <1>0, <1>7 DEF SplitLayout, Typed, Frames
  <2>2. task[t].rpc = "split" /\ home[task[t].parent] \in Windows /\ task[t].parent \in Panes
    BY <1>0, <1>7, StageRpc DEF SplitLayout, At, FrameOK
  <2> QED BY <2>1, <2>2 DEF Owned, HomeOwned
<1>8. CASE CloseLayout(t)
  <2>1. task[t].sess \in Sessions
    BY <1>0, <1>8, StageRpc DEF CloseLayout, At, Closes, FrameOK
  <2>2. \/ \E pc : Goto(t, pc)
        \/ task'[t].win \in WinsOf(task[t].sess)
    BY <1>0, <1>8 DEF CloseLayout, Typed, Frames
  <2> QED BY <1>0, <1>g, <2>1, <2>2
<1>9. CASE Step(t) /\ ~OpenWindow(t) /\ ~SplitLayout(t) /\ ~CloseLayout(t)
  BY <1>0, <1>9, StepKeeps DEF StepKeepsFrame, Idle
<1> QED BY <1>1, <1>2, <1>3, <1>4, <1>5, <1>7, <1>8, <1>9 DEF Request

LEMMA PushFreshStep ==
  ASSUME Ready, Owned, [Next]_vars
  PROVE  PushFresh'
<1> USE DEF Ready
<1>0. owner \in [Windows -> Sessions \cup {None}] /\ Typed
  BY DEF TypeOK, Typed
<1>1. ASSUME NEW v \in Tasks, Request(v) \/ Step(v) PROVE PushFresh'
  <2>1. Others(v) /\ FrameOK(v)'
    BY <1>1, TaskFrames DEF FrameEffect
  <2> SUFFICES ASSUME NEW t \in Tasks, task'[t].pc = "push_window"
               PROVE  /\ owner'[task'[t].win] = None
                      /\ \A u \in Tasks : u # t => task'[u].win # task'[t].win
    BY DEF PushFresh, At
  <2>2. CASE v # t
    <3>1. task'[t] = task[t]
      BY <2>1, <2>2 DEF Others
    <3>2. /\ task[t].win \in Windows /\ owner[task[t].win] = None
          /\ \A u \in Tasks : u # t => task[u].win # task[t].win
      BY <3>1, StageRpc, AtFrame DEF FrameOK, Owned, PushFresh, At
    <3>3. owner'[task[t].win] = None
      <4>1. CASE NewSession(v)
        <5>1. PICK s \in Sessions, w \in Windows :
                /\ w = Fresh({x \in scn.windows : owner[x] = None /\ \A u \in Tasks : task[u].win # x})
                /\ owner' = [owner EXCEPT ![w] = s]
          BY <4>1 DEF NewSession
        <5>2. task[t].win # w
          BY <5>1, FreshMember
        <5> QED BY <1>0, <3>2, <5>1, <5>2
      <4>2. CASE PushWindow(v)
        BY <1>0, <2>2, <3>2, <4>2 DEF PushWindow
      <4> QED BY <1>1, <3>2, <4>1, <4>2, RequestWrites, StepWrites
    <3>4. task'[v].win # task[t].win
      BY <1>1, <2>2, <3>2, WinSource, NoneAssumption
    <3> QED BY <2>1, <2>2, <3>1, <3>2, <3>3, <3>4 DEF Others
  <2>3. CASE v = t
    <3>1. task'[t].rpc = "new_window" /\ task'[t].win \in Windows
      <4>1. task'[t] \in Frames
        BY <1>1, <2>3, TaskFrames DEF FrameEffect, Typed
      <4> QED BY <2>1, <2>3, <4>1 DEF FrameOK, Stages, OpenPcs, ClosePcs, KillPcs, Frames, RpcNames
    <3>2. NewWindow(t)
      <4>1. CASE Step(t)
        <5>1. task[t].rpc = "new_window"
          BY <1>0, <3>1, <4>1, StepKeeps DEF StepKeepsFrame, Idle
        <5>2. task[t].pc \in {"push_window", "window_row"}
          BY <5>1, AtFrame DEF Stages
        <5>3. PushWindow(t) \/ UpsertWindow(t)
          BY <4>1, <5>2 DEF Step, At, OpenLookup, OpenWindow, SpawnPty, InsertPane, InitLayout,
             PersistLayout, EmitSpawned, SplitLayout, EmitLayout, CloseKill, CloseLayout, EvictIfEmpty,
             CloseWindowNext, CloseWindowRemove, CloseWindowEmpty, CloseWindowDrop, DeleteRows, GcNext,
             KillRemove, KillPanes
        <5>4. task'[t].pc # "push_window"
          BY <1>0, <5>1, <5>3 DEF PushWindow, UpsertWindow, Goto, Return, Idle, Typed, Frames
        <5> QED BY <2>3, <5>4
      <4>2. ASSUME NEW f, Call(t, f) PROVE task'[t] = f
        BY <1>0, <4>2 DEF Call, Typed
      <4>3. ~NewSession(t) /\ ~OpenPane(t) /\ ~OpenPaneSplit(t) /\ ~SetPaneWeight(t) /\ ~ClosePane(t)
        BY ZenonT(40), <3>1, <4>2 DEF NewSession, OpenPane, OpenPaneSplit, SetPaneWeight, ClosePane, Idle
      <4>4. ~CloseWindow(t) /\ ~Kill(t) /\ ~CloseSession(t) /\ ~GcStaleSessions(t)
        BY <3>1, <4>2 DEF CloseWindow, Kill, CloseSession, GcStaleSessions, Idle
      <4> QED BY <1>1, <2>3, <4>1, <4>3, <4>4 DEF Request
    <3>3. PICK w \in Windows :
          /\ w = Fresh({x \in scn.windows : owner[x] = None /\ \A u \in Tasks : task[u].win # x})
          /\ \E s : Call(t, [Idle EXCEPT !.rpc = "new_window", !.pc = "push_window", !.sess = s, !.win = w])
      BY <3>2 DEF NewWindow
    <3>4. task'[t].win = w
      BY <1>0, <3>3 DEF Call, Typed, Idle
    <3>5. owner[w] = None /\ \A u \in Tasks : task[u].win # w
      BY <3>3, FreshMember
    <3>6. owner' = owner
      BY <3>2 DEF NewWindow, mem
    <3> QED BY <2>1, <2>3, <3>4, <3>5, <3>6 DEF Others
  <2> QED BY <2>2, <2>3
<1>2. CASE UNCHANGED <<task, owner>>
  BY <1>2 DEF Owned, PushFresh, At
<1>3. ASSUME NEW p \in Panes, Exit(p) \/ ChildWait(p) PROVE UNCHANGED <<task, owner>>
  BY <1>3, ChildWrites
<1> QED BY <1>1, <1>2, <1>3 DEF Next, vars, mem

\* What an RPC has looked up stays true of it.
LEMMA TaskOwnsKept ==
  ASSUME Ready, Owned, OwnersKept, HomesKept, NEW u \in Tasks, task'[u] = task[u]
  PROVE  TaskOwns(u)'
<1> USE DEF Ready
<1>0. TaskOwns(u) /\ FrameOK(u) /\ task[u] \in Frames
  BY AtFrame DEF Owned, TypeOK
<1>1. ASSUME task[u].pc \in {"window_row", "spawn_pty", "insert", "init_layout", "persist", "emit_spawned"}
      PROVE  owner'[task[u].win] = task[u].sess
  <2>1. task[u].rpc \notin {"none", "gc"} /\ task[u].win \in Windows
    BY <1>0, <1>1, StageRpc DEF OpenPcs, Opens, Closes, FrameOK
  <2>2. task[u].sess \in Sessions /\ owner[task[u].win] = task[u].sess
    BY <1>0, <1>1, <2>1 DEF FrameOK, TaskOwns
  <2> QED BY <2>1, <2>2 DEF OwnersKept
<1>2. ASSUME Opening(u) PROVE home'[task[u].pane] = task[u].win
  <2>1. task[u].rpc \in Opens
    BY <1>0, <1>2, StageRpc DEF Opening, At, OpenPcs, FrameOK, Opens
  <2>2. task[u].win \in Windows /\ task[u].pane \in Panes /\ home[task[u].pane] = task[u].win
    BY <1>0, <1>2, <2>1 DEF FrameOK, TaskOwns, Opening, At
  <2> QED BY <2>2 DEF HomesKept
<1>3. ASSUME task[u].rpc = "split" PROVE owner'[home'[task[u].parent]] = task[u].sess
  BY <1>0, <1>3 DEF FrameOK, TaskOwns, HomesKept, OwnersKept
<1>4. ASSUME task[u].pc \in {"close_kill", "close_layout"}
      PROVE  home'[task[u].pane] \in Windows /\ owner'[home'[task[u].pane]] = task[u].sess
  <2>1. task[u].rpc \in Closes
    BY <1>4, StageRpc
  <2> QED BY <1>0, <1>4, <2>1 DEF FrameOK, TaskOwns, HomesKept, OwnersKept, Closes
<1>5. ASSUME task[u].rpc = "close_window", NEW p \in task[u].todo
      PROVE  home'[p] \in Windows /\ owner'[home'[p]] = task[u].sess
  BY <1>0, <1>5 DEF FrameOK, TaskOwns, HomesKept, OwnersKept
<1>6. ASSUME NEW w \in task[u].del PROVE owner'[w] = task[u].sess
  <2>1. task[u].rpc \in {"close_window", "close_session"}
    BY <1>0 DEF TaskOwns
  <2>2. w \in Windows /\ owner[w] = task[u].sess /\ task[u].sess \in Sessions
    BY <1>0, <2>1 DEF FrameOK, TaskOwns, Frames
  <2> QED BY <2>2 DEF OwnersKept
<1>7. Opening(u)' <=> Opening(u)
  BY DEF Opening, At
<1> QED BY <1>0, <1>1, <1>2, <1>3, <1>4, <1>5, <1>6, <1>7 DEF TaskOwns

LEMMA TaskOwnsRequest ==
  ASSUME Ready, Owned, OwnersKept, NEW t \in Tasks, Request(t)
  PROVE  TaskOwns(t)'
<1> USE DEF Ready
<1>0. Typed /\ home' = home /\ owner \in [Windows -> Sessions \cup {None}]
  BY RequestWrites DEF TypeOK, Typed
<1>c. ASSUME NEW f, Call(t, f) PROVE task'[t] = f
  BY <1>0, <1>c DEF Call, Typed
<1>p. ASSUME NEW p, Listed(p)
      PROVE  SessionOf(p) \in Sessions /\ home[p] \in Windows /\ owner[home[p]] = SessionOf(p)
  BY <1>p, SessionOfListed DEF TypeOK, Owned, PanesOwned
<1>1. CASE NewSession(t)
  <2>1. PICK s \in Sessions, w \in Windows :
          /\ Call(t, [Idle EXCEPT !.rpc = "spawn", !.pc = "window_row", !.sess = s, !.win = w])
          /\ owner' = [owner EXCEPT ![w] = s]
    BY <1>1 DEF NewSession
  <2>2. owner'[w] = s
    BY <1>0, <2>1
  <2>3. task'[t] = [Idle EXCEPT !.rpc = "spawn", !.pc = "window_row", !.sess = s, !.win = w]
    BY <1>c, <2>1
  <2>4. /\ task'[t].rpc = "spawn" /\ task'[t].pc = "window_row" /\ task'[t].sess = s
        /\ task'[t].win = w /\ task'[t].del = {}
    BY <2>3 DEF Idle
  <2> QED BY <2>2, <2>4 DEF TaskOwns, Opening, At
<1>2. CASE NewWindow(t)
  <2>1. PICK s, w :
          Call(t, [Idle EXCEPT !.rpc = "new_window", !.pc = "push_window", !.sess = s, !.win = w])
    BY <1>2 DEF NewWindow
  <2>2. task'[t] = [Idle EXCEPT !.rpc = "new_window", !.pc = "push_window", !.sess = s, !.win = w]
    BY <1>c, <2>1
  <2>3. task'[t].rpc = "new_window" /\ task'[t].pc = "push_window" /\ task'[t].del = {}
    BY <2>2 DEF Idle
  <2> QED BY <2>3 DEF TaskOwns, Opening, At
<1>9. CASE OpenPane(t)
  <2>1. PICK s, w :
          Call(t, [Idle EXCEPT !.rpc = "open_pane", !.pc = "open_lookup", !.sess = s, !.win = w])
    BY <1>9 DEF OpenPane
  <2>2. task'[t] = [Idle EXCEPT !.rpc = "open_pane", !.pc = "open_lookup", !.sess = s, !.win = w]
    BY <1>c, <2>1
  <2>3. task'[t].rpc = "open_pane" /\ task'[t].pc = "open_lookup" /\ task'[t].del = {}
    BY <2>2 DEF Idle
  <2> QED BY <2>3 DEF TaskOwns, Opening, At
<1>3. CASE OpenPaneSplit(t)
  <2>1. PICK p \in Panes :
          /\ Listed(p)
          /\ Call(t, [Idle EXCEPT !.rpc = "split", !.pc = "open_lookup", !.sess = SessionOf(p),
                                  !.win = home[p], !.parent = p])
    BY <1>3 DEF OpenPaneSplit
  <2>2. owner'[home'[p]] = SessionOf(p)
    BY <1>0, <1>p, <2>1 DEF OwnersKept
  <2>3. task'[t] = [Idle EXCEPT !.rpc = "split", !.pc = "open_lookup", !.sess = SessionOf(p),
                                !.win = home[p], !.parent = p]
    BY <1>c, <2>1
  <2>4. /\ task'[t].rpc = "split" /\ task'[t].pc = "open_lookup" /\ task'[t].sess = SessionOf(p)
        /\ task'[t].parent = p /\ task'[t].del = {}
    BY <2>3 DEF Idle
  <2> QED BY <2>2, <2>4 DEF TaskOwns, Opening, At
<1>4. CASE SetPaneWeight(t)
  <2>1. PICK p \in Panes :
          /\ Listed(p)
          /\ Call(t, [Idle EXCEPT !.rpc = "weight", !.pc = "persist", !.next = "emit_layout", !.pane = p,
                                  !.sess = SessionOf(p), !.win = home[p], !.snap = layout[home[p]]])
    BY <1>4 DEF SetPaneWeight
  <2>2. owner'[home[p]] = SessionOf(p)
    BY <1>0, <1>p, <2>1 DEF OwnersKept
  <2>3. task'[t] = [Idle EXCEPT !.rpc = "weight", !.pc = "persist", !.next = "emit_layout", !.pane = p,
                                !.sess = SessionOf(p), !.win = home[p], !.snap = layout[home[p]]]
    BY <1>c, <2>1
  <2>4. /\ task'[t].rpc = "weight" /\ task'[t].pc = "persist" /\ task'[t].next = "emit_layout"
        /\ task'[t].sess = SessionOf(p) /\ task'[t].win = home[p] /\ task'[t].del = {}
    BY <2>3 DEF Idle
  <2> QED BY <2>2, <2>4 DEF TaskOwns, Opening, At
<1>5. CASE ClosePane(t)
  <2>1. PICK p \in Panes :
          /\ Listed(p)
          /\ Call(t, [Idle EXCEPT !.rpc = "close_pane", !.pc = "close_kill", !.sess = SessionOf(p), !.pane = p])
    BY <1>5 DEF ClosePane
  <2>2. home'[p] \in Windows /\ owner'[home'[p]] = SessionOf(p)
    BY <1>0, <1>p, <2>1 DEF OwnersKept
  <2>3. task'[t] = [Idle EXCEPT !.rpc = "close_pane", !.pc = "close_kill", !.sess = SessionOf(p), !.pane = p]
    BY <1>c, <2>1
  <2>4. /\ task'[t].rpc = "close_pane" /\ task'[t].pc = "close_kill" /\ task'[t].sess = SessionOf(p)
        /\ task'[t].pane = p /\ task'[t].del = {}
    BY <2>3 DEF Idle
  <2> QED BY <2>2, <2>4 DEF TaskOwns, Opening, At
<1>6. CASE CloseWindow(t)
  <2>1. PICK s \in sessions : \E w \in WinsOf(s) :
          Call(t, [Idle EXCEPT !.rpc = "close_window", !.pc = "close_next", !.sess = s, !.del = {w},
                               !.todo = {p \in panes[s] : home[p] = w}])
    BY <1>6 DEF CloseWindow
  <2>2. PICK w \in WinsOf(s) :
          Call(t, [Idle EXCEPT !.rpc = "close_window", !.pc = "close_next", !.sess = s, !.del = {w},
                               !.todo = {p \in panes[s] : home[p] = w}])
    BY <2>1
  <2>3. s \in Sessions /\ w \in Windows /\ owner[w] = s
    BY WinsOfWindows DEF TypeOK, Owned, WinsOwned
  <2>4. owner'[w] = s
    BY <2>3 DEF OwnersKept
  <2>5. task'[t] = [Idle EXCEPT !.rpc = "close_window", !.pc = "close_next", !.sess = s, !.del = {w},
                                !.todo = {p \in panes[s] : home[p] = w}]
    BY <1>c, <2>2
  <2>6. /\ task'[t].rpc = "close_window" /\ task'[t].pc = "close_next" /\ task'[t].sess = s
        /\ task'[t].del = {w} /\ task'[t].todo = {p \in panes[s] : home[p] = w}
    BY <2>5 DEF Idle
  <2>7. \A p \in task'[t].todo : home'[p] \in Windows /\ owner'[home'[p]] = s
    BY <1>0, <2>3, <2>4, <2>6
  <2> QED BY <2>4, <2>6, <2>7 DEF TaskOwns, Opening, At
<1>7. CASE Kill(t) \/ GcStaleSessions(t)
  BY ZenonT(40), <1>7, <1>c DEF Kill, GcStaleSessions, TaskOwns, Opening, At, Idle
<1>8. CASE CloseSession(t)
  <2>1. PICK s \in Sessions :
          Call(t, [Idle EXCEPT !.rpc = "close_session", !.pc = "kill_remove", !.sess = s,
                     !.del = IF s \in sessions THEN WinsOf(s) ELSE {w \in rows : owner[w] = s}])
    BY <1>8 DEF CloseSession
  <2> DEFINE del == IF s \in sessions THEN WinsOf(s) ELSE {w \in rows : owner[w] = s}
  <2>2. \A w \in del : w \in Windows /\ owner[w] = s
    BY WinsOfWindows DEF TypeOK, Owned, WinsOwned
  <2>3. \A w \in del : owner'[w] = s
    BY <2>2 DEF OwnersKept
  <2> HIDE DEF del
  <2>4. task'[t] = [Idle EXCEPT !.rpc = "close_session", !.pc = "kill_remove", !.sess = s, !.del = del]
    BY <1>c, <2>1 DEF del
  <2> QED BY <2>3, <2>4 DEF TaskOwns, Opening, At, Idle
<1> QED BY <1>1, <1>2, <1>3, <1>4, <1>5, <1>6, <1>7, <1>8, <1>9 DEF Request

\* The parts of a frame that a step of the RPC settles: the window, the new pane
\* and the pane to close.
StepOwns(t) ==
  /\ task'[t].pc \in {"window_row", "spawn_pty", "insert", "init_layout", "persist", "emit_spawned"}
       => owner'[task'[t].win] = task'[t].sess
  /\ Opening(t)' => home'[task'[t].pane] = task'[t].win
  /\ task'[t].pc \in {"close_kill", "close_layout"}
       => home'[task'[t].pane] \in Windows /\ owner'[home'[task'[t].pane]] = task'[t].sess

LEMMA StepOwnsSteps ==
  ASSUME Ready, Owned, OwnersKept, HomesKept, NEW t \in Tasks, Step(t)
  PROVE  task'[t] = Idle \/ StepOwns(t)
<1> USE DEF Ready
<1>0. /\ Typed /\ task[t] \in Frames /\ FrameOK(t) /\ TaskOwns(t)
      /\ owner \in [Windows -> Sessions \cup {None}]
  BY AtFrame DEF TypeOK, Typed, Owned
<1>r. ASSUME Return(t) PROVE task'[t] = Idle
  BY <1>0, <1>r DEF Return, Typed
<1>g. ASSUME NEW pc, Goto(t, pc)
      PROVE  /\ task'[t].pc = pc /\ task'[t].sess = task[t].sess /\ task'[t].win = task[t].win
             /\ task'[t].pane = task[t].pane /\ task'[t].next = task[t].next
  BY <1>0, <1>g DEF Goto, Typed, Frames
<1>n. ASSUME NEW pc, Goto(t, pc),
             pc \notin {"window_row", "spawn_pty", "insert", "init_layout", "persist", "emit_spawned",
                        "split_layout", "close_kill", "close_layout"}
      PROVE  StepOwns(t)
  BY <1>g, <1>n DEF StepOwns, Opening, At
<1>w. ASSUME NEW s \in Sessions, NEW w \in WinsOf(s) PROVE owner'[w] = s
  BY <1>0, WinsOfWindows DEF Owned, WinsOwned, OwnersKept
<1>1. CASE PushWindow(t)
  <2>1. task[t].win \in Windows
    BY <1>0, <1>1, StageRpc DEF PushWindow, At, FrameOK
  <2>2. owner'[task[t].win] = task[t].sess
    BY <1>0, <1>1, <2>1 DEF PushWindow
  <2> QED BY <1>1, <1>g, <2>2 DEF PushWindow, StepOwns, Opening, At
<1>2. CASE UpsertWindow(t) \/ OpenLookup(t)
  BY <1>2, <1>n, <1>r DEF UpsertWindow, OpenLookup
<1>3. CASE OpenWindow(t)
  <2>1. task[t].sess \in Sessions
    BY <1>0, <1>3, StageRpc DEF OpenWindow, At, OpenPcs, Opens, FrameOK
  <2>2. \/ task'[t] = Idle
        \/ task'[t].pc = "spawn_pty" /\ task'[t].sess = task[t].sess /\ task'[t].win \in WinsOf(task[t].sess)
    <3>1. ASSUME wins[task[t].sess] # <<>>,
                 task' = [task EXCEPT ![t].pc = "spawn_pty", ![t].win = Head(wins[task[t].sess])]
          PROVE  task'[t].pc = "spawn_pty" /\ task'[t].sess = task[t].sess /\ task'[t].win \in WinsOf(task[t].sess)
      BY <1>0, <2>1, <3>1, WinsOfWindows DEF Typed, Frames
    <3> QED BY <1>3, <1>g, <1>r, <3>1 DEF OpenWindow
  <2> QED BY <1>w, <2>1, <2>2 DEF StepOwns, Opening, At
<1>4. CASE SpawnPty(t)
  <2>1. task[t].pc = "spawn_pty" /\ task[t].win \in Windows /\ task[t].sess \in Sessions
    BY <1>0, <1>4, StageRpc DEF SpawnPty, At, OpenPcs, Opens, FrameOK
  <2>2. owner'[task[t].win] = task[t].sess
    BY <1>0, <2>1 DEF TaskOwns, OwnersKept
  <2>3. ASSUME NEW p \in Panes, home' = [home EXCEPT ![p] = task[t].win],
               task' = [task EXCEPT ![t].pc = "insert", ![t].pane = p]
        PROVE  StepOwns(t)
    <3>1. /\ task'[t].pc = "insert" /\ task'[t].pane = p /\ task'[t].win = task[t].win
          /\ task'[t].sess = task[t].sess
      BY <1>0, <2>3 DEF Typed, Frames
    <3>2. home'[p] = task[t].win
      BY <2>3 DEF TypeOK
    <3> QED BY <2>2, <3>1, <3>2 DEF StepOwns
  <2> QED BY <1>4, <1>r, <2>3 DEF SpawnPty
<1>o. ASSUME Opening(t), task[t].pc # "split_layout"
      PROVE  owner'[task[t].win] = task[t].sess /\ home'[task[t].pane] = task[t].win
  <2>1. task[t].rpc \in Opens
    BY <1>0, <1>o, StageRpc DEF Opening, At, OpenPcs, FrameOK, Opens
  <2>2. task[t].win \in Windows /\ task[t].pane \in Panes /\ task[t].sess \in Sessions
    BY <1>0, <1>o, <2>1 DEF FrameOK, Opening, At, Opens
  <2>3. owner[task[t].win] = task[t].sess /\ home[task[t].pane] = task[t].win
    BY <1>0, <1>o DEF Opening, At, TaskOwns
  <2> QED BY <2>2, <2>3 DEF HomesKept, OwnersKept
<1>5. CASE InsertPane(t)
  BY <1>5, <1>g, <1>o DEF InsertPane, Opening, At, StepOwns
<1>6. CASE InitLayout(t)
  <2>1. owner'[task[t].win] = task[t].sess /\ home'[task[t].pane] = task[t].win
    BY <1>6, <1>o DEF InitLayout, Opening, At
  <2>2. ASSUME task' = [task EXCEPT ![t].pc = "persist", ![t].next = "emit_spawned", ![t].snap = {task[t].pane}]
        PROVE  StepOwns(t)
    <3>1. /\ task'[t].pc = "persist" /\ task'[t].pane = task[t].pane /\ task'[t].win = task[t].win
          /\ task'[t].sess = task[t].sess
      BY <1>0, <2>2 DEF Typed, Frames
    <3> QED BY <2>1, <3>1 DEF StepOwns
  <2> QED BY <1>6, <1>g, <2>1, <2>2 DEF InitLayout, StepOwns
<1>7. CASE PersistLayout(t)
  <2>1. CASE task[t].next = "emit_spawned"
    BY <1>7, <1>g, <1>o, <2>1 DEF PersistLayout, Opening, At, StepOwns
  <2>2. CASE task[t].next = "emit_layout"
    BY <1>7, <1>n, <2>2 DEF PersistLayout
  <2> QED BY <1>0, <1>7, <2>1, <2>2 DEF FrameOK, PersistLayout, At
<1>8. CASE EmitSpawned(t)
  BY <1>8, <1>g, <1>r, <1>o DEF EmitSpawned, Opening, At, StepOwns
<1>9. CASE SplitLayout(t)
  <2>1. /\ task'[t].pc = "persist" /\ task'[t].next = "emit_layout"
        /\ task'[t].win = home[task[t].parent] /\ task'[t].sess = task[t].sess
    BY <1>0, <1>9 DEF SplitLayout, Typed, Frames
  <2>2. task[t].rpc = "split"
    BY <1>9, StageRpc DEF SplitLayout, At
  <2>3. owner'[home[task[t].parent]] = task[t].sess
    BY <1>0, <2>2 DEF TaskOwns, FrameOK, OwnersKept
  <2> QED BY <2>1, <2>3 DEF StepOwns, Opening, At
<1>10. CASE EmitLayout(t) \/ EvictIfEmpty(t)
  BY <1>10, <1>n, <1>r DEF EmitLayout, EvictIfEmpty, CloseReturn
<1>11. CASE CloseKill(t)
  <2>1. task[t].rpc \in Closes /\ task[t].pane \in Panes /\ task[t].sess \in Sessions
    BY <1>0, <1>11, StageRpc DEF CloseKill, At, FrameOK, Closes
  <2>2. home'[task[t].pane] \in Windows /\ owner'[home'[task[t].pane]] = task[t].sess
    BY <1>0, <1>11, <2>1 DEF CloseKill, At, TaskOwns, HomesKept, OwnersKept
  <2> QED BY <1>11, <1>g, <1>n, <1>r, <2>2 DEF CloseKill, CloseReturn, StepOwns, Opening, At
<1>12. CASE CloseLayout(t)
  <2>1. task[t].sess \in Sessions
    BY <1>0, <1>12, StageRpc DEF CloseLayout, At, FrameOK, Closes
  <2>2. \/ Goto(t, "evict")
        \/ /\ task'[t].pc = "persist" /\ task'[t].next = "emit_layout"
           /\ task'[t].win \in WinsOf(task[t].sess) /\ task'[t].sess = task[t].sess
    BY <1>0, <1>12 DEF CloseLayout, Typed, Frames
  <2> QED BY <1>n, <1>w, <2>1, <2>2 DEF StepOwns, Opening, At
<1>13. CASE CloseWindowNext(t)
  <2>1. ASSUME NEW p \in task[t].todo,
               task' = [task EXCEPT ![t].pc = IF Listed(p) THEN "close_kill" ELSE "close_next",
                                    ![t].todo = @ \ {p}, ![t].pane = p]
        PROVE  StepOwns(t)
    <3>1. /\ task'[t].pc \in {"close_kill", "close_next"} /\ task'[t].pane = p
          /\ task'[t].sess = task[t].sess
      BY <1>0, <2>1 DEF Typed, Frames
    <3>2. task[t].rpc = "close_window" /\ task[t].sess \in Sessions /\ p \in Panes
      BY <1>0, <1>13, StageRpc DEF CloseWindowNext, At, FrameOK
    <3>3. home'[p] \in Windows /\ owner'[home'[p]] = task[t].sess
      BY <1>0, <3>2 DEF TaskOwns, HomesKept, OwnersKept
    <3> QED BY <3>1, <3>3 DEF StepOwns, Opening, At
  <2> QED BY <1>13, <1>n, <2>1 DEF CloseWindowNext
<1>14. CASE CloseWindowRemove(t) \/ CloseWindowEmpty(t) \/ CloseWindowDrop(t) \/ DeleteRows(t)
  BY <1>14, <1>n, <1>r DEF CloseWindowRemove, CloseWindowEmpty, CloseWindowDrop, DeleteRows
<1>15. CASE GcNext(t)
  <2>1. ASSUME NEW s, task' = [task EXCEPT ![t].pc = "kill_remove", ![t].sess = s, ![t].todo = @ \ {s}]
        PROVE  StepOwns(t)
    <3>1. task'[t].pc = "kill_remove"
      BY <1>0, <2>1 DEF Typed, Frames
    <3> QED BY <3>1 DEF StepOwns, Opening, At
  <2> QED BY <1>15, <1>r, <2>1 DEF GcNext
<1>16. CASE KillRemove(t) \/ KillPanes(t)
  BY <1>16, <1>n DEF KillRemove, KillPanes, KillReturn
<1> QED BY <1>1, <1>2, <1>3, <1>4, <1>5, <1>6, <1>7, <1>8, <1>9, <1>10, <1>11, <1>12, <1>13, <1>14,
           <1>15, <1>16 DEF Step

LEMMA TaskOwnsStep ==
  ASSUME Ready, Owned, OwnersKept, HomesKept, NEW t \in Tasks, Step(t)
  PROVE  TaskOwns(t)'
<1> USE DEF Ready
<1>0. /\ Typed /\ task[t] \in Frames /\ FrameOK(t) /\ TaskOwns(t)
      /\ owner \in [Windows -> Sessions \cup {None}]
  BY AtFrame DEF TypeOK, Typed, Owned
<1>1. CASE task'[t] = Idle
  BY <1>1 DEF TaskOwns, Opening, At, Idle
<1>2. CASE task'[t] # Idle
  <2>1. StepOwns(t) /\ StepKeepsFrame(t)
    BY <1>0, <1>2, StepKeeps, StepOwnsSteps
  <2>2. GcNext(t) => task[t].rpc = "gc"
    BY StageRpc DEF GcNext, At
  <2>3. task'[t].rpc = "split" => owner'[home'[task'[t].parent]] = task'[t].sess
    BY <1>0, <2>1, <2>2 DEF StepKeepsFrame, TaskOwns, FrameOK, HomesKept, OwnersKept
  <2>4. ASSUME task'[t].rpc = "close_window", NEW p \in task'[t].todo
        PROVE  home'[p] \in Windows /\ owner'[home'[p]] = task'[t].sess
    <3>1. task[t].rpc = "close_window" /\ task'[t].sess = task[t].sess
      BY <2>1, <2>2, <2>4 DEF StepKeepsFrame
    <3>2. task'[t].todo \subseteq task[t].todo
      <4>1. CASE CloseWindowNext(t)
        <5>1. ASSUME NEW q, task' = [task EXCEPT ![t].pc = IF Listed(q) THEN "close_kill" ELSE "close_next",
                                                 ![t].todo = @ \ {q}, ![t].pane = q]
              PROVE  task'[t].todo \subseteq task[t].todo
          BY <1>0, <5>1 DEF Typed, Frames
        <5>2. ASSUME Goto(t, "close_remove") PROVE task'[t].todo = task[t].todo
          BY <1>0, <5>2 DEF Goto, Typed, Frames
        <5> QED BY <4>1, <5>1, <5>2 DEF CloseWindowNext
      <4> QED BY <2>1, <2>2, <3>1, <4>1 DEF StepKeepsFrame
    <3>3. task[t].sess \in Sessions /\ task[t].todo \subseteq Panes
      BY <1>0, <3>1 DEF FrameOK
    <3>4. home[p] \in Windows /\ owner[home[p]] = task[t].sess
      BY <1>0, <2>4, <3>1, <3>2 DEF TaskOwns
    <3> QED BY <2>4, <3>1, <3>2, <3>3, <3>4 DEF HomesKept, OwnersKept
  <2>5. task'[t].rpc \notin {"close_window", "close_session"} => task'[t].del = {}
    BY <1>0, <2>1 DEF StepKeepsFrame, TaskOwns
  <2>6. ASSUME NEW w \in task'[t].del PROVE owner'[w] = task'[t].sess
    <3>1. task[t].rpc \in {"close_window", "close_session"} /\ w \in task[t].del
      BY <1>0, <2>1, <2>6 DEF StepKeepsFrame, TaskOwns
    <3>2. task'[t].sess = task[t].sess /\ task[t].sess \in Sessions
      BY <1>0, <2>1, <2>2, <3>1 DEF StepKeepsFrame, FrameOK
    <3>3. w \in Windows /\ owner[w] = task[t].sess
      BY <1>0, <3>1 DEF TaskOwns, Frames
    <3> QED BY <3>2, <3>3 DEF OwnersKept
  <2> QED BY <2>1, <2>3, <2>4, <2>5, <2>6 DEF StepOwns, TaskOwns
<1> QED BY <1>1, <1>2

\* Ownership is an invariant.
LEMMA OwnedInvariant == Spec => [](Ready /\ Owned)
<1>1. Init => Owned
  <2> SUFFICES ASSUME Init PROVE Owned
    OBVIOUS
  <2>1. WinsOwned
    <3>1. \A s \in Sessions : wins[s] = <<>>
      BY DEF Init
    <3>2. DOMAIN <<>> = {}
      OBVIOUS
    <3> QED BY <3>1, <3>2 DEF WinsOwned, WinsOf, Distinct
  <2>2. HomeOwned /\ PanesOwned
    BY NoneAssumption DEF Init, HomeOwned, PanesOwned
  <2>3. PushFresh /\ \A t \in Tasks : TaskOwns(t)
    BY DEF Init, PushFresh, TaskOwns, Opening, At, Idle
  <2> QED BY <2>1, <2>2, <2>3 DEF Owned
<1>2. ASSUME Ready, Owned, [Next]_vars PROVE Owned'
  <2>1. OwnersKept /\ HomesKept
    BY <1>2, OwnerEffect
  <2>2. WinsOwned' /\ HomeOwned' /\ PanesOwned' /\ PushFresh'
    BY <1>2, WinsOwnedStep, PanesOwnedStep, PushFreshStep
  <2>3. \A t \in Tasks : TaskOwns(t)'
    <3>1. ASSUME NEW v \in Tasks, Request(v) \/ Step(v), NEW t \in Tasks PROVE TaskOwns(t)'
      <4>1. Others(v)
        BY <1>2, <3>1, TaskFrames DEF FrameEffect, Ready
      <4>2. CASE t = v
        BY <1>2, <2>1, <3>1, <4>2, TaskOwnsRequest, TaskOwnsStep
      <4>3. CASE t # v
        BY <1>2, <2>1, <4>1, <4>3, TaskOwnsKept DEF Others
      <4> QED BY <4>2, <4>3
    <3>2. ASSUME task' = task, NEW t \in Tasks PROVE TaskOwns(t)'
      BY <1>2, <2>1, <3>2, TaskOwnsKept
    <3> QED BY <1>2, <3>1, <3>2, Writers
  <2> QED BY <2>2, <2>3 DEF Owned
<1>3. Ready /\ Owned /\ [Next]_vars => Owned'
  BY <1>2
<1>4. Spec => []Ready
  BY TypeCorrect DEF Ready
<1> QED BY <1>1, <1>3, <1>4, PTL DEF Spec

-----------------------------------------------------------------------------
(* An empty session is evicted *)

\* A pane is inserted by the RPC that opens it, and by no other step.
LEMMA InsertedSource ==
  ASSUME Ready, Owned, [Next]_vars, NEW p \in Panes, Inserted(p)'
  PROVE  \/ Inserted(p) /\ home'[p] = home[p] /\ home[p] \in Windows
         \/ \E t \in Tasks : InsertPane(t) /\ task[t].pane = p
<1> USE DEF Ready
<1>0. /\ Typed /\ home \in [Panes -> Windows \cup {None}] /\ home'[p] # None
      /\ \A t \in Tasks : ~(task'[t].pc = "insert" /\ task'[t].pane = p)
  BY DEF TypeOK, Typed, Inserted, At
<1>1. home'[p] = home[p] /\ home[p] \in Windows
  <2>1. ASSUME NEW t \in Tasks, SpawnPty(t) PROVE home'[p] = home[p]
    <3>1. ASSUME NEW q \in Panes, home' = [home EXCEPT ![q] = task[t].win],
                 task' = [task EXCEPT ![t].pc = "insert", ![t].pane = q]
          PROVE  home'[p] = home[p]
      <4>1. task'[t].pc = "insert" /\ task'[t].pane = q
        BY <1>0, <3>1 DEF Typed, Frames
      <4> QED BY <1>0, <3>1, <4>1
    <3> QED BY <2>1, <3>1 DEF SpawnPty
  <2>2. home'[p] = home[p]
    BY <2>1, Writers
  <2> QED BY <1>0, <2>2
<1>2. CASE \E t \in Tasks : At(t, "insert") /\ task[t].pane = p
  <2>1. PICK t \in Tasks : task[t].pc = "insert" /\ task[t].pane = p
    BY <1>2 DEF At
  <2>2. task'[t] # task[t]
    BY <1>0, <2>1
  <2>3. PICK v \in Tasks : Request(v) \/ Step(v)
    BY <2>2, Writers
  <2>4. v = t
    BY <2>2, <2>3, TaskFrames DEF FrameEffect, Others
  <2>5. ~Request(t)
    BY <2>1, RequestFrame DEF Idle
  <2>6. InsertPane(t)
    BY <2>1, <2>3, <2>4, <2>5 DEF Step, At, PushWindow, UpsertWindow, OpenLookup, OpenWindow, SpawnPty,
       InitLayout, PersistLayout, EmitSpawned, SplitLayout, EmitLayout, CloseKill, CloseLayout,
       EvictIfEmpty, CloseWindowNext, CloseWindowRemove, CloseWindowEmpty, CloseWindowDrop, DeleteRows,
       GcNext, KillRemove, KillPanes
  <2> QED BY <2>1, <2>6
<1>3. CASE \A t \in Tasks : ~(At(t, "insert") /\ task[t].pane = p)
  BY <1>0, <1>1, <1>3 DEF Inserted
<1> QED BY <1>1, <1>2, <1>3

\* A close that took the last pane out goes on until it has evicted the session.
LEMMA ClosingKept ==
  ASSUME Ready, [Next]_vars, NEW s \in Sessions, Closing(s), s \in sessions', panes'[s] = {}
  PROVE  Closing(s)'
<1> USE DEF Ready
<1>0. Typed
  BY DEF TypeOK, Typed
<1>1. PICK t \in Tasks : /\ task[t].sess = s /\ task[t].rpc \in {"close_pane", "close_window"}
                         /\ task[t].pc \in {"close_layout", "persist", "emit_layout", "evict"}
  BY DEF Closing
<1>2. SUFFICES ASSUME task'[t] # task[t] PROVE Closing(s)'
  BY <1>1 DEF Closing
<1>3. PICK v \in Tasks : Request(v) \/ Step(v)
  BY <1>2, Writers
<1>4. v = t
  BY <1>2, <1>3, TaskFrames DEF FrameEffect, Others
<1>5. ~Request(t)
  BY <1>1, RequestFrame DEF Idle
<1>6. CloseLayout(t) \/ PersistLayout(t) \/ EmitLayout(t) \/ EvictIfEmpty(t)
  BY <1>1, <1>3, <1>4, <1>5 DEF Step, At, PushWindow, UpsertWindow, OpenLookup, OpenWindow, SpawnPty,
     InsertPane, InitLayout, EmitSpawned, SplitLayout, CloseKill,
     CloseWindowNext, CloseWindowRemove, CloseWindowEmpty, CloseWindowDrop, DeleteRows,
     GcNext, KillRemove, KillPanes
<1>g. ASSUME NEW pc \in {"emit_layout", "evict"}, Goto(t, pc) PROVE Closing(s)'
  <2>1. task'[t].pc = pc /\ task'[t].sess = s /\ task'[t].rpc = task[t].rpc
    BY <1>0, <1>1, <1>g DEF Goto, Typed, Frames
  <2> QED BY <1>1, <2>1 DEF Closing
<1>7. CASE CloseLayout(t)
  <2>1. \/ Goto(t, "evict")
        \/ task'[t].pc = "persist" /\ task'[t].sess = s /\ task'[t].rpc = task[t].rpc
    BY <1>0, <1>1, <1>7 DEF CloseLayout, Typed, Frames
  <2> QED BY <1>1, <1>g, <2>1 DEF Closing
<1>8. CASE PersistLayout(t)
  <2>1. task[t].next = "emit_layout"
    BY <1>1, <1>8, AtFrame DEF PersistLayout, At, FrameOK, Opens
  <2> QED BY <1>8, <1>g, <2>1 DEF PersistLayout
<1>9. CASE EmitLayout(t)
  BY <1>1, <1>9, <1>g DEF EmitLayout
<1>10. CASE EvictIfEmpty(t)
  <2>1. panes[s] = {} /\ sessions' = sessions \ {s}
    BY <1>1, <1>10 DEF EvictIfEmpty
  <2> QED BY <2>1
<1> QED BY <1>6, <1>7, <1>8, <1>9, <1>10

LEMMA EvictedStep ==
  ASSUME Ready, Owned, EmptySessionEvicted, [Next]_vars
  PROVE  EmptySessionEvicted'
<1> USE DEF Ready
<1>0. /\ OwnersKept /\ panes \in [Sessions -> SUBSET Panes] /\ owner \in [Windows -> Sessions \cup {None}]
      /\ sessions \subseteq Sessions /\ sessions' \subseteq Sessions
  BY OwnerEffect, TypeStep DEF TypeOK
<1> SUFFICES ASSUME NEW s \in sessions', panes'[s] = {}, NEW p \in Panes, Inserted(p)', owner'[home'[p]] = s
             PROVE  Closing(s)'
  BY DEF EmptySessionEvicted
<1>1. CASE \E t \in Tasks : InsertPane(t) /\ task[t].pane = p
  <2>1. PICK t \in Tasks : InsertPane(t) /\ task[t].pane = p
    BY <1>1
  <2>2. /\ task[t].pc = "insert" /\ task[t].rpc \in Opens /\ task[t].sess \in Sessions
        /\ task[t].win \in Windows
    BY <2>1, StageRpc, AtFrame DEF InsertPane, At, OpenPcs, Opens, FrameOK
  <2>3. owner[home[p]] = task[t].sess /\ home'[p] = home[p] /\ owner' = owner
    BY <2>1, <2>2 DEF Owned, TaskOwns, Opening, At, InsertPane
  <2>4. p \in panes'[s]
    BY <1>0, <2>1, <2>2, <2>3 DEF InsertPane
  <2> QED BY <2>4
<1>2. CASE Inserted(p) /\ home'[p] = home[p] /\ home[p] \in Windows
  <2>1. owner[home[p]] = s /\ s \in Sessions
    BY <1>0, <1>2 DEF Owned, HomeOwned, OwnersKept
  <2>2. CASE s \notin sessions
    <3>1. ASSUME NEW t \in Tasks, NewSession(t) PROVE FALSE
      <4>1. PICK x \in Sessions : (\A v \in Windows : owner[v] # x) /\ sessions' = sessions \cup {x}
        BY <3>1 DEF NewSession
      <4> QED BY <1>2, <2>1, <2>2, <4>1
    <3> QED BY <2>2, <3>1, Writers DEF EvictIfEmpty, CloseWindowDrop, KillRemove, RemovePane
  <2>3. CASE s \in sessions /\ panes[s] = {}
    <3>1. Closing(s)
      BY <1>2, <2>1, <2>3 DEF EmptySessionEvicted
    <3> QED BY <2>1, <3>1, ClosingKept
  <2>4. CASE s \in sessions /\ panes[s] # {}
    <3>1. ASSUME NEW t \in Tasks, InsertPane(t) PROVE FALSE
      <4>1. task[t].sess \in Sessions
        BY <3>1, StageRpc, AtFrame DEF InsertPane, At, OpenPcs, Opens, FrameOK
      <4> QED BY <1>0, <2>1, <2>4, <3>1, <4>1 DEF InsertPane
    <3>2. ASSUME NEW t \in Tasks, CloseKill(t) PROVE Closing(s)'
      <4>1. task[t].sess \in Sessions /\ task[t].rpc \in Closes /\ task[t] \in Frames
        BY <3>2, StageRpc, AtFrame DEF CloseKill, At, Closes, FrameOK, TypeOK
      <4>2. task[t].sess = s /\ Goto(t, "close_layout")
        BY <1>0, <2>1, <2>4, <3>2, <4>1 DEF CloseKill
      <4>3. task'[t].pc = "close_layout" /\ task'[t].sess = s /\ task'[t].rpc = task[t].rpc
        BY <4>2 DEF Goto, TypeOK, Frames
      <4> QED BY <4>1, <4>3 DEF Closing, Closes
    <3>3. ASSUME NEW q \in Panes, RemovePane(q) PROVE FALSE
      <4>1. panes'[s] = panes[s] \ {q} /\ (q \in panes[s] => panes[s] # {q})
        BY <2>1, <2>4, <3>3 DEF RemovePane
      <4> QED BY <1>0, <2>4, <4>1
    <3> QED BY <2>4, <3>1, <3>2, <3>3, Writers
  <2> QED BY <2>2, <2>3, <2>4
<1> QED BY <1>1, <1>2, InsertedSource

\* A session whose last pane is gone leaves the registry, or the close that emptied
\* it is about to evict it: for any number of tasks that open, close and kill at the
\* same time, and of shells that exit meanwhile.
THEOREM Evicted == Spec => []EmptySessionEvicted
<1>1. Init => EmptySessionEvicted
  BY DEF Init, EmptySessionEvicted
<1>2. Ready /\ Owned /\ EmptySessionEvicted /\ [Next]_vars => EmptySessionEvicted'
  BY EvictedStep
<1> QED BY <1>1, <1>2, OwnedInvariant, PTL DEF Spec

-----------------------------------------------------------------------------
(* One RPC at a time: what is on disk *)

InRegistry(w) == \E s \in sessions : w \in WinsOf(s)

\* A window nobody has created has no tree, and no stored one.
UnownedEmpty == \A w \in Windows : owner[w] = None => layout[w] = {} /\ stored[w] = {}

\* kill_session has taken the session out of the registry, and close_window its one
\* window, before the rows are deleted.
OneWindow  == \A t \in Tasks : task[t].rpc = "close_window" => \E w \in Windows : task[t].del = {w}
KilledGone == \A t \in Tasks : At(t, "kill_panes") => task[t].sess \notin sessions
DeletedGone ==
  \A t \in Tasks : task[t].pc \in {"close_empty", "close_drop", "delete_rows"} =>
    \A w \in task[t].del : ~InRegistry(w)

\* A window that is in the registry has its row, or spawn is about to write it.
RowsKept ==
  \A w \in Windows : InRegistry(w) =>
    w \in rows \/ \E t \in Tasks : At(t, "window_row") /\ task[t].win = w

\* A tree that differs from its row is about to be written, as it is.
StoredKept ==
  \A w \in Windows : InRegistry(w) =>
    stored[w] = layout[w] \/ \E t \in Tasks : At(t, "persist") /\ task[t].win = w
PersistCurrent ==
  \A t \in Tasks : At(t, "persist") => task[t].snap = layout[task[t].win]

OnDisk == KilledGone /\ DeletedGone /\ RowsKept /\ StoredKept /\ PersistCurrent

\* t is the only task in an RPC.
Lone(t) ==
  \A u \in Tasks : u # t => task[u].pc = "idle" /\ task'[u].pc = "idle" /\ task'[u].rpc = "none"

LEMMA LoneTask ==
  ASSUME Ready, Serial, NEW t \in Tasks, Request(t) \/ Step(t)
  PROVE  Lone(t)
<1> USE DEF Ready
<1>1. Others(t) /\ task[t] \in Frames
  BY TaskFrames DEF FrameEffect, TypeOK
<1>2. t \in scn.tasks
  <2>1. CASE Request(t)
    BY <2>1 DEF Request, NewSession, NewWindow, OpenPane, OpenPaneSplit, SetPaneWeight, ClosePane, CloseWindow,
       Kill, CloseSession, GcStaleSessions, Call
  <2>2. CASE Step(t)
    <3>1. task[t].pc # "idle"
      BY <2>2 DEF Step, At, PushWindow, UpsertWindow, OpenLookup, OpenWindow, SpawnPty, InsertPane,
       InitLayout, PersistLayout, EmitSpawned, SplitLayout, EmitLayout, CloseKill, CloseLayout,
       EvictIfEmpty, CloseWindowNext, CloseWindowRemove, CloseWindowEmpty, CloseWindowDrop, DeleteRows,
       GcNext, KillRemove, KillPanes
    <3> QED BY <3>1, AtFrame DEF FrameOK
  <2> QED BY <2>1, <2>2
<1>3. ASSUME NEW u \in Tasks, u # t
      PROVE  task[u].pc = "idle" /\ task'[u].pc = "idle" /\ task'[u].rpc = "none"
  <2>1. task[u].rpc = "none"
    BY <1>2, <1>3, AtFrame DEF FrameOK, Serial
  <2>2. task[u] = Idle
    BY <2>1, AtFrame DEF FrameOK
  <2> QED BY <1>1, <1>3, <2>2 DEF Others, Idle
<1> QED BY <1>3 DEF Lone

\* The step a task takes next.
LEMMA StepAt ==
  ASSUME NEW t \in Tasks, Step(t)
  PROVE  /\ task[t].pc # "idle"
         /\ task[t].pc = "window_row" => UpsertWindow(t)
         /\ task[t].pc = "persist" => PersistLayout(t)
         /\ task[t].pc = "close_layout" => CloseLayout(t)
         /\ task[t].pc = "kill_panes" => KillPanes(t)
         /\ task[t].pc = "close_empty" => CloseWindowEmpty(t)
         /\ task[t].pc = "close_drop" => CloseWindowDrop(t)
         /\ task[t].pc = "delete_rows" => DeleteRows(t)
BY DEF Step, At, PushWindow, UpsertWindow, OpenLookup, OpenWindow, SpawnPty, InsertPane,
   InitLayout, PersistLayout, EmitSpawned, SplitLayout, EmitLayout, CloseKill, CloseLayout,
   EvictIfEmpty, CloseWindowNext, CloseWindowRemove, CloseWindowEmpty, CloseWindowDrop, DeleteRows,
   GcNext, KillRemove, KillPanes

\* A window comes into the registry new.
LEMMA InRegistrySource ==
  ASSUME Ready, Owned, [Next]_vars, NEW w \in Windows, InRegistry(w)'
  PROVE  \/ InRegistry(w)
         \/ /\ owner[w] = None
            /\ \E t \in Tasks : /\ NewSession(t) \/ PushWindow(t)
                                /\ task'[t].pc = "window_row" /\ task'[t].win = w
<1> USE DEF Ready
<1>0. /\ Typed /\ wins \in [Sessions -> Seq(Windows)] /\ sessions \subseteq Sessions
      /\ sessions' \subseteq Sessions
  BY TypeStep DEF TypeOK, Typed
<1>1. PICK s \in sessions' : w \in Elems(wins'[s])
  BY WinsOfElems DEF InRegistry, WinsOf, Elems
<1>2. s \in Sessions
  BY <1>0
<1>i. ASSUME s \in sessions, w \in Elems(wins[s]) PROVE InRegistry(w)
  BY <1>i, WinsOfElems DEF InRegistry
<1>3. ASSUME NEW t \in Tasks, NewSession(t)
      PROVE  \/ InRegistry(w)
             \/ owner[w] = None /\ task'[t].pc = "window_row" /\ task'[t].win = w
  <2>1. PICK x \in Sessions, v \in Windows :
          /\ v = Fresh({y \in scn.windows : owner[y] = None /\ \A u \in Tasks : task[u].win # y})
          /\ Call(t, [Idle EXCEPT !.rpc = "spawn", !.pc = "window_row", !.sess = x, !.win = v])
          /\ sessions' = sessions \cup {x} /\ wins' = [wins EXCEPT ![x] = <<v>>]
    BY <1>3 DEF NewSession
  <2>2. owner[v] = None
    BY <2>1, FreshMember
  <2>3. task'[t] = [Idle EXCEPT !.rpc = "spawn", !.pc = "window_row", !.sess = x, !.win = v]
    BY <1>0, <2>1 DEF Call, Typed
  <2>4. task'[t].pc = "window_row" /\ task'[t].win = v
    BY <2>3 DEF Idle
  <2>5. CASE s = x
    <3>1. wins'[s] = <<v>>
      BY <1>0, <1>2, <2>1, <2>5
    <3>2. w = v
      BY <1>1, <3>1 DEF Elems
    <3> QED BY <2>2, <2>4, <3>2
  <2>6. CASE s # x
    BY <1>0, <1>1, <1>2, <1>i, <2>1, <2>6
  <2> QED BY <2>5, <2>6
<1>4. ASSUME NEW t \in Tasks, PushWindow(t)
      PROVE  \/ InRegistry(w)
             \/ owner[w] = None /\ task'[t].pc = "window_row" /\ task'[t].win = w
  <2>1. /\ task[t].win \in Windows /\ task[t].sess \in Sessions /\ owner[task[t].win] = None
        /\ task'[t].pc = "window_row" /\ task'[t].win = task[t].win
    BY <1>0, <1>4, StageRpc, AtFrame DEF PushWindow, At, FrameOK, Owned, PushFresh, Goto, Typed, Frames
  <2>2. sessions' = sessions /\ wins' = [wins EXCEPT ![task[t].sess] = Append(@, task[t].win)]
    BY <1>4 DEF PushWindow
  <2>3. CASE s = task[t].sess
    <3>1. wins'[s] = Append(wins[s], task[t].win)
      BY <1>0, <1>2, <2>2, <2>3
    <3>2. w \in Elems(wins[s]) \/ w = task[t].win
      BY <1>0, <1>1, <1>2, <2>1, <3>1 DEF Elems
    <3> QED BY <1>i, <2>1, <2>2, <3>2
  <2>4. CASE s # task[t].sess
    BY <1>0, <1>1, <1>2, <1>i, <2>1, <2>2, <2>4
  <2> QED BY <2>3, <2>4
<1>5. ASSUME NEW t \in Tasks, CloseWindowRemove(t) PROVE InRegistry(w)
  <2>1. sessions' = sessions /\ (wins' = wins \/ \E v : wins' = [wins EXCEPT ![task[t].sess] = Retain(@, v)])
    BY <1>5 DEF CloseWindowRemove
  <2>2. ASSUME NEW v, wins' = [wins EXCEPT ![task[t].sess] = Retain(@, v)] PROVE w \in Elems(wins[s])
    <3>1. wins'[s] = wins[s] \/ wins'[s] = Retain(wins[s], v)
      BY <1>0, <1>2, <2>2
    <3> QED BY <1>0, <1>1, <1>2, <3>1, Retained
  <2> QED BY <1>1, <1>i, <2>1, <2>2
<1>6. ASSUME wins' = wins PROVE InRegistry(w)
  <2>1. ASSUME NEW t \in Tasks, NewSession(t) PROVE InRegistry(w)
    <3>1. PICK x \in Sessions, v \in Windows : sessions' = sessions \cup {x} /\ wins' = [wins EXCEPT ![x] = <<v>>]
                                             /\ (\A y \in Windows : owner[y] # x)
      BY <2>1 DEF NewSession
    <3>2. s # x
      BY <1>1, <1>2, <1>6, <3>1, WinsOfElems, WinsOfWindows DEF Owned, WinsOwned
    <3> QED BY <1>1, <1>6, <1>i, <3>1, <3>2
  <2>2. s \in sessions \/ \E t \in Tasks : NewSession(t)
    BY <1>1, Writers DEF EvictIfEmpty, CloseWindowDrop, KillRemove, RemovePane
  <2> QED BY <1>1, <1>6, <1>i, <2>1, <2>2
<1> QED BY <1>3, <1>4, <1>5, <1>6, Writers

\* A layout changes under the lock, in a window of the RPC's session, and the RPC
\* goes on to write the tree it made.
LayoutWritten(t) ==
  /\ task[t].pc \in {"init_layout", "split_layout", "close_layout"}
  /\ task'[t].pc = "persist" /\ task'[t].win \in Windows /\ owner[task'[t].win] \in Sessions
  /\ layout' = [layout EXCEPT ![task'[t].win] = task'[t].snap]

LEMMA LayoutEffect ==
  ASSUME Ready, Owned, NEW t \in Tasks, InitLayout(t) \/ SplitLayout(t) \/ CloseLayout(t)
  PROVE  (layout' = layout /\ task'[t].pc # "persist") \/ LayoutWritten(t)
<1> USE DEF Ready
<1>0. /\ Typed /\ task[t] \in Frames /\ FrameOK(t) /\ TaskOwns(t)
      /\ layout \in [Windows -> SUBSET Panes]
  BY AtFrame DEF TypeOK, Typed, Owned
<1>g. ASSUME NEW pc, Goto(t, pc) PROVE task'[t].pc = pc
  BY <1>0, <1>g DEF Goto, Typed, Frames
<1>1. CASE InitLayout(t)
  <2>1. /\ task[t].pc = "init_layout" /\ task[t].win \in Windows /\ task[t].sess \in Sessions
        /\ owner[task[t].win] = task[t].sess
    BY <1>0, <1>1, StageRpc DEF InitLayout, At, OpenPcs, Opens, FrameOK, TaskOwns
  <2>2. ASSUME layout' = [layout EXCEPT ![task[t].win] = {task[t].pane}],
               task' = [task EXCEPT ![t].pc = "persist", ![t].next = "emit_spawned", ![t].snap = {task[t].pane}]
        PROVE  LayoutWritten(t)
    <3>1. task'[t].pc = "persist" /\ task'[t].win = task[t].win /\ task'[t].snap = {task[t].pane}
      BY <1>0, <2>2 DEF Typed, Frames
    <3> QED BY <2>1, <2>2, <3>1 DEF LayoutWritten
  <2> QED BY <1>1, <1>g, <2>2 DEF InitLayout
<1>2. CASE SplitLayout(t)
  <2> DEFINE w == home[task[t].parent]
             tree == Split(layout[w], task[t].parent, task[t].pane)
  <2>1. /\ task[t].pc = "split_layout" /\ w \in Windows /\ owner[w] \in Sessions
    BY <1>0, <1>2, StageRpc DEF SplitLayout, At, FrameOK, Owned, HomeOwned
  <2>2. /\ layout' = [layout EXCEPT ![w] = tree]
        /\ task' = [task EXCEPT ![t].pc = "persist", ![t].next = "emit_layout", ![t].snap = tree, ![t].win = w]
    BY <1>2 DEF SplitLayout
  <2> HIDE DEF w, tree
  <2>3. task'[t].pc = "persist" /\ task'[t].win = w /\ task'[t].snap = tree
    BY <1>0, <2>2 DEF Typed, Frames
  <2> QED BY <2>1, <2>2, <2>3 DEF LayoutWritten
<1>3. CASE CloseLayout(t)
  <2> DEFINE w == home[task[t].pane]
             tree == CloseLeaf(layout[w], task[t].pane)
  <2>1. /\ task[t].pc = "close_layout" /\ w \in Windows /\ owner[w] = task[t].sess /\ task[t].sess \in Sessions
    BY <1>0, <1>3, StageRpc DEF CloseLayout, At, FrameOK, TaskOwns, Closes
  <2>2. \/ layout' = layout /\ Goto(t, "evict")
        \/ /\ layout' = [layout EXCEPT ![w] = tree]
           /\ task' = [task EXCEPT ![t].pc = "persist", ![t].next = "emit_layout", ![t].snap = tree, ![t].win = w]
    BY <1>3 DEF CloseLayout
  <2> HIDE DEF w, tree
  <2>3. ASSUME task' = [task EXCEPT ![t].pc = "persist", ![t].next = "emit_layout", ![t].snap = tree, ![t].win = w]
        PROVE  task'[t].pc = "persist" /\ task'[t].win = w /\ task'[t].snap = tree
    BY <1>0, <2>3 DEF Typed, Frames
  <2> QED BY <1>g, <2>1, <2>2, <2>3 DEF LayoutWritten
<1> QED BY <1>1, <1>2, <1>3

LEMMA UnownedStep ==
  ASSUME Ready, Owned, UnownedEmpty, [Next]_vars
  PROVE  UnownedEmpty'
<1> USE DEF Ready
<1>0. /\ OwnersKept /\ layout \in [Windows -> SUBSET Panes] /\ stored \in [Windows -> SUBSET Panes]
      /\ owner \in [Windows -> Sessions \cup {None}]
  BY OwnerEffect DEF TypeOK
<1> SUFFICES ASSUME NEW w \in Windows, owner'[w] = None PROVE layout'[w] = {} /\ stored'[w] = {}
  BY DEF UnownedEmpty
<1>1. owner[w] = None /\ layout[w] = {} /\ stored[w] = {}
  BY <1>0, NoneAssumption DEF OwnersKept, UnownedEmpty
<1>2. layout'[w] = layout[w]
  <2>1. ASSUME NEW t \in Tasks, LayoutWritten(t) PROVE layout'[w] = layout[w]
    BY <1>0, <1>1, <2>1, NoneAssumption DEF LayoutWritten
  <2> QED BY <2>1, Writers, LayoutEffect
<1>3. stored'[w] = stored[w]
  <2>1. ASSUME NEW t \in Tasks, PersistLayout(t) PROVE stored'[w] = stored[w]
    <3>1. task[t].pc = "persist" /\ task[t].rpc \notin {"none", "gc"}
      BY <2>1, StageRpc DEF PersistLayout, At, Opens, Closes
    <3>2. task[t].win # w
      BY <1>1, <3>1, AtFrame, NoneAssumption DEF FrameOK, Owned, TaskOwns
    <3> QED BY <1>0, <2>1, <3>2 DEF PersistLayout
  <2> QED BY <2>1, Writers
<1> QED BY <1>1, <1>2, <1>3

LEMMA OneWindowStep ==
  ASSUME Ready, OneWindow, [Next]_vars
  PROVE  OneWindow'
<1> USE DEF Ready
<1>0. Typed
  BY DEF TypeOK, Typed
<1> SUFFICES ASSUME NEW t \in Tasks, task'[t].rpc = "close_window" PROVE \E w \in Windows : task'[t].del = {w}
  BY DEF OneWindow
<1>1. CASE task'[t] = task[t]
  BY <1>1 DEF OneWindow
<1>2. CASE Step(t)
  BY <1>0, <1>2, StepKeeps DEF StepKeepsFrame, Idle, OneWindow
<1>3. CASE Request(t)
  <2>1. ASSUME NEW f, Call(t, f) PROVE task'[t] = f
    BY <1>0, <2>1 DEF Call, Typed
  <2>2. CASE CloseWindow(t)
    <3>1. PICK s \in sessions : \E w \in WinsOf(s) :
            Call(t, [Idle EXCEPT !.rpc = "close_window", !.pc = "close_next", !.sess = s, !.del = {w},
                                 !.todo = {p \in panes[s] : home[p] = w}])
      BY <2>2 DEF CloseWindow
    <3>2. PICK w \in WinsOf(s) :
            Call(t, [Idle EXCEPT !.rpc = "close_window", !.pc = "close_next", !.sess = s, !.del = {w},
                                 !.todo = {p \in panes[s] : home[p] = w}])
      BY <3>1
    <3>3. w \in Windows
      BY WinsOfWindows DEF TypeOK
    <3>4. task'[t] = [Idle EXCEPT !.rpc = "close_window", !.pc = "close_next", !.sess = s, !.del = {w},
                                  !.todo = {p \in panes[s] : home[p] = w}]
      BY <2>1, <3>2
    <3>5. task'[t].del = {w}
      BY <3>4 DEF Idle
    <3> QED BY <3>3, <3>5
  <2>3. ~NewSession(t) /\ ~NewWindow(t)
    BY ZenonT(40), <2>1 DEF NewSession, NewWindow, Idle
  <2>5. ~OpenPane(t) /\ ~OpenPaneSplit(t) /\ ~SetPaneWeight(t)
    BY <2>1 DEF OpenPane, OpenPaneSplit, SetPaneWeight, Idle
  <2>4. ~ClosePane(t) /\ ~Kill(t) /\ ~CloseSession(t) /\ ~GcStaleSessions(t)
    BY <2>1 DEF ClosePane, Kill, CloseSession, GcStaleSessions, Idle
  <2> QED BY <1>3, <2>2, <2>3, <2>4, <2>5 DEF Request
<1>4. ASSUME NEW v \in Tasks, Request(v) \/ Step(v), v # t PROVE task'[t] = task[t]
  BY <1>4, TaskFrames DEF FrameEffect, Others
<1> QED BY <1>1, <1>2, <1>3, <1>4, Writers

\* The step an RPC starts with.
LEMMA RequestEntry ==
  ASSUME Typed, NEW t \in Tasks, Request(t)
  PROVE  /\ task[t].pc = "idle"
         /\ \/ NewSession(t) /\ task'[t].pc = "window_row" /\ task'[t].rpc = "spawn"
            \/ NewWindow(t) /\ task'[t].pc = "push_window" /\ task'[t].rpc = "new_window"
            \/ OpenPane(t) /\ task'[t].pc = "open_lookup" /\ task'[t].rpc = "open_pane"
            \/ OpenPaneSplit(t) /\ task'[t].pc = "open_lookup" /\ task'[t].rpc = "split"
            \/ SetPaneWeight(t) /\ task'[t].pc = "persist" /\ task'[t].rpc = "weight"
            \/ ClosePane(t) /\ task'[t].pc = "close_kill" /\ task'[t].rpc = "close_pane"
            \/ CloseWindow(t) /\ task'[t].pc = "close_next" /\ task'[t].rpc = "close_window"
            \/ Kill(t) /\ task'[t].pc = "kill_remove" /\ task'[t].rpc = "kill"
            \/ CloseSession(t) /\ task'[t].pc = "kill_remove" /\ task'[t].rpc = "close_session"
            \/ GcStaleSessions(t) /\ task'[t].pc = "gc_next" /\ task'[t].rpc = "gc"
<1>c. ASSUME NEW f, Call(t, f) PROVE task'[t] = f /\ task[t].pc = "idle"
  BY <1>c DEF Call, Typed, Idle
<1>1. CASE NewSession(t)
  <2>1. PICK s, w : Call(t, [Idle EXCEPT !.rpc = "spawn", !.pc = "window_row", !.sess = s, !.win = w])
    BY <1>1 DEF NewSession
  <2>2. /\ task'[t] = [Idle EXCEPT !.rpc = "spawn", !.pc = "window_row", !.sess = s, !.win = w]
        /\ task[t].pc = "idle"
    BY <1>c, <2>1
  <2>3. task'[t].pc = "window_row" /\ task'[t].rpc = "spawn"
    BY <2>2 DEF Idle
  <2> QED BY <1>1, <2>2, <2>3
<1>2. CASE NewWindow(t)
  <2>1. PICK s, w : Call(t, [Idle EXCEPT !.rpc = "new_window", !.pc = "push_window", !.sess = s, !.win = w])
    BY <1>2 DEF NewWindow
  <2>2. /\ task'[t] = [Idle EXCEPT !.rpc = "new_window", !.pc = "push_window", !.sess = s, !.win = w]
        /\ task[t].pc = "idle"
    BY <1>c, <2>1
  <2>3. task'[t].pc = "push_window" /\ task'[t].rpc = "new_window"
    BY <2>2 DEF Idle
  <2> QED BY <1>2, <2>2, <2>3
<1>3. CASE OpenPane(t)
  <2>1. PICK s, w : Call(t, [Idle EXCEPT !.rpc = "open_pane", !.pc = "open_lookup", !.sess = s, !.win = w])
    BY <1>3 DEF OpenPane
  <2>2. /\ task'[t] = [Idle EXCEPT !.rpc = "open_pane", !.pc = "open_lookup", !.sess = s, !.win = w]
        /\ task[t].pc = "idle"
    BY <1>c, <2>1
  <2>3. task'[t].pc = "open_lookup" /\ task'[t].rpc = "open_pane"
    BY <2>2 DEF Idle
  <2> QED BY <1>3, <2>2, <2>3
<1>4. CASE OpenPaneSplit(t)
  <2>1. PICK p : Call(t, [Idle EXCEPT !.rpc = "split", !.pc = "open_lookup", !.sess = SessionOf(p),
                               !.win = home[p], !.parent = p])
    BY <1>4 DEF OpenPaneSplit
  <2>2. /\ task'[t] = [Idle EXCEPT !.rpc = "split", !.pc = "open_lookup", !.sess = SessionOf(p),
                               !.win = home[p], !.parent = p]
        /\ task[t].pc = "idle"
    BY <1>c, <2>1
  <2>3. task'[t].pc = "open_lookup" /\ task'[t].rpc = "split"
    BY <2>2 DEF Idle
  <2> QED BY <1>4, <2>2, <2>3
<1>5. CASE SetPaneWeight(t)
  <2>1. PICK p : Call(t, [Idle EXCEPT !.rpc = "weight", !.pc = "persist", !.next = "emit_layout", !.pane = p,
                               !.sess = SessionOf(p), !.win = home[p], !.snap = layout[home[p]]])
    BY <1>5 DEF SetPaneWeight
  <2>2. /\ task'[t] = [Idle EXCEPT !.rpc = "weight", !.pc = "persist", !.next = "emit_layout", !.pane = p,
                               !.sess = SessionOf(p), !.win = home[p], !.snap = layout[home[p]]]
        /\ task[t].pc = "idle"
    BY <1>c, <2>1
  <2>3. task'[t].pc = "persist" /\ task'[t].rpc = "weight"
    BY <2>2 DEF Idle
  <2> QED BY <1>5, <2>2, <2>3
<1>6. CASE ClosePane(t)
  <2>1. PICK p : Call(t, [Idle EXCEPT !.rpc = "close_pane", !.pc = "close_kill", !.sess = SessionOf(p), !.pane = p])
    BY <1>6 DEF ClosePane
  <2>2. /\ task'[t] = [Idle EXCEPT !.rpc = "close_pane", !.pc = "close_kill", !.sess = SessionOf(p), !.pane = p]
        /\ task[t].pc = "idle"
    BY <1>c, <2>1
  <2>3. task'[t].pc = "close_kill" /\ task'[t].rpc = "close_pane"
    BY <2>2 DEF Idle
  <2> QED BY <1>6, <2>2, <2>3
<1>7. CASE CloseWindow(t)
  <2>1. PICK s, w : Call(t, [Idle EXCEPT !.rpc = "close_window", !.pc = "close_next", !.sess = s, !.del = {w},
                               !.todo = {p \in panes[s] : home[p] = w}])
    BY <1>7 DEF CloseWindow
  <2>2. /\ task'[t] = [Idle EXCEPT !.rpc = "close_window", !.pc = "close_next", !.sess = s, !.del = {w},
                               !.todo = {p \in panes[s] : home[p] = w}]
        /\ task[t].pc = "idle"
    BY <1>c, <2>1
  <2>3. task'[t].pc = "close_next" /\ task'[t].rpc = "close_window"
    BY <2>2 DEF Idle
  <2> QED BY <1>7, <2>2, <2>3
<1>8. CASE Kill(t)
  <2>1. PICK s : Call(t, [Idle EXCEPT !.rpc = "kill", !.pc = "kill_remove", !.sess = s])
    BY <1>8 DEF Kill
  <2>2. /\ task'[t] = [Idle EXCEPT !.rpc = "kill", !.pc = "kill_remove", !.sess = s]
        /\ task[t].pc = "idle"
    BY <1>c, <2>1
  <2>3. task'[t].pc = "kill_remove" /\ task'[t].rpc = "kill"
    BY <2>2 DEF Idle
  <2> QED BY <1>8, <2>2, <2>3
<1>9. CASE CloseSession(t)
  <2>1. PICK s : Call(t, [Idle EXCEPT !.rpc = "close_session", !.pc = "kill_remove", !.sess = s,
                     !.del = IF s \in sessions THEN WinsOf(s) ELSE {w \in rows : owner[w] = s}])
    BY <1>9 DEF CloseSession
  <2>2. /\ task'[t] = [Idle EXCEPT !.rpc = "close_session", !.pc = "kill_remove", !.sess = s,
                     !.del = IF s \in sessions THEN WinsOf(s) ELSE {w \in rows : owner[w] = s}]
        /\ task[t].pc = "idle"
    BY <1>c, <2>1
  <2>3. task'[t].pc = "kill_remove" /\ task'[t].rpc = "close_session"
    BY <2>2 DEF Idle
  <2> QED BY <1>9, <2>2, <2>3
<1>10. CASE GcStaleSessions(t)
  <2>1. /\ task'[t] = [Idle EXCEPT !.rpc = "gc", !.pc = "gc_next", !.todo = {s \in sessions : panes[s] = {}}]
        /\ task[t].pc = "idle"
    BY <1>c, <1>10 DEF GcStaleSessions
  <2>2. task'[t].pc = "gc_next" /\ task'[t].rpc = "gc"
    BY <2>1 DEF Idle
  <2> QED BY <1>10, <2>1, <2>2
<1> QED BY <1>1, <1>2, <1>3, <1>4, <1>5, <1>6, <1>7, <1>8, <1>9, <1>10 DEF Request

\* The step an RPC goes on with, where the proofs below need it.
LEMMA StepEntry ==
  ASSUME Ready, NEW t \in Tasks, Step(t)
  PROVE  /\ task'[t].pc \in {"kill_panes", "close_empty", "close_drop", "delete_rows"} =>
              \/ CloseWindowRemove(t) \/ CloseWindowEmpty(t) \/ CloseWindowDrop(t)
              \/ KillRemove(t) \/ KillPanes(t)
         /\ task'[t].pc = "persist" => InitLayout(t) \/ SplitLayout(t) \/ CloseLayout(t)
         /\ task'[t].pc = "window_row" => PushWindow(t)
         /\ task'[t].pc \in {"open_lookup", "open_window"} => OpenLookup(t) \/ UpsertWindow(t)
         /\ task'[t].pc = "spawn_pty" => OpenWindow(t)
         /\ task'[t].pc = "close_remove" => CloseWindowNext(t)
         /\ task'[t].pc = "close_drop" => CloseWindowEmpty(t)
         /\ task'[t].pc = "insert" => SpawnPty(t)
         /\ task'[t].pc = "init_layout" => InsertPane(t)
         /\ task'[t].pc = "emit_spawned" => InitLayout(t) \/ PersistLayout(t)
         /\ task'[t].pc = "split_layout" => EmitSpawned(t)
<1> USE DEF Ready
<1>0. Typed
  BY DEF TypeOK, Typed
<1>g. ASSUME NEW pc, Goto(t, pc) PROVE task'[t].pc = pc
  BY <1>0, <1>g DEF Goto, Typed, Frames
<1>r. ASSUME Return(t) PROVE task'[t].pc = "idle"
  BY <1>0, <1>r DEF Return, Typed, Idle
<1>1. CASE PushWindow(t) \/ UpsertWindow(t) \/ OpenLookup(t) \/ InsertPane(t) \/ EmitSpawned(t)
           \/ EmitLayout(t) \/ EvictIfEmpty(t) \/ DeleteRows(t) \/ CloseKill(t)
  BY <1>g, <1>r, <1>1 DEF PushWindow, UpsertWindow, OpenLookup, InsertPane, EmitSpawned,
     EmitLayout, EvictIfEmpty, DeleteRows, CloseKill, CloseReturn
<1>2. CASE OpenWindow(t)
  <2>1. ASSUME NEW w, task' = [task EXCEPT ![t].pc = "spawn_pty", ![t].win = w] PROVE task'[t].pc = "spawn_pty"
    BY <1>0, <2>1 DEF Typed, Frames
  <2> QED BY <1>g, <1>r, <1>2, <2>1 DEF OpenWindow
<1>3. CASE SpawnPty(t)
  <2>1. ASSUME NEW p, task' = [task EXCEPT ![t].pc = "insert", ![t].pane = p] PROVE task'[t].pc = "insert"
    BY <1>0, <2>1 DEF Typed, Frames
  <2> QED BY <1>r, <1>3, <2>1 DEF SpawnPty
<1>4. CASE InitLayout(t) \/ SplitLayout(t) \/ CloseLayout(t)
  <2>1. task'[t].pc \in {"persist", "evict"} \/ (task'[t].pc = "emit_spawned" /\ InitLayout(t))
    BY <1>0, <1>g, <1>4 DEF InitLayout, SplitLayout, CloseLayout, Typed, Frames
  <2> QED BY <1>4, <2>1
<1>5. CASE PersistLayout(t)
  BY <1>g, <1>5, AtFrame DEF PersistLayout, At, FrameOK
<1>6. CASE CloseWindowNext(t)
  <2>1. ASSUME NEW p, task' = [task EXCEPT ![t].pc = IF Listed(p) THEN "close_kill" ELSE "close_next",
                                           ![t].todo = @ \ {p}, ![t].pane = p]
        PROVE  task'[t].pc \in {"close_kill", "close_next"}
    BY <1>0, <2>1 DEF Typed, Frames
  <2> QED BY <1>g, <1>6, <2>1 DEF CloseWindowNext
<1>7. CASE GcNext(t)
  <2>1. ASSUME NEW s, task' = [task EXCEPT ![t].pc = "kill_remove", ![t].sess = s, ![t].todo = @ \ {s}]
        PROVE  task'[t].pc = "kill_remove"
    BY <1>0, <2>1 DEF Typed, Frames
  <2> QED BY <1>r, <1>7, <2>1 DEF GcNext
<1>8. CASE CloseWindowRemove(t) \/ CloseWindowEmpty(t) \/ CloseWindowDrop(t) \/ KillRemove(t) \/ KillPanes(t)
  BY <1>g, <1>8 DEF CloseWindowRemove, CloseWindowEmpty, CloseWindowDrop, KillRemove, KillPanes, KillReturn
<1> QED BY <1>1, <1>2, <1>3, <1>4, <1>5, <1>6, <1>7, <1>8 DEF Step

\* What a step does when one RPC runs at a time: it is the step of the one task, or
\* one of a shell.
LEMMA SerialStep ==
  ASSUME Ready, Serial, [Next]_vars
  PROVE  \/ \E t \in Tasks : (Request(t) \/ Step(t)) /\ Lone(t)
         \/ task' = task /\ UNCHANGED <<wins, owner, home, layout, rows, stored, signalled, scn>>
            /\ sessions' \subseteq sessions /\ (\A s \in Sessions : panes'[s] \subseteq panes[s])
            /\ \A p \in Panes : proc'[p] = "running" => proc[p] = "running"
<1>1. ASSUME NEW p \in Panes, Exit(p) \/ ChildWait(p)
      PROVE  /\ UNCHANGED <<wins, owner, home, layout, rows, stored, signalled, task, scn>>
             /\ sessions' \subseteq sessions /\ (\A s \in Sessions : panes'[s] \subseteq panes[s])
             /\ \A q \in Panes : proc'[q] = "running" => proc[q] = "running"
  <2>1. proc' \in {[proc EXCEPT ![p] = "dead"], [proc EXCEPT ![p] = "reaped"], [proc EXCEPT ![p] = "removed"]}
    BY <1>1 DEF Exit, ChildWait, Reap, RemovePane
  <2>2. \A q \in Panes : proc'[q] = "running" => proc[q] = "running"
    BY <2>1 DEF Ready, TypeOK
  <2> QED BY <1>1, <2>2, ChildWrites DEF RemovePane
<1>2. CASE UNCHANGED vars
  BY <1>2 DEF vars, mem, sql, child
<1> QED BY <1>1, <1>2, LoneTask DEF Next

LEMMA GoneStep ==
  ASSUME Ready, Owned, Serial, OneWindow, KilledGone, DeletedGone, [Next]_vars
  PROVE  KilledGone' /\ DeletedGone'
<1> USE DEF Ready
<1>0. Typed /\ wins \in [Sessions -> Seq(Windows)] /\ sessions \subseteq Sessions
  BY DEF TypeOK, Typed
<1>1. CASE task' = task /\ wins' = wins /\ sessions' \subseteq sessions
  BY <1>1 DEF KilledGone, DeletedGone, InRegistry, WinsOf, At
<1>2. ASSUME NEW t \in Tasks, Lone(t), Request(t) PROVE KilledGone' /\ DeletedGone'
  <2>2. task'[t].pc \notin {"kill_panes", "close_empty", "close_drop", "delete_rows"}
    BY <1>0, <1>2, RequestEntry
  <2> QED BY <1>2, <2>2 DEF KilledGone, DeletedGone, At, Lone
<1>3. ASSUME NEW t \in Tasks, Lone(t), Step(t) PROVE KilledGone' /\ DeletedGone'
  <2>g. ASSUME NEW pc, Goto(t, pc) PROVE task'[t].pc = pc
    BY <1>0, <2>g DEF Goto, Typed, Frames
  <2>1. task'[t].pc \in {"kill_panes", "close_empty", "close_drop", "delete_rows"} =>
          \/ CloseWindowRemove(t) \/ CloseWindowEmpty(t) \/ CloseWindowDrop(t)
          \/ KillRemove(t) \/ KillPanes(t)
    BY <1>3, StepEntry
  <2>2. KilledGone'
    <3>1. ASSUME task'[t].pc = "kill_panes" PROVE task'[t].sess \notin sessions'
      <4>1. KillRemove(t)
        BY <2>1, <2>g, <3>1 DEF CloseWindowRemove, CloseWindowEmpty, CloseWindowDrop, KillPanes, KillReturn
      <4>2. sessions' = sessions \ {task[t].sess} /\ task'[t].sess = task[t].sess
        BY <1>0, <4>1 DEF KillRemove, KillReturn, Goto, Typed, Frames
      <4> QED BY <4>2
    <3> QED BY <1>3, <3>1 DEF KilledGone, At, Lone
  <2>3. DeletedGone'
    <3> SUFFICES ASSUME task'[t].pc \in {"close_empty", "close_drop", "delete_rows"},
                        NEW w \in task'[t].del, InRegistry(w)'
                 PROVE  FALSE
      BY <1>3 DEF DeletedGone, Lone
    <3>1. /\ task'[t].del = task[t].del /\ task'[t].rpc = task[t].rpc
      BY <1>0, <1>3, StepKeeps DEF StepKeepsFrame, Idle
    <3>2. w \in task[t].del /\ w \in Windows /\ owner[w] = task[t].sess
      BY <1>0, <3>1 DEF Owned, TaskOwns, Typed, Frames
    <3>3. InRegistry(w)
      <4>1. ~\E u \in Tasks : task'[u].pc = "window_row"
        BY <1>3 DEF Lone
      <4> QED BY <3>2, <4>1, InRegistrySource
    <3>4. task[t].sess \in sessions
      BY <1>0, <3>2, <3>3 DEF InRegistry, Owned, WinsOwned
    <3>5. ~CloseWindowEmpty(t) /\ ~CloseWindowDrop(t)
      BY <3>2, <3>3 DEF CloseWindowEmpty, CloseWindowDrop, At, DeletedGone
    <3>6. ~KillPanes(t)
      BY <3>4 DEF KillPanes, At, KilledGone
    <3>7. ~KillRemove(t)
      BY <2>g, <3>4 DEF KillRemove
    <3>8. ASSUME CloseWindowRemove(t) PROVE FALSE
      <4>1. task[t].rpc = "close_window"
        BY <3>8, StageRpc DEF CloseWindowRemove, At
      <4>2. task[t].del = {w}
        BY <3>2, <4>1 DEF OneWindow
      <4>3. wins' = [wins EXCEPT ![task[t].sess] = Retain(@, w)] /\ sessions' = sessions
        BY <3>4, <3>8, <4>2 DEF CloseWindowRemove
      <4>4. PICK s \in sessions : w \in Elems(wins'[s])
        BY <4>3 DEF InRegistry, WinsOf, Elems
      <4>5. CASE s = task[t].sess
        <5>1. wins'[s] = Retain(wins[s], w) /\ wins[s] \in Seq(Windows) /\ Distinct(wins[s])
          BY <1>0, <4>3, <4>5 DEF Owned, WinsOwned
        <5> QED BY <4>4, <5>1, Retained
      <4>6. CASE s # task[t].sess
        <5>1. wins'[s] = wins[s]
          BY <1>0, <4>3, <4>6
        <5>2. w \in WinsOf(s)
          BY <4>4, <5>1, WinsOfElems
        <5> QED BY <1>0, <3>2, <4>6, <5>2 DEF Owned, WinsOwned
      <4> QED BY <4>5, <4>6
    <3> QED BY <2>1, <3>5, <3>6, <3>7, <3>8
  <2> QED BY <2>2, <2>3
<1> QED BY <1>1, <1>2, <1>3, SerialStep

LEMMA DiskStep ==
  ASSUME Ready, Owned, UnownedEmpty, OnDisk, Serial, [Next]_vars
  PROVE  RowsKept' /\ StoredKept' /\ PersistCurrent'
<1> USE DEF Ready, OnDisk
<1>0. /\ Typed /\ layout \in [Windows -> SUBSET Panes] /\ stored \in [Windows -> SUBSET Panes]
      /\ rows \subseteq Windows
  BY DEF TypeOK, Typed
<1>1. CASE task' = task /\ UNCHANGED <<wins, layout, rows, stored>> /\ sessions' \subseteq sessions
  <2>1. \A w : InRegistry(w)' => InRegistry(w)
    BY <1>1 DEF InRegistry, WinsOf
  <2> QED BY <1>1, <2>1 DEF RowsKept, StoredKept, PersistCurrent, At
<1>2. ASSUME NEW t \in Tasks, Lone(t), Request(t) \/ Step(t)
      PROVE  RowsKept' /\ StoredKept' /\ PersistCurrent'
  \* A window that comes into the registry is new: it has no tree yet.
  <2>1. ASSUME NEW w \in Windows, InRegistry(w)', ~InRegistry(w)
        PROVE  /\ layout[w] = {} /\ stored[w] = {}
               /\ task'[t].pc = "window_row" /\ task'[t].win = w
    <3>1. PICK u \in Tasks : /\ NewSession(u) \/ PushWindow(u)
                             /\ task'[u].pc = "window_row" /\ task'[u].win = w
      BY <2>1, InRegistrySource
    <3>2. u = t
      BY <1>2, <3>1 DEF Lone
    <3>3. owner[w] = None
      BY <2>1, InRegistrySource
    <3> QED BY <3>1, <3>2, <3>3 DEF UnownedEmpty
  \* What the task at its step says about the others: they are idle.
  <2>2. ASSUME NEW w \in Windows, InRegistry(w)
        PROVE  /\ w \in rows \/ (task[t].pc = "window_row" /\ task[t].win = w)
               /\ stored[w] = layout[w] \/ (task[t].pc = "persist" /\ task[t].win = w)
    BY <1>2, <2>2 DEF RowsKept, StoredKept, Lone, At
  <2>3. RowsKept'
    <3> SUFFICES ASSUME NEW w \in Windows, InRegistry(w)'
                 PROVE  w \in rows' \/ (task'[t].pc = "window_row" /\ task'[t].win = w)
      BY DEF RowsKept, At
    <3>1. CASE ~InRegistry(w)
      BY <2>1, <3>1
    <3>2. CASE InRegistry(w) /\ UpsertWindow(t)
      BY <2>2, <3>2 DEF UpsertWindow, WithRow
    <3>3. CASE InRegistry(w) /\ DeleteRows(t)
      <4>1. w \notin task[t].del /\ w \in rows
        BY <2>2, <3>3 DEF DeletedGone, DeleteRows, At
      <4> QED BY <3>3, <4>1 DEF DeleteRows
    <3>4. CASE InRegistry(w) /\ ~UpsertWindow(t) /\ ~DeleteRows(t)
      <4>1. rows' = rows
        BY <1>2, <3>4, RequestWrites, StepWrites
      <4>2. task[t].pc # "window_row"
        BY <1>0, <1>2, <3>4, StepAt, RequestEntry
      <4> QED BY <2>2, <3>4, <4>1, <4>2
    <3> QED BY <3>1, <3>2, <3>3, <3>4
  <2>4. CASE PersistLayout(t)
    <3>1. task[t].pc = "persist" /\ task[t].win \in Windows /\ task[t].snap = layout[task[t].win]
      BY <2>4, AtFrame DEF PersistLayout, At, FrameOK, PersistCurrent
    <3>2. task'[t].pc # "persist"
      BY <1>0, <2>4, <3>1, AtFrame DEF PersistLayout, FrameOK, Goto, Typed, Frames
    <3>3. layout' = layout
      BY <2>4 DEF PersistLayout, mem
    <3>4. StoredKept'
      <4> SUFFICES ASSUME NEW w \in Windows, InRegistry(w)' PROVE stored'[w] = layout'[w]
        BY DEF StoredKept
      <4>1. InRegistry(w)
        BY <2>4 DEF InRegistry, WinsOf, PersistLayout, mem
      <4>2. w \in rows /\ (stored[w] = layout[w] \/ task[t].win = w)
        BY <2>2, <3>1, <4>1
      <4> QED BY <1>0, <2>4, <3>1, <3>3, <4>2 DEF PersistLayout
    <3> QED BY <1>2, <2>3, <3>2, <3>4 DEF PersistCurrent, At, Lone
  <2>5. CASE ~PersistLayout(t) /\ layout' = layout
    <3>1. task[t].pc # "persist" /\ stored' = stored
      BY <1>0, <1>2, <2>5, StepAt, RequestEntry, StepWrites, RequestWrites
    <3>2. ASSUME NEW w \in Windows, InRegistry(w)' PROVE stored'[w] = layout'[w]
      <4>1. stored[w] = layout[w]
        BY <2>1, <2>2, <3>1, <3>2
      <4> QED BY <2>5, <3>1, <4>1
    <3>4. StoredKept'
      BY <3>2 DEF StoredKept
    <3>3. ASSUME task'[t].pc = "persist" PROVE task'[t].snap = layout'[task'[t].win]
      <4>1. CASE Step(t)
        <5>1. LayoutWritten(t)
          BY <3>3, <4>1, StepEntry, LayoutEffect
        <5> QED BY <1>0, <5>1 DEF LayoutWritten
      <4>2. CASE Request(t)
        <5>1. SetPaneWeight(t)
          BY <1>0, <3>3, <4>2, RequestEntry
        <5>2. PICK p : Call(t, [Idle EXCEPT !.rpc = "weight", !.pc = "persist", !.next = "emit_layout", !.pane = p,
                                       !.sess = SessionOf(p), !.win = home[p], !.snap = layout[home[p]]])
          BY <5>1 DEF SetPaneWeight
        <5>3. task'[t] = [Idle EXCEPT !.rpc = "weight", !.pc = "persist", !.next = "emit_layout", !.pane = p,
                                       !.sess = SessionOf(p), !.win = home[p], !.snap = layout[home[p]]]
          BY <1>0, <5>2 DEF Call, Typed
        <5>4. task'[t].win = home[p] /\ task'[t].snap = layout[home[p]]
          BY <5>3 DEF Idle
        <5> QED BY <2>5, <5>4
      <4> QED BY <1>2, <4>1, <4>2
    <3> QED BY <1>2, <2>3, <3>3, <3>4 DEF PersistCurrent, At, Lone
  <2>6. CASE layout' # layout
    <3>1. LayoutWritten(t)
      BY <1>2, <2>6, LayoutEffect, StepWrites, RequestWrites
    <3>2. stored' = stored /\ UNCHANGED <<sessions, wins>>
      <4>1. Step(t)
        BY <1>2, <2>6, RequestWrites
      <4> QED BY <2>6, <4>1, StepWrites DEF InitLayout, SplitLayout, CloseLayout, sql
    <3>3. StoredKept'
      <4> SUFFICES ASSUME NEW w \in Windows, InRegistry(w)', w # task'[t].win PROVE stored'[w] = layout'[w]
        BY <3>1 DEF StoredKept, At, LayoutWritten
      <4>1. InRegistry(w)
        BY <3>2 DEF InRegistry, WinsOf
      <4>2. stored[w] = layout[w]
        BY <2>2, <3>1, <4>1 DEF LayoutWritten
      <4> QED BY <1>0, <3>1, <3>2, <4>2 DEF LayoutWritten
    <3>4. task'[t].snap = layout'[task'[t].win]
      BY <1>0, <3>1 DEF LayoutWritten
    <3> QED BY <1>2, <2>3, <3>3, <3>4 DEF PersistCurrent, At, Lone
  <2> QED BY <2>4, <2>5, <2>6
<1> QED BY <1>1, <1>2, SerialStep

\* One RPC at a time, or nothing is claimed about the disk.
DiskInv == UnownedEmpty /\ OneWindow /\ (Serial => OnDisk)

LEMMA DiskInvariant == Spec => []DiskInv
<1>1. Init => DiskInv
  <2> SUFFICES ASSUME Init PROVE DiskInv
    OBVIOUS
  <2>1. UnownedEmpty
    BY DEF Init, UnownedEmpty
  <2>2. OneWindow /\ KilledGone /\ DeletedGone /\ PersistCurrent
    BY DEF Init, OneWindow, KilledGone, DeletedGone, PersistCurrent, At, Idle
  <2>3. RowsKept /\ StoredKept
    BY DEF Init, RowsKept, StoredKept, InRegistry
  <2> QED BY <2>1, <2>2, <2>3 DEF DiskInv, OnDisk
<1>2. ASSUME Ready, Owned, DiskInv, [Next]_vars PROVE DiskInv'
  <2>1. UnownedEmpty' /\ OneWindow'
    BY <1>2, UnownedStep, OneWindowStep DEF DiskInv
  <2>2. Serial' => Serial
    BY <1>2, Writers DEF Serial
  <2>3. Serial => OnDisk'
    BY <1>2, GoneStep, DiskStep DEF DiskInv, OnDisk
  <2> QED BY <2>1, <2>2, <2>3 DEF DiskInv
<1>3. Ready /\ Owned /\ DiskInv /\ [Next]_vars => DiskInv'
  BY <1>2
<1> QED BY <1>1, <1>3, OwnedInvariant, PTL DEF Spec

\* At rest, after any number of RPCs of which no two overlapped, SQLite holds the
\* layout tree that is in memory, for every window of every session: every mutation
\* under the layout lock is followed by the write of the tree it left.
THEOREM Stored == Spec => []StoredMatchesMemory
<1>1. Ready /\ DiskInv => StoredMatchesMemory
  <2> SUFFICES ASSUME Ready, DiskInv, Serial, Quiet, NEW s \in sessions, NEW w \in WinsOf(s)
               PROVE  stored[w] = layout[w]
    BY DEF StoredMatchesMemory
  <2>1. w \in Windows /\ InRegistry(w)
    BY WinsOfWindows DEF InRegistry, Ready, TypeOK
  <2>2. \A t \in Tasks : ~At(t, "persist")
    BY DEF Quiet, At, Idle
  <2> QED BY <2>1, <2>2 DEF DiskInv, OnDisk, StoredKept
<1> QED BY <1>1, OwnedInvariant, DiskInvariant, PTL

-----------------------------------------------------------------------------
(* One RPC at a time: what is in the trees *)

\* A shell that was sent SIGTERM has been started.
SignalledHome == \A p \in signalled : home[p] \in Windows

\* A split opens its pane in the window of the pane it splits.
SplitStays ==
  \A t \in Tasks : task[t].rpc = "split" =>
    /\ task[t].win = home[task[t].parent]
    /\ task[t].pc \in {"open_lookup", "open_window"} => task[t].win \in WinsOf(task[t].sess)

\* A leaf is a pane of the window.
LayoutHome == \A w \in Windows : \A p \in layout[w] : home[p] = w

\* A shell that was sent SIGTERM has left the lists, and nobody opens or splits it.
ListedAlive ==
  /\ \A s \in sessions : \A p \in panes[s] : p \notin signalled
  /\ \A t \in Tasks : Opening(t) => task[t].pane \notin signalled
  /\ \A t \in Tasks : task[t].rpc = "split" => task[t].parent \notin signalled

\* A leaf with such a shell is the sole root, or close_pane is about to remove it.
LeafClosed ==
  \A w \in Windows : InRegistry(w) => \A p \in layout[w] : p \in signalled =>
    layout[w] = {p} \/ \E t \in Tasks : At(t, "close_layout") /\ task[t].pane = p

InTrees == SplitStays /\ LayoutHome /\ ListedAlive /\ LeafClosed

LEMMA SignalledStep ==
  ASSUME Ready, Owned, SignalledHome, [Next]_vars
  PROVE  SignalledHome'
<1> USE DEF Ready
<1>0. /\ HomesKept /\ home \in [Panes -> Windows \cup {None}] /\ signalled \subseteq Panes
      /\ panes \in [Sessions -> SUBSET Panes]
  BY OwnerEffect DEF TypeOK
<1>1. ASSUME NEW p \in Panes, Killable(p) PROVE home[p] \in Windows
  BY <1>0, <1>1 DEF Killable, HomesOK
<1> SUFFICES ASSUME NEW p \in signalled' PROVE p \in Panes /\ home[p] \in Windows
  BY <1>0 DEF SignalledHome, HomesKept
<1>2. CASE p \in signalled
  BY <1>0, <1>2 DEF SignalledHome
<1>3. CASE p \notin signalled
  <2>1. PICK t \in Tasks : CloseKill(t) \/ KillPanes(t)
    BY <1>3, Writers
  <2>2. CASE CloseKill(t)
    <3>1. task[t].pane \in Panes
      BY <2>2, AtFrame DEF CloseKill, At, FrameOK
    <3> QED BY <1>1, <1>3, <2>2, <3>1 DEF CloseKill
  <2>3. CASE KillPanes(t)
    <3>1. task[t].sess \in Sessions
      BY <2>3, AtFrame DEF KillPanes, At, FrameOK, KillPcs
    <3> QED BY <1>0, <1>1, <1>3, <2>3, <3>1 DEF KillPanes
  <2> QED BY <2>1, <2>2, <2>3
<1> QED BY <1>2, <1>3

LEMMA SplitStep ==
  ASSUME Ready, Owned, SplitStays, Serial, [Next]_vars
  PROVE  SplitStays'
<1> USE DEF Ready
<1>0. Typed /\ HomesKept
  BY OwnerEffect DEF TypeOK, Typed
<1>1. CASE task' = task /\ UNCHANGED <<wins, home>>
  BY <1>1 DEF SplitStays, WinsOf
<1>2. ASSUME NEW t \in Tasks, Lone(t), Request(t) PROVE SplitStays'
  <2>1. CASE OpenPaneSplit(t)
    <3>1. PICK p \in Panes :
            /\ home[p] \in WinsOf(SessionOf(p))
            /\ Call(t, [Idle EXCEPT !.rpc = "split", !.pc = "open_lookup", !.sess = SessionOf(p),
                                    !.win = home[p], !.parent = p])
      BY <2>1 DEF OpenPaneSplit
    <3>2. task'[t] = [Idle EXCEPT !.rpc = "split", !.pc = "open_lookup", !.sess = SessionOf(p),
                                  !.win = home[p], !.parent = p]
      BY <1>0, <3>1 DEF Call, Typed
    <3>3. task'[t].win = home[p] /\ task'[t].parent = p /\ task'[t].sess = SessionOf(p)
      BY <3>2 DEF Idle
    <3>4. home' = home /\ WinsOf(task[t].sess)' = WinsOf(SessionOf(p))
      BY <2>1, <3>3 DEF OpenPaneSplit, mem, WinsOf
    <3> QED BY <1>2, <3>1, <3>3, <3>4 DEF SplitStays, Lone
  <2>2. CASE ~OpenPaneSplit(t)
    <3>1. task'[t].rpc # "split"
      BY <1>0, <1>2, <2>2, RequestEntry
    <3> QED BY <1>2, <3>1 DEF SplitStays, Lone
  <2> QED BY <2>1, <2>2
<1>3. ASSUME NEW t \in Tasks, Lone(t), Step(t) PROVE SplitStays'
  <2> SUFFICES ASSUME task'[t].rpc = "split"
               PROVE  /\ task'[t].win = home'[task'[t].parent]
                      /\ task'[t].pc \in {"open_lookup", "open_window"} => task'[t].win \in WinsOf(task[t].sess)'
    BY <1>3 DEF SplitStays, Lone
  <2>1. StepKeepsFrame(t)
    BY <1>0, <1>3, StepKeeps DEF Idle
  <2>2. task[t].rpc = "split" /\ task'[t].parent = task[t].parent
    BY <2>1 DEF StepKeepsFrame
  <2>3. ~GcNext(t) /\ ~CloseLayout(t) /\ ~UpsertWindow(t)
    BY <2>2, StageRpc DEF GcNext, CloseLayout, UpsertWindow, At, Closes
  <2>4. home'[task[t].parent] = home[task[t].parent]
    BY <1>0, <2>2, AtFrame DEF FrameOK, HomesKept
  <2>5. task[t].win = home[task[t].parent]
    BY <2>2 DEF SplitStays
  <2>6. task'[t].win = home[task[t].parent]
    <3>1. CASE SplitLayout(t)
      BY <1>0, <3>1 DEF SplitLayout, Typed, Frames
    <3>2. CASE OpenWindow(t)
      <4>1. task[t].win \in WinsOf(task[t].sess) /\ wins[task[t].sess] # <<>>
        BY <2>2, <3>2 DEF OpenWindow, At, SplitStays, WinsOf
      <4>2. Goto(t, "spawn_pty")
        BY <3>2, <4>1 DEF OpenWindow
      <4> QED BY <1>0, <2>5, <4>2 DEF Goto, Typed, Frames
    <3> QED BY <2>1, <2>3, <2>5, <3>1, <3>2 DEF StepKeepsFrame
  <2>7. ASSUME task'[t].pc \in {"open_lookup", "open_window"} PROVE task'[t].win \in WinsOf(task[t].sess)'
    <3>1. OpenLookup(t)
      BY <1>3, <2>3, <2>7, StepEntry
    <3>2. task[t].win \in WinsOf(task[t].sess) /\ wins' = wins
      BY <2>2, <3>1 DEF OpenLookup, At, SplitStays, mem
    <3> QED BY <2>1, <2>3, <2>5, <2>6, <3>2 DEF StepKeepsFrame, WinsOf
  <2> QED BY <2>2, <2>4, <2>6, <2>7
<1> QED BY <1>1, <1>2, <1>3, SerialStep

\* What the three writers put into a tree.
LEMMA TreeWritten ==
  ASSUME Ready, Owned, NEW t \in Tasks, InitLayout(t) \/ SplitLayout(t) \/ CloseLayout(t), LayoutWritten(t)
  PROVE  \/ InitLayout(t) /\ task'[t].win = task[t].win /\ task'[t].snap = {task[t].pane}
         \/ /\ SplitLayout(t) /\ task'[t].win = home[task[t].parent]
            /\ task'[t].snap = Split(layout[task'[t].win], task[t].parent, task[t].pane)
         \/ /\ CloseLayout(t) /\ task'[t].win = home[task[t].pane]
            /\ task'[t].snap = CloseLeaf(layout[task'[t].win], task[t].pane)
<1> USE DEF Ready
<1>0. Typed
  BY DEF TypeOK, Typed
<1>g. ASSUME NEW pc, Goto(t, pc) PROVE task'[t].pc = pc
  BY <1>0, <1>g DEF Goto, Typed, Frames
<1>1. CASE InitLayout(t)
  <2>1. task' = [task EXCEPT ![t].pc = "persist", ![t].next = "emit_spawned", ![t].snap = {task[t].pane}]
    BY <1>1, <1>g DEF InitLayout, LayoutWritten
  <2> QED BY <1>0, <1>1, <2>1 DEF Typed, Frames
<1>2. CASE SplitLayout(t)
  <2> DEFINE w == home[task[t].parent]
             tree == Split(layout[w], task[t].parent, task[t].pane)
  <2>1. task' = [task EXCEPT ![t].pc = "persist", ![t].next = "emit_layout", ![t].snap = tree, ![t].win = w]
    BY <1>2 DEF SplitLayout
  <2> HIDE DEF w, tree
  <2>2. task'[t].win = w /\ task'[t].snap = tree
    BY <1>0, <2>1 DEF Typed, Frames
  <2> QED BY <1>2, <2>2 DEF w, tree
<1>3. CASE CloseLayout(t)
  <2> DEFINE w == home[task[t].pane]
             tree == CloseLeaf(layout[w], task[t].pane)
  <2>1. task' = [task EXCEPT ![t].pc = "persist", ![t].next = "emit_layout", ![t].snap = tree, ![t].win = w]
    BY <1>3, <1>g DEF CloseLayout, LayoutWritten
  <2> HIDE DEF w, tree
  <2>2. task'[t].win = w /\ task'[t].snap = tree
    BY <1>0, <2>1 DEF Typed, Frames
  <2> QED BY <1>3, <2>2 DEF w, tree
<1> QED BY <1>1, <1>2, <1>3

LEMMA LayoutHomeStep ==
  ASSUME Ready, Owned, SplitStays, LayoutHome, [Next]_vars
  PROVE  LayoutHome'
<1> USE DEF Ready
<1>0. HomesKept /\ layout \in [Windows -> SUBSET Panes]
  BY OwnerEffect DEF TypeOK
<1> SUFFICES ASSUME NEW w \in Windows, NEW p \in layout'[w] PROVE home'[p] = w
  BY DEF LayoutHome
<1>1. CASE p \in layout[w]
  <2>1. home[p] = w /\ p \in Panes
    BY <1>0, <1>1 DEF LayoutHome
  <2> QED BY <1>0, <2>1 DEF HomesKept
<1>2. CASE p \notin layout[w]
  <2>1. PICK t \in Tasks : InitLayout(t) \/ SplitLayout(t) \/ CloseLayout(t)
    BY <1>2, Writers
  <2>2. LayoutWritten(t) /\ w = task'[t].win /\ p \in task'[t].snap
    BY <1>0, <1>2, <2>1, LayoutEffect DEF LayoutWritten
  <2>3. home' = home
    BY <2>1 DEF InitLayout, SplitLayout, CloseLayout
  <2>4. CASE InitLayout(t) /\ task'[t].win = task[t].win /\ task'[t].snap = {task[t].pane}
    BY <2>2, <2>3, <2>4 DEF InitLayout, Owned, TaskOwns, Opening
  <2>5. CASE /\ SplitLayout(t) /\ task'[t].win = home[task[t].parent]
             /\ task'[t].snap = Split(layout[task'[t].win], task[t].parent, task[t].pane)
    <3>1. task[t].rpc = "split"
      BY <2>5, StageRpc DEF SplitLayout, At
    <3>2. home[task[t].pane] = task[t].win /\ task[t].win = home[task[t].parent]
      BY <2>5, <3>1 DEF SplitLayout, Owned, TaskOwns, Opening, SplitStays
    <3>3. p = task[t].parent \/ p = task[t].pane
      BY <1>2, <2>2, <2>5 DEF Split
    <3> QED BY <2>2, <2>3, <2>5, <3>2, <3>3
  <2>6. CASE /\ CloseLayout(t) /\ task'[t].win = home[task[t].pane]
             /\ task'[t].snap = CloseLeaf(layout[task'[t].win], task[t].pane)
    BY <1>2, <2>2, <2>6 DEF CloseLeaf
  <2> QED BY <2>1, <2>2, <2>4, <2>5, <2>6, TreeWritten
<1> QED BY <1>1, <1>2

\* A pane is being opened by the RPC that started its shell.
LEMMA OpeningSource ==
  ASSUME Ready, NEW t \in Tasks, Step(t), Opening(t)'
  PROVE  (Opening(t) /\ task'[t].pane = task[t].pane) \/ SpawnPty(t)
<1> USE DEF Ready
<1>0. Typed
  BY DEF TypeOK, Typed
<1>1. StepKeepsFrame(t)
  BY <1>0, StepKeeps DEF Idle, Opening, At
<1>2. CASE SpawnPty(t)
  BY <1>2
<1>3. CASE InsertPane(t) \/ InitLayout(t) \/ EmitSpawned(t)
  <2>1. Opening(t)
    BY <1>3 DEF InsertPane, InitLayout, EmitSpawned, Opening
  <2>2. ~CloseWindowNext(t) /\ ~SpawnPty(t)
    BY <1>3 DEF InsertPane, InitLayout, EmitSpawned, CloseWindowNext, SpawnPty, At
  <2> QED BY <1>1, <2>1, <2>2 DEF StepKeepsFrame
<1>4. CASE PersistLayout(t)
  <2>1. task'[t].pc = task[t].next /\ task'[t].pane = task[t].pane
    BY <1>0, <1>4 DEF PersistLayout, Goto, Typed, Frames
  <2>2. task[t].next \in {"emit_layout", "emit_spawned"}
    BY <1>4, AtFrame DEF PersistLayout, At, FrameOK
  <2>3. task[t].next = "emit_spawned"
    BY <2>1, <2>2 DEF Opening, At
  <2> QED BY <1>4, <2>1, <2>3 DEF PersistLayout, Opening
<1>5. CASE SplitLayout(t) \/ CloseLayout(t)
  <2>1. task'[t].pc = "evict" \/ (task'[t].pc = "persist" /\ task'[t].next = "emit_layout")
    BY <1>0, <1>5 DEF SplitLayout, CloseLayout, Goto, Typed, Frames
  <2> QED BY <2>1 DEF Opening, At
<1> QED BY <1>2, <1>3, <1>4, <1>5, StepEntry DEF Opening, At

LEMMA ListedStep ==
  ASSUME Ready, Owned, Serial, KilledGone, SignalledHome, ListedAlive, [Next]_vars
  PROVE  ListedAlive'
<1> USE DEF Ready
<1>0. /\ Typed /\ panes \in [Sessions -> SUBSET Panes] /\ sessions \subseteq Sessions /\ sessions' \subseteq Sessions
      /\ home \in [Panes -> Windows \cup {None}] /\ owner \in [Windows -> Sessions \cup {None}]
  BY TypeStep DEF TypeOK, Typed
<1>1. CASE /\ task' = task /\ signalled' = signalled /\ sessions' \subseteq sessions
           /\ \A s \in Sessions : panes'[s] \subseteq panes[s]
  <2>1. \A t \in Tasks : Opening(t)' <=> Opening(t)
    BY <1>1 DEF Opening, At
  <2> QED BY <1>0, <1>1, <2>1 DEF ListedAlive
<1>2. ASSUME NEW t \in Tasks, Lone(t), Request(t) PROVE ListedAlive'
  <2>1. panes' = panes /\ signalled' = signalled
    BY <1>2, RequestWrites
  <2>2. ASSUME NEW s \in sessions', NEW p \in panes[s] PROVE p \notin signalled
    <3>1. CASE s \in sessions
      BY <2>2, <3>1 DEF ListedAlive
    <3>2. CASE s \notin sessions
      <4>1. NewSession(t)
        BY <1>2, <2>2, <3>2, RequestWrites
      <4>2. PICK x \in Sessions : (\A v \in Windows : owner[v] # x) /\ sessions' = sessions \cup {x}
        BY <4>1 DEF NewSession
      <4> QED BY <1>0, <2>2, <3>2, <4>2 DEF Owned, PanesOwned
    <3> QED BY <3>1, <3>2
  <2>3. ~Opening(t)'
    <3>1. task'[t].pc \notin {"insert", "init_layout", "emit_spawned", "split_layout"}
      BY <1>0, <1>2, RequestEntry
    <3>2. task'[t].pc = "persist" => task'[t].rpc = "weight"
      BY <1>0, <1>2, RequestEntry
    <3>3. FrameOK(t)'
      BY <1>2, RequestFrame
    <3> QED BY <3>1, <3>2, <3>3 DEF Opening, At, FrameOK, Opens
  <2>4. ASSUME task'[t].rpc = "split" PROVE task'[t].parent \notin signalled
    <3>1. OpenPaneSplit(t)
      BY <1>0, <1>2, <2>4, RequestEntry
    <3>2. PICK p \in Panes :
            /\ Listed(p)
            /\ Call(t, [Idle EXCEPT !.rpc = "split", !.pc = "open_lookup", !.sess = SessionOf(p),
                                    !.win = home[p], !.parent = p])
      BY <3>1 DEF OpenPaneSplit
    <3>3. task'[t] = [Idle EXCEPT !.rpc = "split", !.pc = "open_lookup", !.sess = SessionOf(p),
                                  !.win = home[p], !.parent = p]
      BY <1>0, <3>2 DEF Call, Typed
    <3>4. task'[t].parent = p
      BY <3>3 DEF Idle
    <3> QED BY <3>2, <3>4 DEF Listed, ListedAlive
  <2>5. \A u \in Tasks : u # t => ~Opening(u)' /\ task'[u].rpc # "split"
    BY <1>2 DEF Opening, At, Lone
  <2> QED BY <2>1, <2>2, <2>3, <2>4, <2>5 DEF ListedAlive
<1>3. ASSUME NEW t \in Tasks, Lone(t), Step(t) PROVE ListedAlive'
  <2>5. \A u \in Tasks : u # t => ~Opening(u)' /\ task'[u].rpc # "split"
    BY <1>3 DEF Opening, At, Lone
  <2>6. sessions' \subseteq sessions
    BY <1>3, StepWrites DEF EvictIfEmpty, CloseWindowDrop, KillRemove
  <2>7. task'[t].rpc = "split" => task[t].rpc = "split" /\ task'[t].parent = task[t].parent
    BY <1>0, <1>3, StepKeeps DEF StepKeepsFrame, Idle
  <2>1. CASE CloseKill(t)
    <3>1. /\ task[t].pc = "close_kill" /\ task[t].rpc \in Closes /\ task[t].pane \in Panes
          /\ task[t].sess \in Sessions
      BY <2>1, StageRpc, AtFrame DEF CloseKill, At, Closes, FrameOK
    <3>2. owner[home[task[t].pane]] = task[t].sess
      BY <3>1 DEF Owned, TaskOwns
    <3>3. ASSUME NEW s \in sessions', NEW p \in panes'[s] PROVE p \notin signalled'
      <4>1. s \in sessions /\ p \in panes[s]
        BY <1>0, <2>1, <2>6, <3>3 DEF CloseKill
      <4>2. CASE p \notin signalled' \ signalled
        BY <4>1, <4>2 DEF ListedAlive
      <4>3. CASE p \in signalled' \ signalled
        <5>1. p = task[t].pane /\ panes' = [panes EXCEPT ![task[t].sess] = @ \ {p}]
          BY <2>1, <4>3 DEF CloseKill
        <5>2. s = task[t].sess
          BY <1>0, <3>2, <4>1, <5>1 DEF Owned, PanesOwned
        <5> QED BY <1>0, <3>1, <3>3, <5>1, <5>2
      <4> QED BY <4>2, <4>3
    <3>4. task'[t].pc \in {"close_layout", "close_next", "idle"} /\ task'[t].rpc # "split"
      <4>1. \/ \E pc \in {"close_layout", "close_next"} : Goto(t, pc)
            \/ Return(t)
        BY <2>1 DEF CloseKill, CloseReturn
      <4>2. ASSUME NEW pc \in {"close_layout", "close_next"}, Goto(t, pc)
            PROVE  task'[t].pc = pc /\ task'[t].rpc = task[t].rpc
        BY <1>0, <4>2 DEF Goto, Typed, Frames
      <4>3. CASE Return(t)
        BY <1>0, <4>3 DEF Return, Idle, Typed
      <4> QED BY <3>1, <4>1, <4>2, <4>3 DEF Closes
    <3>5. ~Opening(t)'
      BY <3>4 DEF Opening, At
    <3> QED BY <2>5, <3>3, <3>4, <3>5 DEF ListedAlive
  <2>2. CASE KillPanes(t)
    <3>1. task[t].sess \in Sessions \ sessions /\ task[t].rpc \in {"kill", "close_session", "gc"}
      BY <2>2, StageRpc, AtFrame DEF KillPanes, At, FrameOK, KillPcs, KilledGone
    <3>2. panes' = panes
      BY <2>2 DEF KillPanes, mem
    <3>3. ASSUME NEW s \in sessions', NEW p \in panes'[s] PROVE p \notin signalled'
      <4>1. s \in sessions /\ p \in panes[s] /\ p \notin signalled /\ s # task[t].sess
        BY <2>6, <3>1, <3>2, <3>3 DEF ListedAlive
      <4>2. p \notin panes[task[t].sess]
        BY <1>0, <3>1, <4>1 DEF Owned, PanesOwned
      <4> QED BY <2>2, <4>1, <4>2 DEF KillPanes
    <3>4. task'[t].pc \in {"gc_next", "delete_rows"} /\ task'[t].rpc # "split"
      BY <1>0, <2>2, <3>1 DEF KillPanes, KillReturn, Goto, Typed, Frames
    <3>5. ~Opening(t)'
      BY <3>4 DEF Opening, At
    <3> QED BY <2>5, <3>3, <3>4, <3>5 DEF ListedAlive
  <2>3. CASE ~CloseKill(t) /\ ~KillPanes(t)
    <3>1. signalled' = signalled
      BY <1>3, <2>3, StepWrites
    <3>2. ASSUME NEW s \in sessions', NEW p \in panes'[s] PROVE p \notin signalled
      <4>1. CASE p \in panes[s]
        BY <2>6, <4>1 DEF ListedAlive
      <4>2. CASE p \notin panes[s]
        <5>1. InsertPane(t)
          BY <1>3, <2>3, <3>2, <4>2, StepWrites
        <5>2. p = task[t].pane
          BY <1>0, <3>2, <4>2, <5>1 DEF InsertPane
        <5> QED BY <5>1, <5>2 DEF InsertPane, Opening, ListedAlive
      <4> QED BY <4>1, <4>2
    <3>3. ASSUME Opening(t)' PROVE task'[t].pane \notin signalled
      <4>1. CASE SpawnPty(t)
        <5>1. task'[t].pc # "idle"
          BY <3>3 DEF Opening, At
        <5>2. ~Return(t)
          BY <1>0, <5>1 DEF Return, Typed, Idle
        <5>3. PICK p \in Panes : /\ p = Fresh({q \in scn.panes : proc[q] = "none"})
                                 /\ task' = [task EXCEPT ![t].pc = "insert", ![t].pane = p]
          BY <4>1, <5>2 DEF SpawnPty
        <5>4. proc[p] = "none"
          BY <5>3, FreshMember
        <5>5. task'[t].pane = p
          BY <1>0, <5>3 DEF Typed, Frames
        <5>6. home[p] = None
          BY <5>4 DEF HomesOK
        <5> QED BY <5>5, <5>6, NoneAssumption DEF SignalledHome
      <4> QED BY <1>3, <3>3, <4>1, OpeningSource DEF ListedAlive
    <3>4. task'[t].rpc = "split" => task'[t].parent \notin signalled
      BY <2>7 DEF ListedAlive
    <3> QED BY <2>5, <3>1, <3>2, <3>3, <3>4 DEF ListedAlive
  <2> QED BY <2>1, <2>2, <2>3
<1> QED BY <1>1, <1>2, <1>3, SerialStep

LEMMA LeafStep ==
  ASSUME Ready, Owned, Serial, UnownedEmpty, KilledGone, InTrees, [Next]_vars
  PROVE  LeafClosed'
<1> USE DEF Ready, InTrees
<1>0. /\ Typed /\ layout \in [Windows -> SUBSET Panes] /\ panes \in [Sessions -> SUBSET Panes]
      /\ sessions \subseteq Sessions /\ owner \in [Windows -> Sessions \cup {None}]
  BY DEF TypeOK, Typed
<1>1. CASE task' = task /\ UNCHANGED <<wins, layout, signalled>> /\ sessions' \subseteq sessions
  <2>1. \A w : InRegistry(w)' => InRegistry(w)
    BY <1>1 DEF InRegistry, WinsOf
  <2> QED BY <1>1, <2>1 DEF LeafClosed, At
<1>2. ASSUME NEW t \in Tasks, Lone(t), Request(t) \/ Step(t) PROVE LeafClosed'
  <2> SUFFICES ASSUME NEW w \in Windows, InRegistry(w)', NEW p \in layout'[w], p \in signalled'
               PROVE  layout'[w] = {p} \/ (task'[t].pc = "close_layout" /\ task'[t].pane = p)
    BY DEF LeafClosed, At
  <2>1. InRegistry(w)
    <3>1. SUFFICES ASSUME ~InRegistry(w) PROVE FALSE
      OBVIOUS
    <3>2. PICK u \in Tasks : NewSession(u) \/ PushWindow(u)
      BY <3>1, InRegistrySource
    <3>3. layout' = layout
      BY <3>2 DEF NewSession, PushWindow
    <3>4. layout[w] = {}
      BY <3>1, InRegistrySource DEF UnownedEmpty
    <3> QED BY <3>3, <3>4
  <2>2. PICK s \in sessions : w \in WinsOf(s) /\ owner[w] = s
    BY <1>0, <2>1 DEF InRegistry, Owned, WinsOwned
  <2>3. ASSUME NEW q \in layout[w], q \in signalled
        PROVE  layout[w] = {q} \/ (task[t].pc = "close_layout" /\ task[t].pane = q)
    BY <1>2, <2>1, <2>3 DEF LeafClosed, At, Lone
  <2>4. CASE CloseKill(t)
    <3>1. layout' = layout
      BY <2>4 DEF CloseKill
    <3>2. CASE p \in signalled
      BY <2>3, <2>4, <3>1, <3>2 DEF CloseKill, At
    <3>3. CASE p \notin signalled
      <4>1. p = task[t].pane /\ Goto(t, "close_layout")
        BY <2>4, <3>3 DEF CloseKill
      <4> QED BY <1>0, <4>1 DEF Goto, Typed, Frames
    <3> QED BY <3>2, <3>3
  <2>5. CASE KillPanes(t)
    <3>1. layout' = layout
      BY <2>5 DEF KillPanes, mem
    <3>2. CASE p \in signalled
      BY <2>3, <2>5, <3>1, <3>2 DEF KillPanes, At
    <3>3. CASE p \notin signalled
      <4>1. task[t].sess \in Sessions /\ task[t].sess \notin sessions
        BY <2>5, AtFrame DEF KillPanes, At, FrameOK, KillPcs, KilledGone
      <4>2. p \in panes[task[t].sess]
        BY <2>5, <3>3 DEF KillPanes
      <4>3. home[p] = w
        BY <3>1 DEF LayoutHome
      <4> QED BY <2>2, <4>1, <4>2, <4>3 DEF Owned, PanesOwned
    <3> QED BY <3>2, <3>3
  <2>6. CASE ~CloseKill(t) /\ ~KillPanes(t) /\ layout' = layout
    <3>1. signalled' = signalled
      BY <1>2, <2>6, StepWrites, RequestWrites
    <3>2. CASE CloseLayout(t)
      <4>1. /\ task[t].pc = "close_layout" /\ task[t].pane \in Panes
            /\ owner[home[task[t].pane]] = task[t].sess
        BY <3>2, AtFrame DEF CloseLayout, At, FrameOK, Owned, TaskOwns
      <4>2. CASE layout[w] = {p}
        BY <2>6, <4>2
      <4>3. CASE task[t].pane = p
        <5>1. home[p] = w /\ task[t].sess = s
          BY <2>2, <2>6, <4>1, <4>3 DEF LayoutHome
        <5>2. layout' = [layout EXCEPT ![w] = CloseLeaf(layout[w], p)]
          BY <2>2, <2>6, <3>2, <4>3, <5>1 DEF CloseLayout
        <5>3. layout'[w] = CloseLeaf(layout[w], p)
          BY <1>0, <5>2
        <5> QED BY <2>6, <5>3 DEF CloseLeaf
      <4> QED BY <2>3, <2>6, <3>1, <4>2, <4>3
    <3>3. CASE ~CloseLayout(t)
      <4>1. task[t].pc # "close_layout"
        BY <1>0, <1>2, <3>3, StepAt, RequestEntry
      <4> QED BY <2>3, <2>6, <3>1, <4>1
    <3> QED BY <3>2, <3>3
  <2>7. CASE layout' # layout
    <3>1. Step(t) /\ (InitLayout(t) \/ SplitLayout(t) \/ CloseLayout(t))
      BY <1>2, <2>7, StepWrites, RequestWrites
    <3>2. LayoutWritten(t)
      BY <2>7, <3>1, LayoutEffect
    <3>3. signalled' = signalled /\ home' = home
      BY <3>1 DEF InitLayout, SplitLayout, CloseLayout, child
    <3>4. task'[t].win \in Windows /\ layout' = [layout EXCEPT ![task'[t].win] = task'[t].snap]
      BY <3>2 DEF LayoutWritten
    <3>5. CASE w # task'[t].win
      <4>1. layout'[w] = layout[w]
        BY <1>0, <3>4, <3>5
      <4>2. CASE CloseLayout(t)
        <5>1. task'[t].win = home[task[t].pane]
          BY <3>2, <4>2, TreeWritten DEF InitLayout, SplitLayout, CloseLayout, At
        <5>2. task[t].pane # p
          BY <3>5, <4>1, <5>1 DEF LayoutHome
        <5> QED BY <2>3, <3>3, <4>1, <5>2
      <4>3. CASE ~CloseLayout(t)
        BY <2>3, <3>1, <3>3, <4>1, <4>3 DEF InitLayout, SplitLayout, At
      <4> QED BY <4>2, <4>3
    <3>6. CASE w = task'[t].win
      <4>1. layout'[w] = task'[t].snap
        BY <1>0, <3>4, <3>6
      <4>2. CASE InitLayout(t) /\ task'[t].snap = {task[t].pane}
        BY <4>1, <4>2
      <4>3. CASE SplitLayout(t) /\ task'[t].snap = Split(layout[w], task[t].parent, task[t].pane)
        <5>1. task[t].rpc = "split" /\ task[t].pc = "split_layout"
          BY <4>3, StageRpc DEF SplitLayout, At
        <5>2. task[t].parent \notin signalled /\ task[t].pane \notin signalled
          BY <5>1 DEF ListedAlive, Opening, At
        <5>3. p \in layout[w]
          BY <3>3, <4>1, <4>3, <5>2 DEF Split
        <5>4. layout[w] = {p}
          BY <2>3, <3>3, <5>1, <5>3
        <5> QED BY <3>3, <4>1, <4>3, <5>2, <5>4 DEF Split
      <4>4. CASE CloseLayout(t) /\ task'[t].snap = CloseLeaf(layout[w], task[t].pane)
        <5>1. p \in layout[w] /\ (p = task[t].pane => layout[w] = {p})
          BY <4>1, <4>4 DEF CloseLeaf
        <5>2. layout[w] = {p}
          BY <2>3, <3>3, <5>1
        <5>3. layout'[w] \subseteq layout[w]
          BY <4>1, <4>4 DEF CloseLeaf
        <5> QED BY <5>2, <5>3
      <4> QED BY <3>1, <3>2, <3>6, <4>2, <4>3, <4>4, TreeWritten
    <3> QED BY <3>5, <3>6
  <2> QED BY <2>4, <2>5, <2>6, <2>7
<1> QED BY <1>1, <1>2, SerialStep

TreesInv == SignalledHome /\ (Serial => InTrees)

LEMMA TreesInvariant == Spec => []TreesInv
<1>1. Init => TreesInv
  <2> SUFFICES ASSUME Init PROVE TreesInv
    OBVIOUS
  <2>1. SignalledHome /\ LayoutHome /\ LeafClosed
    BY DEF Init, SignalledHome, LayoutHome, LeafClosed
  <2>2. SplitStays /\ ListedAlive
    BY DEF Init, SplitStays, ListedAlive, Opening, At, Idle
  <2> QED BY <2>1, <2>2 DEF TreesInv, InTrees
<1>2. ASSUME Ready, Owned, DiskInv, TreesInv, [Next]_vars PROVE TreesInv'
  <2>1. SignalledHome'
    BY <1>2, SignalledStep DEF TreesInv
  <2>2. Serial' => Serial
    BY <1>2, Writers DEF Serial
  <2>3. Serial => InTrees'
    BY <1>2, SplitStep, LayoutHomeStep, ListedStep, LeafStep DEF DiskInv, OnDisk, TreesInv, InTrees
  <2> QED BY <2>1, <2>2, <2>3 DEF TreesInv
<1>3. Ready /\ Owned /\ DiskInv /\ TreesInv /\ [Next]_vars => TreesInv'
  BY <1>2
<1> QED BY <1>1, <1>3, OwnedInvariant, DiskInvariant, PTL DEF Spec

\* At rest, after any number of RPCs of which no two overlapped, a pane that was
\* closed on request is in no layout tree, except as the sole root leaf that
\* LayoutNode::close leaves in place.
THEOREM ClosedLeaves == Spec => []ClosedPaneLeavesTree
<1>1. Ready /\ TreesInv => ClosedPaneLeavesTree
  <2> SUFFICES ASSUME Ready, TreesInv, Serial, Quiet, NEW s \in sessions, NEW w \in WinsOf(s),
                      NEW p \in layout[w], p \in signalled
               PROVE  layout[w] = {p}
    BY DEF ClosedPaneLeavesTree
  <2>1. w \in Windows /\ InRegistry(w)
    BY WinsOfWindows DEF InRegistry, Ready, TypeOK
  <2>2. \A t \in Tasks : ~At(t, "close_layout")
    BY DEF Quiet, At, Idle
  <2> QED BY <2>1, <2>2 DEF TreesInv, InTrees, LeafClosed
<1> QED BY <1>1, OwnedInvariant, TreesInvariant, PTL

-----------------------------------------------------------------------------
(* One RPC at a time: what leaves the lists *)

\* gc_stale_sessions kills sessions without a pane.
GcEmpty ==
  \A t \in Tasks : task[t].rpc = "gc" =>
    /\ \A s \in task[t].todo : panes[s] = {}
    /\ task[t].pc \in KillPcs => panes[task[t].sess] = {}

\* open_pane puts the pane into a window of the session.
OpenInWindow ==
  \A t \in Tasks : task[t].pc \in {"spawn_pty", "insert"} => task[t].win \in WinsOf(task[t].sess)

\* A listed pane with a running shell is in a window of its session.
RunningHome ==
  \A s \in sessions : \A p \in panes[s] : proc[p] = "running" => home[p] \in WinsOf(s)

\* close_window drops the window when every running shell in it was closed, and the
\* session when it has no window left.
WindowClosed ==
  \A t \in Tasks : task[t].rpc = "close_window" =>
    /\ task[t].pc \in ClosePcs \cup {"close_next", "close_remove"} /\ task[t].sess \in sessions =>
         \A p \in panes[task[t].sess] : home[p] \in task[t].del /\ proc[p] = "running" =>
           p \in task[t].todo \/ (At(t, "close_kill") /\ task[t].pane = p)
    /\ At(t, "close_remove") => task[t].todo = {}
    /\ At(t, "close_drop") => wins[task[t].sess] = <<>>

InLists == GcEmpty /\ OpenInWindow /\ RunningHome /\ WindowClosed

LEMMA GcStep ==
  ASSUME Ready, Serial, GcEmpty, [Next]_vars
  PROVE  GcEmpty'
<1> USE DEF Ready
<1>0. /\ Typed /\ panes \in [Sessions -> SUBSET Panes] /\ sessions \subseteq Sessions
      /\ \A t \in Tasks : FrameOK(t)
  BY DEF TypeOK, Typed, FramesOK
<1>1. CASE task' = task /\ \A s \in Sessions : panes'[s] \subseteq panes[s]
  <2>1. \A t \in Tasks : task[t].rpc = "gc" => task[t].todo \subseteq Sessions
                                               /\ (task[t].pc \in KillPcs => task[t].sess \in Sessions)
    BY <1>0 DEF FrameOK
  <2> QED BY <1>1, <2>1 DEF GcEmpty
<1>2. ASSUME NEW t \in Tasks, Lone(t), Request(t) PROVE GcEmpty'
  <2> SUFFICES ASSUME task'[t].rpc = "gc"
               PROVE  /\ \A s \in task'[t].todo : panes'[s] = {}
                      /\ task'[t].pc \in KillPcs => panes'[task'[t].sess] = {}
    BY <1>2 DEF GcEmpty, Lone
  <2>1. GcStaleSessions(t) /\ task'[t].pc = "gc_next"
    BY <1>0, <1>2, RequestEntry
  <2>2. task'[t] = [Idle EXCEPT !.rpc = "gc", !.pc = "gc_next", !.todo = {s \in sessions : panes[s] = {}}]
    BY <1>0, <2>1 DEF GcStaleSessions, Call, Typed
  <2>3. task'[t].todo = {s \in sessions : panes[s] = {}} /\ panes' = panes
    BY <1>2, <2>2, RequestWrites DEF Idle
  <2> QED BY <2>1, <2>3 DEF KillPcs
<1>3. ASSUME NEW t \in Tasks, Lone(t), Step(t) PROVE GcEmpty'
  <2> SUFFICES ASSUME task'[t].rpc = "gc"
               PROVE  /\ \A s \in task'[t].todo : panes'[s] = {}
                      /\ task'[t].pc \in KillPcs => panes'[task'[t].sess] = {}
    BY <1>3 DEF GcEmpty, Lone
  <2>1. StepKeepsFrame(t) /\ task[t].rpc = "gc"
    BY <1>0, <1>3, StepKeeps DEF StepKeepsFrame, Idle
  <2>2. task[t].pc \in {"kill_remove", "kill_panes", "gc_next"}
    BY <2>1, AtFrame DEF Stages, KillPcs
  <2>3. panes' = panes
    BY <1>3, <2>2, StepWrites DEF InsertPane, CloseKill, At
  <2>4. CASE GcNext(t)
    <3>1. CASE \E s \in task[t].todo :
                 task' = [task EXCEPT ![t].pc = "kill_remove", ![t].sess = s, ![t].todo = @ \ {s}]
      <4>1. PICK s \in task[t].todo :
              task' = [task EXCEPT ![t].pc = "kill_remove", ![t].sess = s, ![t].todo = @ \ {s}]
        BY <3>1
      <4>2. task'[t].sess = s /\ task'[t].todo \subseteq task[t].todo
        BY <1>0, <4>1 DEF Typed, Frames
      <4> QED BY <2>1, <2>3, <4>2 DEF GcEmpty
    <3>2. CASE Return(t)
      BY <1>0, <3>2 DEF Return, Typed, Idle
    <3> QED BY <2>4, <3>1, <3>2 DEF GcNext
  <2>5. CASE ~GcNext(t)
    <3>1. task'[t].sess = task[t].sess /\ task'[t].todo = task[t].todo
      BY <2>1, <2>2, <2>5 DEF StepKeepsFrame, CloseWindowNext, At
    <3>2. task[t].pc \in KillPcs
      BY <1>3, <2>2, <2>5 DEF KillPcs, Step, At, PushWindow, UpsertWindow, OpenLookup, OpenWindow, SpawnPty,
         InsertPane, InitLayout, PersistLayout, EmitSpawned, SplitLayout, EmitLayout, CloseKill, CloseLayout,
         EvictIfEmpty, CloseWindowNext, CloseWindowRemove, CloseWindowEmpty, CloseWindowDrop, DeleteRows,
         KillRemove, KillPanes
    <3> QED BY <2>1, <2>3, <3>1, <3>2 DEF GcEmpty
  <2> QED BY <2>4, <2>5
<1> QED BY <1>1, <1>2, <1>3, SerialStep

LEMMA OpenInWindowStep ==
  ASSUME Ready, Owned, Serial, OpenInWindow, [Next]_vars
  PROVE  OpenInWindow'
<1> USE DEF Ready
<1>0. Typed
  BY DEF TypeOK, Typed
<1>1. CASE task' = task /\ wins' = wins
  BY <1>1 DEF OpenInWindow, WinsOf
<1>2. ASSUME NEW t \in Tasks, Lone(t), Request(t) \/ Step(t) PROVE OpenInWindow'
  <2> SUFFICES ASSUME task'[t].pc \in {"spawn_pty", "insert"} PROVE (task[t].win \in WinsOf(task[t].sess))'
    BY <1>2 DEF OpenInWindow, Lone
  <2>1. Step(t)
    BY <1>0, <1>2, RequestEntry
  <2>2. CASE OpenWindow(t)
    <3>1. task[t].sess \in Sessions /\ wins' = wins
      BY <2>2, StageRpc, AtFrame DEF OpenWindow, At, OpenPcs, Opens, FrameOK, mem
    <3>2. task'[t].sess = task[t].sess /\ task'[t].win \in WinsOf(task[t].sess)
      <4>1. ASSUME wins[task[t].sess] # <<>>,
                   task' = [task EXCEPT ![t].pc = "spawn_pty", ![t].win = Head(wins[task[t].sess])]
            PROVE  task'[t].sess = task[t].sess /\ task'[t].win \in WinsOf(task[t].sess)
        BY <1>0, <3>1, <4>1, WinsOfWindows DEF Typed, Frames
      <4>2. ASSUME Goto(t, "spawn_pty")
            PROVE  task'[t].sess = task[t].sess /\ task'[t].win = task[t].win
        BY <1>0, <4>2 DEF Goto, Typed, Frames
      <4>3. ~Return(t)
        BY <1>0 DEF Return, Typed, Idle
      <4> QED BY <2>2, <4>1, <4>2, <4>3 DEF OpenWindow
    <3> QED BY <3>1, <3>2 DEF WinsOf
  <2>3. CASE SpawnPty(t)
    <3>1. task[t].win \in WinsOf(task[t].sess) /\ wins' = wins
      BY <2>3 DEF SpawnPty, At, OpenInWindow
    <3>2. task'[t].sess = task[t].sess /\ task'[t].win = task[t].win
      <4>1. ~Return(t)
        BY <1>0 DEF Return, Typed, Idle
      <4>2. PICK p \in Panes : task' = [task EXCEPT ![t].pc = "insert", ![t].pane = p]
        BY <2>3, <4>1 DEF SpawnPty
      <4> QED BY <1>0, <4>2 DEF Typed, Frames
    <3> QED BY <3>1, <3>2 DEF WinsOf
  <2> QED BY <2>1, <2>2, <2>3, StepEntry
<1> QED BY <1>1, <1>2, SerialStep

LEMMA RunningHomeStep ==
  ASSUME Ready, Owned, Serial, OneWindow, OpenInWindow, RunningHome, WindowClosed, [Next]_vars
  PROVE  RunningHome'
<1> USE DEF Ready
<1>0. /\ Typed /\ panes \in [Sessions -> SUBSET Panes] /\ sessions \subseteq Sessions /\ sessions' \subseteq Sessions
      /\ wins \in [Sessions -> Seq(Windows)] /\ home \in [Panes -> Windows \cup {None}] /\ HomesKept
      /\ \A s \in Sessions : \A p \in panes[s] : p \in Panes /\ home[p] \in Windows /\ proc[p] # "none"
  <2>1. \A s \in Sessions : \A p \in panes[s] : p \in Panes /\ home[p] \in Windows
    BY DEF Owned, PanesOwned, TypeOK
  <2>2. \A p \in Panes : home[p] \in Windows => proc[p] # "none"
    BY NoneAssumption DEF HomesOK
  <2> QED BY <2>1, <2>2, TypeStep, OwnerEffect DEF TypeOK, Typed
<1>1. CASE /\ UNCHANGED <<wins, home>> /\ sessions' \subseteq sessions
           /\ \A s \in Sessions : panes'[s] \subseteq panes[s]
           /\ \A p \in Panes : proc'[p] = "running" => proc[p] = "running"
  <2> SUFFICES ASSUME NEW s \in sessions', NEW p \in panes'[s], proc'[p] = "running" PROVE home'[p] \in WinsOf(s)'
    BY DEF RunningHome
  <2>1. s \in sessions /\ p \in panes[s] /\ p \in Panes /\ proc[p] = "running"
    BY <1>0, <1>1
  <2> QED BY <1>1, <2>1 DEF RunningHome, WinsOf
<1>2. ASSUME NEW t \in Tasks, Lone(t), Request(t) PROVE RunningHome'
  <2> SUFFICES ASSUME NEW s \in sessions', NEW p \in panes'[s], proc'[p] = "running" PROVE home'[p] \in WinsOf(s)'
    BY DEF RunningHome
  <2>1. panes' = panes /\ home' = home /\ proc' = proc
    BY <1>2, RequestWrites
  <2>2. s \in sessions /\ wins'[s] = wins[s]
    <3>1. CASE NewSession(t)
      <4>1. PICK x \in Sessions, w \in Windows :
              /\ \A v \in Windows : owner[v] # x
              /\ sessions' = sessions \cup {x} /\ wins' = [wins EXCEPT ![x] = <<w>>]
        BY <3>1 DEF NewSession
      <4>2. s # x
        BY <1>0, <2>1, <4>1 DEF Owned, PanesOwned
      <4> QED BY <1>0, <4>1, <4>2
    <3> QED BY <1>2, <3>1, RequestWrites
  <2> QED BY <2>1, <2>2 DEF RunningHome, WinsOf
<1>3. ASSUME NEW t \in Tasks, Lone(t), Step(t) PROVE RunningHome'
  <2> SUFFICES ASSUME NEW s \in sessions', NEW p \in panes'[s], proc'[p] = "running" PROVE home'[p] \in WinsOf(s)'
    BY DEF RunningHome
  <2>1. s \in sessions /\ s \in Sessions
    BY <1>0, <1>3, StepWrites DEF EvictIfEmpty, CloseWindowDrop, KillRemove
  <2>2. CASE p \notin panes[s]
    <3>1. InsertPane(t)
      BY <1>0, <1>3, <2>1, <2>2, StepWrites DEF CloseKill
    <3>2. p = task[t].pane /\ s = task[t].sess
      BY <1>0, <2>1, <2>2, <3>1 DEF InsertPane
    <3>3. home[p] = task[t].win /\ task[t].win \in WinsOf(s)
      BY <3>1, <3>2 DEF InsertPane, At, OpenInWindow, Owned, TaskOwns, Opening
    <3> QED BY <3>1, <3>3 DEF InsertPane, WinsOf
  <2>3. CASE p \in panes[s]
    <3>1. p \in Panes /\ home[p] \in Windows /\ home'[p] = home[p] /\ proc[p] = "running"
      <4>1. ASSUME SpawnPty(t) PROVE proc'[p] = proc[p]
        <5>1. ASSUME NEW q \in Panes, q = Fresh({x \in scn.panes : proc[x] = "none"}),
                     proc' = [proc EXCEPT ![q] = "running"]
              PROVE  proc'[p] = proc[p]
          <6>1. proc[q] = "none"
            BY <5>1, FreshMember
          <6> QED BY <1>0, <2>1, <2>3, <5>1, <6>1 DEF TypeOK
        <5> QED BY <4>1, <5>1 DEF SpawnPty
      <4> QED BY <1>0, <1>3, <2>1, <2>3, <4>1, StepWrites DEF HomesKept
    <3>2. home[p] \in WinsOf(s)
      BY <2>1, <2>3, <3>1 DEF RunningHome
    <3>3. CASE PushWindow(t)
      <4>1. wins' = [wins EXCEPT ![task[t].sess] = Append(@, task[t].win)] /\ task[t].win \in Windows
        BY <3>3, StageRpc, AtFrame DEF PushWindow, At, FrameOK
      <4>2. wins'[s] = wins[s] \/ wins'[s] = Append(wins[s], task[t].win)
        BY <1>0, <2>1, <4>1
      <4>5. ASSUME NEW ws \in Seq(Windows), NEW w \in Windows PROVE Elems(ws) \subseteq Elems(Append(ws, w))
        BY DEF Elems
      <4>6. home[p] \in Elems(wins[s]) /\ wins[s] \in Seq(Windows)
        BY <1>0, <2>1, <3>2, WinsOfElems
      <4>3. home[p] \in Elems(wins'[s])
        BY <4>1, <4>2, <4>5, <4>6
      <4> QED BY <3>1, <4>3 DEF WinsOf, Elems
    <3>4. CASE CloseWindowRemove(t)
      <4>1. /\ task[t].rpc = "close_window" /\ task[t].pc = "close_remove"
        BY <3>4, StageRpc DEF CloseWindowRemove, At
      <4>2. CASE wins' = wins
        BY <3>1, <3>2, <4>2 DEF WinsOf
      <4>3. CASE wins' # wins
        <5>1. PICK w \in task[t].del : wins' = [wins EXCEPT ![task[t].sess] = Retain(@, w)]
          BY <3>4, <4>3 DEF CloseWindowRemove
        <5>2. CASE s # task[t].sess
          <6>1. wins'[s] = wins[s]
            BY <1>0, <2>1, <5>1, <5>2
          <6> QED BY <3>1, <3>2, <6>1 DEF WinsOf
        <5>3. CASE s = task[t].sess
          <6>1. home[p] # w
            BY <2>1, <2>3, <3>1, <4>1, <5>3 DEF WindowClosed, At
          <6>2. wins'[s] = Retain(wins[s], w) /\ wins[s] \in Seq(Windows)
            BY <1>0, <2>1, <5>1, <5>3
          <6>3. home[p] \in Elems(wins'[s])
            BY <3>2, <6>1, <6>2, Retained, WinsOfElems
          <6> QED BY <3>1, <6>3 DEF WinsOf, Elems
        <5> QED BY <5>2, <5>3
      <4> QED BY <4>2, <4>3
    <3>5. CASE wins' = wins
      BY <3>1, <3>2, <3>5 DEF WinsOf
    <3> QED BY <1>3, <3>3, <3>4, <3>5, StepWrites
  <2> QED BY <2>2, <2>3
<1> QED BY <1>1, <1>2, <1>3, SerialStep

LEMMA WindowClosedStep ==
  ASSUME Ready, Owned, Serial, WindowClosed, [Next]_vars
  PROVE  WindowClosed'
<1> USE DEF Ready
<1>0. /\ Typed /\ panes \in [Sessions -> SUBSET Panes] /\ sessions \subseteq Sessions
      /\ \A t \in Tasks : FrameOK(t)
  BY DEF TypeOK, Typed, FramesOK
<1>1. CASE /\ task' = task /\ UNCHANGED <<wins, home>> /\ sessions' \subseteq sessions
           /\ \A s \in Sessions : panes'[s] \subseteq panes[s]
           /\ \A p \in Panes : proc'[p] = "running" => proc[p] = "running"
  <2> SUFFICES ASSUME NEW t \in Tasks, task[t].rpc = "close_window",
                      task[t].pc \in ClosePcs \cup {"close_next", "close_remove"}, task[t].sess \in sessions',
                      NEW p \in panes'[task[t].sess], home[p] \in task[t].del, proc'[p] = "running"
               PROVE  p \in task[t].todo \/ (At(t, "close_kill") /\ task[t].pane = p)
    BY <1>1 DEF WindowClosed, At
  <2>1. task[t].sess \in sessions /\ p \in panes[task[t].sess] /\ p \in Panes
    BY <1>0, <1>1
  <2> QED BY <1>1, <2>1 DEF WindowClosed
<1>2. ASSUME NEW t \in Tasks, Lone(t), Request(t) PROVE WindowClosed'
  <2>1. CASE CloseWindow(t)
    <3>1. PICK s \in sessions : \E w \in WinsOf(s) :
            Call(t, [Idle EXCEPT !.rpc = "close_window", !.pc = "close_next", !.sess = s, !.del = {w},
                                 !.todo = {p \in panes[s] : home[p] = w}])
      BY <2>1 DEF CloseWindow
    <3>2. PICK w \in WinsOf(s) :
            Call(t, [Idle EXCEPT !.rpc = "close_window", !.pc = "close_next", !.sess = s, !.del = {w},
                                 !.todo = {p \in panes[s] : home[p] = w}])
      BY <3>1
    <3>3. task'[t] = [Idle EXCEPT !.rpc = "close_window", !.pc = "close_next", !.sess = s, !.del = {w},
                                  !.todo = {p \in panes[s] : home[p] = w}]
      BY <1>0, <3>2 DEF Call, Typed
    <3>4. /\ task'[t].pc = "close_next" /\ task'[t].sess = s /\ task'[t].del = {w}
          /\ task'[t].todo = {p \in panes[s] : home[p] = w}
      BY <3>3 DEF Idle
    <3>5. home' = home /\ panes' = panes
      BY <1>2, RequestWrites
    <3>6. \A p \in panes'[task'[t].sess] : home'[p] \in task'[t].del => p \in task'[t].todo
      BY <3>4, <3>5
    <3> QED BY <1>2, <3>4, <3>6 DEF WindowClosed, At, Lone
  <2>2. CASE ~CloseWindow(t)
    <3>1. task'[t].rpc # "close_window"
      BY <1>0, <1>2, <2>2, RequestEntry
    <3> QED BY <1>2, <3>1 DEF WindowClosed, Lone
  <2> QED BY <2>1, <2>2
<1>3. ASSUME NEW t \in Tasks, Lone(t), Step(t) PROVE WindowClosed'
  <2>1. SUFFICES ASSUME task'[t].rpc = "close_window"
        PROVE  /\ task'[t].pc \in ClosePcs \cup {"close_next", "close_remove"} /\ task'[t].sess \in sessions' =>
                    \A p \in panes'[task'[t].sess] : home'[p] \in task'[t].del /\ proc'[p] = "running" =>
                      p \in task'[t].todo \/ (task'[t].pc = "close_kill" /\ task'[t].pane = p)
               /\ task'[t].pc = "close_remove" => task'[t].todo = {}
               /\ task'[t].pc = "close_drop" => wins'[task'[t].sess] = <<>>
    BY <1>3 DEF WindowClosed, At, Lone
  <2>2. /\ task[t].rpc = "close_window" /\ StepKeepsFrame(t)
        /\ task[t].pc \in ClosePcs \cup {"close_next", "close_remove", "close_empty", "close_drop", "delete_rows"}
    BY <1>0, <1>3, <2>1, StepKeeps, AtFrame DEF StepKeepsFrame, Idle, Stages
  <2>3. ~SpawnPty(t) /\ ~InsertPane(t) /\ ~GcNext(t) /\ ~PushWindow(t)
    BY <2>2 DEF SpawnPty, InsertPane, GcNext, PushWindow, At, ClosePcs
  <2>4. /\ home' = home /\ proc' = proc /\ sessions' \subseteq sessions
        /\ task'[t].sess = task[t].sess /\ task'[t].del = task[t].del /\ task[t].sess \in Sessions
    BY <1>0, <1>3, <2>2, <2>3, StepWrites
       DEF StepKeepsFrame, FrameOK, EvictIfEmpty, CloseWindowDrop, KillRemove
  <2>g. ASSUME NEW pc, Goto(t, pc) PROVE task'[t].pc = pc /\ task'[t].todo = task[t].todo
    BY <1>0, <2>g DEF Goto, Typed, Frames
  <2>5. ASSUME task'[t].pc \in ClosePcs \cup {"close_next", "close_remove"}, task[t].sess \in sessions',
               NEW p \in panes'[task[t].sess], home[p] \in task[t].del, proc[p] = "running"
        PROVE  p \in task'[t].todo \/ (task'[t].pc = "close_kill" /\ task'[t].pane = p)
    <3>1. task[t].pc \in ClosePcs \cup {"close_next", "close_remove"}
      <4>1. ~CloseWindowEmpty(t) /\ ~CloseWindowDrop(t) /\ ~DeleteRows(t)
        BY <1>0, <2>5, <2>g DEF CloseWindowEmpty, CloseWindowDrop, DeleteRows, ClosePcs, Return, Typed, Idle
      <4> QED BY <1>3, <2>2, <4>1, StepAt
    <3>2. p \in panes[task[t].sess]
      BY <1>0, <1>3, <2>3, <2>4, <2>5, StepWrites DEF CloseKill
    <3>3. p \in task[t].todo \/ (task[t].pc = "close_kill" /\ task[t].pane = p)
      BY <2>2, <2>4, <2>5, <3>1, <3>2 DEF WindowClosed, At
    <3>4. CASE CloseKill(t)
      <4>1. p # task[t].pane
        BY <1>0, <2>4, <2>5, <3>4 DEF CloseKill, Killable
      <4>2. task'[t].todo = task[t].todo
        BY <2>2, <2>3, <3>4 DEF StepKeepsFrame, CloseKill, CloseWindowNext, At
      <4> QED BY <3>3, <4>1, <4>2
    <3>5. CASE CloseWindowNext(t)
      <4>1. p \in task[t].todo /\ Listed(p)
        BY <2>4, <2>5, <3>2, <3>3, <3>5 DEF CloseWindowNext, At, Listed
      <4>2. PICK q \in task[t].todo :
              task' = [task EXCEPT ![t].pc = IF Listed(q) THEN "close_kill" ELSE "close_next",
                                   ![t].todo = @ \ {q}, ![t].pane = q]
        BY <3>5, <4>1 DEF CloseWindowNext
      <4>3. /\ task'[t].todo = task[t].todo \ {q} /\ task'[t].pane = q
            /\ Listed(q) => task'[t].pc = "close_kill"
        BY <1>0, <4>2 DEF Typed, Frames
      <4> QED BY <4>1, <4>3
    <3>6. CASE ~CloseKill(t) /\ ~CloseWindowNext(t)
      <4>1. task'[t].todo = task[t].todo
        BY <2>2, <2>3, <3>6 DEF StepKeepsFrame
      <4>2. task[t].pc # "close_kill"
        BY <1>3, <3>6 DEF Step, At, PushWindow, UpsertWindow, OpenLookup, OpenWindow, SpawnPty,
           InsertPane, InitLayout, PersistLayout, EmitSpawned, SplitLayout, EmitLayout, CloseLayout,
           EvictIfEmpty, CloseWindowRemove, CloseWindowEmpty, CloseWindowDrop, DeleteRows,
           GcNext, KillRemove, KillPanes
      <4> QED BY <3>3, <4>1, <4>2
    <3> QED BY <3>4, <3>5, <3>6
  <2>6. ASSUME task'[t].pc = "close_remove" PROVE task'[t].todo = {}
    <3>1. CloseWindowNext(t)
      BY <1>3, <2>6, StepEntry
    <3>2. ASSUME NEW q, task' = [task EXCEPT ![t].pc = IF Listed(q) THEN "close_kill" ELSE "close_next",
                                             ![t].todo = @ \ {q}, ![t].pane = q]
          PROVE  FALSE
      BY <1>0, <2>6, <3>2 DEF Typed, Frames
    <3> QED BY <2>g, <3>1, <3>2 DEF CloseWindowNext
  <2>7. ASSUME task'[t].pc = "close_drop" PROVE wins'[task'[t].sess] = <<>>
    <3>1. CloseWindowEmpty(t)
      BY <1>3, <2>7, StepEntry
    <3>2. wins' = wins /\ wins[task[t].sess] = <<>>
      BY <2>7, <2>g, <3>1 DEF CloseWindowEmpty, mem
    <3> QED BY <2>4, <3>2
  <2> QED BY <2>4, <2>5, <2>6, <2>7
<1> QED BY <1>1, <1>2, <1>3, SerialStep

ListsInv == Serial => InLists

LEMMA ListsInvariant == Spec => []ListsInv
<1>1. Init => ListsInv
  <2> SUFFICES ASSUME Init PROVE ListsInv
    OBVIOUS
  <2>1. GcEmpty /\ OpenInWindow /\ WindowClosed
    BY DEF Init, GcEmpty, OpenInWindow, WindowClosed, Idle
  <2>2. RunningHome
    BY DEF Init, RunningHome
  <2> QED BY <2>1, <2>2 DEF ListsInv, InLists
<1>2. ASSUME Ready, Owned, DiskInv, ListsInv, [Next]_vars PROVE ListsInv'
  <2>1. Serial' => Serial
    BY <1>2, Writers DEF Serial
  <2>2. Serial => InLists'
    BY <1>2, GcStep, OpenInWindowStep, RunningHomeStep, WindowClosedStep DEF DiskInv, ListsInv, InLists
  <2> QED BY <2>1, <2>2 DEF ListsInv
<1>3. Ready /\ Owned /\ DiskInv /\ ListsInv /\ [Next]_vars => ListsInv'
  BY <1>2
<1> QED BY <1>1, <1>3, OwnedInvariant, DiskInvariant, PTL DEF Spec

\* What HealthyPaneStays says of a step.
HealthyStep ==
  Serial => \A p \in Panes :
    Listed(p) /\ proc[p] = "running" /\ ~Listed(p)' =>
      \/ p \in signalled'
      \/ \E t \in Tasks : /\ At(t, "kill_remove")
                          /\ task[t].rpc \in {"kill", "close_session"}
                          /\ p \in panes[task[t].sess]

LEMMA HealthySteps ==
  ASSUME Ready, Owned, ListsInv, [Next]_vars
  PROVE  HealthyStep
<1> USE DEF Ready
<1> SUFFICES ASSUME Serial, NEW p \in Panes, Listed(p), proc[p] = "running", ~Listed(p)', p \notin signalled'
             PROVE  \E t \in Tasks : /\ At(t, "kill_remove") /\ task[t].rpc \in {"kill", "close_session"}
                                     /\ p \in panes[task[t].sess]
  BY DEF HealthyStep
<1>0. panes \in [Sessions -> SUBSET Panes] /\ sessions \subseteq Sessions
  BY DEF TypeOK
<1>1. PICK s \in sessions : p \in panes[s]
  BY DEF Listed
<1>2. s \notin sessions' \/ p \notin panes'[s]
  BY DEF Listed
\* Nothing but a signal takes the pane out of the map.
<1>3. p \in panes'[s]
  <2>1. ASSUME NEW t \in Tasks, InsertPane(t) PROVE p \in panes'[s]
    BY <1>0, <1>1, <2>1 DEF InsertPane
  <2>2. ASSUME NEW t \in Tasks, CloseKill(t) PROVE p \in panes'[s]
    BY <1>0, <1>1, <2>2 DEF CloseKill
  <2>3. ASSUME NEW q \in Panes, RemovePane(q) PROVE p \in panes'[s]
    BY <1>0, <1>1, <2>3 DEF RemovePane
  <2> QED BY <1>1, <2>1, <2>2, <2>3, Writers
\* Nothing but a kill takes its session out of the registry.
<1>4. s \notin sessions'
  BY <1>2, <1>3
<1>5. ASSUME NEW t \in Tasks, NewSession(t) PROVE FALSE
  BY <1>1, <1>4, <1>5 DEF NewSession
<1>6. ASSUME NEW t \in Tasks, EvictIfEmpty(t) PROVE FALSE
  BY <1>1, <1>4, <1>6 DEF EvictIfEmpty
<1>7. ASSUME NEW q \in Panes, RemovePane(q) PROVE FALSE
  BY <1>1, <1>4, <1>7 DEF RemovePane
<1>8. ASSUME NEW t \in Tasks, CloseWindowDrop(t) PROVE FALSE
  <2>1. task[t].sess = s /\ task[t].rpc = "close_window" /\ At(t, "close_drop")
    BY <1>1, <1>4, <1>8, StageRpc DEF CloseWindowDrop, At
  <2>2. wins[s] = <<>>
    BY <2>1 DEF ListsInv, InLists, WindowClosed
  <2>3. home[p] \in WinsOf(s)
    BY <1>1 DEF ListsInv, InLists, RunningHome
  <2> QED BY <2>2, <2>3 DEF WinsOf
<1>9. ASSUME NEW t \in Tasks, KillRemove(t)
      PROVE  At(t, "kill_remove") /\ task[t].rpc \in {"kill", "close_session"} /\ p \in panes[task[t].sess]
  <2>1. task[t].sess = s /\ At(t, "kill_remove") /\ task[t].rpc \in {"kill", "close_session", "gc"}
    BY <1>1, <1>4, <1>9, StageRpc DEF KillRemove, At, KillPcs
  <2>2. task[t].rpc # "gc"
    BY <1>1, <2>1 DEF ListsInv, InLists, GcEmpty, At, KillPcs
  <2> QED BY <1>1, <2>1, <2>2
<1> QED BY <1>1, <1>4, <1>5, <1>6, <1>7, <1>8, <1>9, Writers

\* After RPCs of which no two overlapped, a pane with a running shell leaves the
\* lists only when its shell was sent SIGTERM or its session is being killed: neither
\* close_window, nor the collection of stale sessions, nor the exit of another shell
\* takes it along.
THEOREM HealthyStays == Spec => HealthyPaneStays
<1>1. Ready /\ Owned /\ ListsInv /\ [Next]_vars => [HealthyStep]_vars
  BY HealthySteps
<1>2. Spec => [][HealthyStep]_vars
  BY <1>1, OwnedInvariant, ListsInvariant, PTL DEF Spec
<1>3. [HealthyStep]_vars =>
        [Serial => \A p \in Panes :
           Listed(p) /\ proc[p] = "running" /\ ~Listed(p)' =>
             \/ p \in signalled'
             \/ \E t \in Tasks : /\ At(t, "kill_remove")
                                 /\ task[t].rpc \in {"kill", "close_session"}
                                 /\ p \in panes[task[t].sess]]_vars
  BY DEF HealthyStep
<1> QED BY <1>2, <1>3, PTL DEF HealthyPaneStays
=============================================================================
