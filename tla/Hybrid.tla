------------------------------- MODULE Hybrid -------------------------------
(***************************************************************************)
(* One session of the hybrid daemon: the supervisor's WorkerRegistry and   *)
(* PaneIndex (supervisor.rs), the worker process that owns the session's   *)
(* PTYs (worker.rs), and the SQLite shard from which a respawned worker    *)
(* reopens them.  Every map is keyed by session, so sessions do not meet.  *)
(*                                                                         *)
(* A step ends where the code awaits or releases a lock.  Worker processes,*)
(* PaneIds and shells are identifiers used once.  Windows, layouts, blocks *)
(* and byte streams are left to other modules.  A worker's reply is        *)
(* delivered unless one of the two processes dies.                         *)
(***************************************************************************)
EXTENDS Naturals, FiniteSets

CONSTANTS
  MaxWorkers,  \* bounds on the worker processes started,
  MaxPanes,    \* the PaneIds generated,
  MaxShells,   \* the shells started
  MaxSlot,     \* and the slot numbers handed out
  Tasks,       \* supervisor RPCs in flight at the same time
  Scenarios,   \* which RPCs are called together with which faults
  None

Workers     == 1 .. MaxWorkers     \* in the order in which they are started
Panes       == 1 .. MaxPanes
Shells      == 1 .. MaxShells
Slots       == 0 .. MaxSlot
RpcNames    == {"spawn", "open_pane", "close_pane", "kill", "gc", "report"}
FaultNames  == {"crash", "timeout", "restart", "spawn_fails", "pty_fails"}

ASSUME HybridAssumption ==
  /\ {MaxWorkers, MaxPanes, MaxShells, MaxSlot} \subseteq Nat
  /\ None \notin Nat \cup Tasks
  /\ Scenarios \subseteq [workers : Workers, tasks : SUBSET Tasks, rpcs : SUBSET RpcNames,
                     faults : SUBSET FaultNames]

VARIABLES
  scn,         \* the scenario of this behaviour
  spawned,     \* the session has its row in the supervisor's store
  index,       \* PaneIndex.pane_to_slot
  drawn,       \* number of PaneIds generated so far
  next,        \* PaneIndex.next_slot
  dead,        \* PaneIndex.dead_slots
  handle,      \* WorkerRegistry.inner: the registered worker
  joining,     \* workers whose register_worker is being served
  pending,     \* pending_registrations: the spawn RPC that waits
  task,        \* RPC handlers of the supervisor
  bg,          \* SIGCHLD handler, heartbeat monitor and reattach task
  proc,        \* worker processes
  linked,      \* workers whose supervisor connection is the running one
  flag,        \* shutdown_flag of each worker
  stop,        \* the worker's delayed shutdown task
  shell,       \* shells, and the close_pane call that took each out of the map
  shard,       \* rows of the shard's panes table
  ended,       \* history: how each worker ended
  hist         \* history: registry.remove has run; a failed spawn or open left its slot

sup    == <<scn, spawned, index, drawn, next, dead, handle,
            joining, pending>>
wrk    == <<proc, linked, flag, stop, shell, shard>>
past   == <<ended, hist>>
vars   == <<sup, task, bg, wrk, past>>

Idle      == [pc |-> "idle", w |-> None, slot |-> 0, h |-> None]
Resting   == [pc |-> "idle", w |-> None, n |-> 0]
NoStop    == [pc |-> "no", todo |-> {}, cur |-> None]
NoShell   == [w |-> None, slot |-> 0, st |-> "none", pc |-> "none"]

At(t, pc)    == task[t].pc = pc
Goto(t, pc)  == task' = [task EXCEPT ![t].pc = pc]
Return(t)    == task' = [task EXCEPT ![t] = Idle]
Happened(e)  == hist' = hist \cup {e}

Started         == Cardinality({h \in Shells : shell[h].pc # "none"})
Alive(w)        == proc[w] \in {"boot", "bound", "up"}
Mapped(w)       == {h \in Shells : shell[h].w = w /\ shell[h].pc = "mapped"}
InSlot(w, i)    == {h \in Mapped(w) : shell[h].slot = i}
Indexed(i)      == {p \in Panes : index[p] = i}
Count           == Cardinality({p \in Panes : index[p] # None})

\* A close_pane call of worker w that has taken h out of the map.
ClosePcs     == {"delete", "notify", "evict_index", "evict_handle", "check"}
Notifying    == {"notify", "evict_index", "evict_handle"}
Closing(w)   == {h \in Shells : shell[h].w = w /\ shell[h].pc \in ClosePcs}

-----------------------------------------------------------------------------
(* WorkerRegistry *)

\* alloc_pane: the next slot under a new PaneId, in one write lock.
AllocPane ==
  /\ drawn < MaxPanes
  /\ next \in Slots
  /\ index' = [index EXCEPT ![drawn + 1] = next]
  /\ drawn' = drawn + 1
  /\ next' = next + 1

\* remove_pane_slot: the index without the PaneIds of slot i.
WithoutSlot(i) == [p \in Panes |-> IF index[p] = i THEN None ELSE index[p]]

\* remove, first lock: PaneIndex.remove_session.
RemoveIndex ==
  /\ index' = [p \in Panes |-> None]
  /\ next' = 0
  /\ dead' = {}
  /\ Happened("removed")

\* remove, second lock: the handle.
RemoveHandle == handle' = None

-----------------------------------------------------------------------------
(* Worker processes *)

\* spawn_worker: fork the worker, or fail.
SpawnWorker ==
  \/ \E w \in 1 .. scn.workers :
       /\ {v \in Workers : proc[v] # "none"} = 1 .. w - 1
       /\ proc' = [proc EXCEPT ![w] = "boot"]
       /\ linked' = linked \cup {w}
  \/ /\ "spawn_fails" \in scn.faults \/ proc[scn.workers] # "none"
     /\ UNCHANGED <<proc, linked>>

\* load_panes: the slots in the shard, of which some may fail to open.
LoadPanes == IF "pty_fails" \in scn.faults THEN SUBSET shard ELSE {shard}

\* Respawn recovery: reopen what load_panes returns; a pane that fails is
\* passed over.
Recover(w) ==
  /\ proc[w] = "boot"
  /\ \E ok \in LoadPanes :
       /\ Started + Cardinality(ok) <= MaxShells
       /\ \E f \in [1 .. Cardinality(ok) -> ok] :
            /\ \A i, j \in DOMAIN f : i < j => f[i] < f[j]
            /\ shell' = [h \in Shells |->
                 IF h - Started \in DOMAIN f
                 THEN [w |-> w, slot |-> f[h - Started], st |-> "running", pc |-> "mapped"]
                 ELSE shell[h]]
  /\ proc' = [proc EXCEPT ![w] = "bound"]
  /\ UNCHANGED <<sup, task, bg, linked, flag, stop, shard, past>>

\* register_worker arrives and the supervisor connects back; without a
\* supervisor the worker only logs and goes on.
Connect(w) ==
  /\ proc[w] = "bound"
  /\ w \notin joining
  /\ \/ w \in linked /\ joining' = joining \cup {w} /\ UNCHANGED proc
     \/ w \notin linked /\ proc' = [proc EXCEPT ![w] = "up"] /\ UNCHANGED joining
  /\ UNCHANGED <<scn, spawned, index, drawn, next, dead, handle, pending, task, bg,
                 linked, flag, stop, shell, shard, past>>

\* The handle replaces any other, and a waiting spawn is released.  If the
\* worker has ended meanwhile, the call is served all the same, or aborted.
Register(w) ==
  /\ w \in joining
  /\ joining' = joining \ {w}
  /\ \/ /\ handle' = w
        /\ task' = [t \in Tasks |-> IF t = pending THEN [task[t] EXCEPT !.pc = "client"]
                                    ELSE task[t]]
        /\ pending' = None
        /\ proc' = IF Alive(w) THEN [proc EXCEPT ![w] = "up"] ELSE proc
     \/ /\ ~Alive(w)
        /\ UNCHANGED <<handle, task, pending, proc>>
  /\ UNCHANGED <<scn, spawned, index, drawn, next, dead, bg, linked, flag, stop, shell,
                 shard, past>>

\* A process ends: its tasks stop where they are and its shells are hung up.
\* A pane_closed it has sent may still be served.
End(w) ==
  /\ proc' = [proc EXCEPT ![w] = "exited"]
  /\ shell' = [h \in Shells |-> IF shell[h].w = w
                                THEN [shell[h] EXCEPT !.st = "gone",
                                               !.pc = IF @ \in Notifying THEN @ ELSE "done"]
                                ELSE shell[h]]
  /\ stop' = [stop EXCEPT ![w] = NoStop]
  /\ flag' = [flag EXCEPT ![w] = FALSE]
  /\ UNCHANGED <<sup, task, bg, linked, shard, hist>>

\* Nothing is open, opening or closing in w.
Settled(w) ==
  /\ Mapped(w) = {}
  /\ Closing(w) = {}
  /\ \A t \in Tasks : task[t].pc \notin {"client", "alloc", "open", "insert"}

\* run returns once the shutdown flag has changed.
Exit(w) ==
  /\ proc[w] = "up"
  /\ flag[w]
  /\ End(w)
  /\ ended' = [ended EXCEPT ![w] = IF Settled(w) THEN "settled" ELSE "busy"]

Crash(w) ==
  /\ "crash" \in scn.faults
  /\ Alive(w)
  /\ End(w)
  /\ ended' = [ended EXCEPT ![w] = "crash"]

-----------------------------------------------------------------------------
(* open_pane in the worker, called by a supervisor task *)

\* openpty, spawn_command and the reader thread; or an error.
WorkerOpen(t) ==
  LET w == task[t].w IN
  /\ At(t, "open")
  /\ \/ /\ proc[w] = "up"
        /\ \E h \in Shells :
             /\ h = Started + 1
             /\ shell' = [shell EXCEPT ![h] = [w |-> w, slot |-> task[t].slot,
                                               st |-> "running", pc |-> "forked"]]
             /\ task' = [task EXCEPT ![t].pc = "insert", ![t].h = h]
             /\ UNCHANGED hist
     \/ /\ proc[w] # "up" \/ "pty_fails" \in scn.faults
        /\ Return(t)
        /\ Happened("leaked")
        /\ UNCHANGED shell
  /\ UNCHANGED <<sup, bg, proc, linked, flag, stop, shard, ended>>

\* panes.insert: a handle that was in the slot is dropped.
WorkerInsert(t) ==
  LET w == task[t].w
      h == task[t].h IN
  /\ At(t, "insert")
  /\ \/ /\ Alive(w)
        /\ shell' = [g \in Shells |->
                       IF g = h THEN [shell[g] EXCEPT !.pc = "mapped"]
                       ELSE IF g \in InSlot(w, task[t].slot)
                            THEN [shell[g] EXCEPT !.pc = "dropped"]
                            ELSE shell[g]]
        /\ Goto(t, "upsert")
     \/ /\ ~Alive(w)
        /\ Return(t)
        /\ UNCHANGED shell
  /\ UNCHANGED <<sup, bg, proc, linked, flag, stop, shard, past>>

\* shard.upsert_pane, then the reply; the supervisor emits Spawned.
WorkerUpsert(t) ==
  /\ At(t, "upsert")
  /\ shard' = IF Alive(task[t].w) THEN shard \cup {task[t].slot} ELSE shard
  /\ Return(t)
  /\ UNCHANGED <<sup, bg, proc, linked, flag, stop, shell, past>>

-----------------------------------------------------------------------------
(* close_pane in the worker *)

\* panes.remove(slot) and SIGTERM; nothing to do if the slot is empty.
CloseRemoved(w, i) ==
  [h \in Shells |-> IF h \in InSlot(w, i) THEN [shell[h] EXCEPT !.pc = "delete"]
                    ELSE shell[h]]

\* Mutant: DELETE without its WHERE clause.
CloseDeleteAll(h) ==
  /\ shell[h].pc = "delete"
  /\ shard' = {}
  /\ shell' = [shell EXCEPT ![h].pc = "notify"]
  /\ UNCHANGED <<sup, task, bg, proc, linked, flag, stop, past>>

\* shard.delete_pane.
CloseDelete(h) ==
  /\ shell[h].pc = "delete"
  /\ shard' = shard \ {shell[h].slot}
  /\ shell' = [shell EXCEPT ![h].pc = "notify"]
  /\ UNCHANGED <<sup, task, bg, proc, linked, flag, stop, past>>

\* Mutant: the mapping of the slot is kept.
PaneClosedKept(h) ==
  LET i == shell[h].slot IN
  /\ shell[h].pc = "notify"
  /\ shell[h].w \in linked
  /\ dead' = dead \cup {i}
  /\ shell' = [shell EXCEPT ![h].pc = "check"]
  /\ UNCHANGED <<scn, spawned, index, drawn, next, handle, joining, pending, task, bg,
                 proc, linked, flag, stop, shard, past>>

\* pane_closed in the supervisor.  A PaneId that its first step had to
\* allocate is removed by this one.
PaneClosed(h) ==
  LET i == shell[h].slot IN
  /\ shell[h].pc = "notify"
  /\ shell[h].w \in linked
  /\ index' = WithoutSlot(i)
  /\ dead' = dead \cup {i}
  /\ shell' = [shell EXCEPT ![h].pc =
                 IF \A p \in Panes : WithoutSlot(i)[p] = None THEN "evict_index" ELSE "check"]
  /\ UNCHANGED <<scn, spawned, drawn, next, handle, joining, pending, task, bg,
                 proc, linked, flag, stop, shard, past>>

\* remaining == 0: registry.remove.
EvictIndex(h) ==
  /\ shell[h].pc = "evict_index"
  /\ shell[h].w \in linked
  /\ RemoveIndex
  /\ shell' = [shell EXCEPT ![h].pc = "evict_handle"]
  /\ UNCHANGED <<scn, spawned, drawn, handle, joining, pending, task, bg,
                 proc, linked, flag, stop, shard, ended>>

EvictHandle(h) ==
  /\ shell[h].pc = "evict_handle"
  /\ shell[h].w \in linked
  /\ RemoveHandle
  /\ shell' = [shell EXCEPT ![h].pc = "check"]
  /\ UNCHANGED <<scn, spawned, index, drawn, next, dead, joining, pending, task, bg,
                 proc, linked, flag, stop, shard, past>>

\* The result is ignored: a worker cut off from the supervisor goes on, and
\* the call of a worker that has ended is aborted.
NotifyFails(h) ==
  LET w == shell[h].w IN
  /\ shell[h].pc \in Notifying \cup {"check"}
  /\ ~Alive(w) \/ (w \notin linked /\ shell[h].pc # "check")
  /\ shell' = [shell EXCEPT ![h].pc = IF Alive(w) THEN "check" ELSE "done"]
  /\ UNCHANGED <<sup, task, bg, proc, linked, flag, stop, shard, past>>

\* If no panes remain, signal shutdown.
CloseCheck(h) ==
  LET w == shell[h].w IN
  /\ shell[h].pc = "check"
  /\ Alive(w)
  /\ flag' = [flag EXCEPT ![w] = @ \/ Mapped(w) = {}]
  /\ shell' = [shell EXCEPT ![h].pc = "done"]
  /\ UNCHANGED <<sup, task, bg, proc, linked, stop, shard, past>>

\* The shell ends, on its own or from SIGTERM; the reader thread sees EOF,
\* reaps it and closes its slot, whoever is in it by now.
ReaderEof(h) ==
  /\ shell[h].st = "running"
  /\ shell' = [CloseRemoved(shell[h].w, shell[h].slot) EXCEPT ![h].st = "gone"]
  /\ UNCHANGED <<sup, task, bg, proc, linked, flag, stop, shard, past>>

-----------------------------------------------------------------------------
(* shutdown in the worker: after the grace period close the panes one by   *)
(* one, then set the flag                                                  *)

GraceOver(w) ==
  /\ proc[w] = "up"
  /\ stop[w].pc = "asked"
  /\ stop' = [stop EXCEPT ![w] = [pc |-> "closing",
                                  todo |-> {shell[h].slot : h \in Mapped(w)},
                                  cur |-> None]]
  /\ UNCHANGED <<sup, task, bg, proc, linked, flag, shell, shard, past>>

\* Mutant: the flag is left to the last close_pane.
ShutdownNextNoFlag(w) ==
  /\ proc[w] = "up"
  /\ stop[w].pc = "closing"
  /\ stop[w].cur # None => shell[stop[w].cur].pc = "done"
  /\ \/ \E i \in stop[w].todo :
          /\ shell' = CloseRemoved(w, i)
          /\ stop' = [stop EXCEPT ![w].todo = @ \ {i},
                                  ![w].cur = IF InSlot(w, i) = {} THEN None
                                             ELSE CHOOSE h \in InSlot(w, i) : TRUE]
     \/ /\ stop[w].todo = {}
        /\ stop' = [stop EXCEPT ![w].pc = "over", ![w].cur = None]
        /\ UNCHANGED shell
  /\ UNCHANGED <<sup, task, bg, proc, linked, flag, shard, past>>

ShutdownNext(w) ==
  /\ proc[w] = "up"
  /\ stop[w].pc = "closing"
  /\ stop[w].cur # None => shell[stop[w].cur].pc = "done"
  /\ \/ \E i \in stop[w].todo :
          /\ shell' = CloseRemoved(w, i)
          /\ stop' = [stop EXCEPT ![w].todo = @ \ {i},
                                  ![w].cur = IF InSlot(w, i) = {} THEN None
                                             ELSE CHOOSE h \in InSlot(w, i) : TRUE]
          /\ UNCHANGED flag
     \/ /\ stop[w].todo = {}
        /\ flag' = [flag EXCEPT ![w] = TRUE]
        /\ stop' = [stop EXCEPT ![w].pc = "over", ![w].cur = None]
        /\ UNCHANGED shell
  /\ UNCHANGED <<sup, task, bg, proc, linked, shard, past>>

-----------------------------------------------------------------------------
(* Client RPCs of the supervisor.  A step that finds nothing returns an    *)
(* error to the client.                                                    *)

Call(t, rpc, frame) ==
  /\ rpc \in scn.rpcs
  /\ t \in scn.tasks
  /\ task[t] = Idle
  /\ task' = [task EXCEPT ![t] = frame]

\* spawn: upsert_session and alloc_pane.
Spawn(t) ==
  /\ ~spawned
  /\ spawned' = TRUE
  /\ AllocPane
  /\ Call(t, "spawn", [Idle EXCEPT !.pc = "start", !.slot = next])
  /\ UNCHANGED <<scn, dead, handle, joining, pending, bg, wrk, past>>

\* The pending entry, then spawn_worker; its failure takes the entry back, but
\* not the slot.
SpawnStart(t) ==
  /\ At(t, "start")
  /\ SpawnWorker
  /\ \/ /\ proc' # proc
        /\ pending' = t
        /\ Goto(t, "await")
        /\ UNCHANGED hist
     \/ /\ proc' = proc
        /\ Return(t)
        /\ Happened("leaked")
        /\ UNCHANGED pending
  /\ UNCHANGED <<scn, spawned, index, drawn, next, dead, handle, joining, bg,
                 flag, stop, shell, shard, ended>>

\* No registration within 5 s.
SpawnTimeout(t) ==
  /\ At(t, "await")
  /\ "timeout" \in scn.faults \/ \A w \in linked : ~Alive(w)
  /\ pending' = None
  /\ Return(t)
  /\ Happened("leaked")
  /\ UNCHANGED <<scn, spawned, index, drawn, next, dead, handle, joining, bg, wrk, ended>>

\* get_ctrl_client for a spawn whose worker has registered.
SpawnClient(t) ==
  /\ At(t, "client")
  /\ \/ /\ handle # None
        /\ task' = [task EXCEPT ![t].pc = "open", ![t].w = handle]
        /\ UNCHANGED hist
     \/ /\ handle = None
        /\ Return(t)
        /\ Happened("leaked")
  /\ UNCHANGED <<sup, bg, wrk, ended>>

\* open_pane and open_pane_split: the client, then a slot.
OpenPane(t) ==
  /\ handle # None
  /\ Call(t, "open_pane", [Idle EXCEPT !.pc = "alloc", !.w = handle])
  /\ UNCHANGED <<sup, bg, wrk, past>>

OpenAlloc(t) ==
  /\ At(t, "alloc")
  /\ AllocPane
  /\ task' = [task EXCEPT ![t].pc = "open", ![t].slot = next]
  /\ hist' = IF proc[task[t].w] = "up" THEN hist ELSE hist \cup {"leaked"}
  /\ UNCHANGED <<scn, spawned, dead, handle, joining, pending, bg, wrk, ended>>

\* close_pane: look the pane up, then the client.
ClosePane(t) ==
  \E p \in Panes :
    /\ index[p] # None
    /\ handle # None
    /\ Call(t, "close_pane", [Idle EXCEPT !.pc = "close", !.w = handle,
                                           !.slot = index[p]])
    /\ UNCHANGED <<sup, bg, wrk, past>>

\* close_pane on the worker; pruning the layout follows its reply.
WorkerClose(t) ==
  LET w == task[t].w IN
  /\ At(t, "close")
  /\ \/ /\ proc[w] = "up"
        /\ shell' = CloseRemoved(w, task[t].slot)
     \/ /\ proc[w] # "up"
        /\ UNCHANGED shell
  /\ Return(t)
  /\ UNCHANGED <<sup, bg, proc, linked, flag, stop, shard, past>>

\* kill, close_session.
Kill(t) ==
  /\ spawned
  /\ Call(t, "kill", [Idle EXCEPT !.pc = "kill_index"])
  /\ UNCHANGED <<sup, bg, wrk, past>>

\* gc_stale_sessions: only a session whose worker lists no pane.
GcStaleSessions(t) ==
  /\ handle # None
  /\ proc[handle] = "up"
  /\ Mapped(handle) = {}
  /\ Call(t, "gc", [Idle EXCEPT !.pc = "kill_index"])
  /\ UNCHANGED <<sup, bg, wrk, past>>

KillIndex(t) ==
  /\ At(t, "kill_index")
  /\ RemoveIndex
  /\ Goto(t, "kill_handle")
  /\ UNCHANGED <<scn, spawned, drawn, handle, joining, pending, bg, wrk, ended>>

KillHandle(t) ==
  /\ At(t, "kill_handle")
  /\ RemoveHandle
  /\ IF handle # None
     THEN task' = [task EXCEPT ![t].pc = "shutdown", ![t].w = handle]
     ELSE Return(t)
  /\ UNCHANGED <<scn, spawned, index, drawn, next, dead, joining, pending, bg, wrk, past>>

\* shutdown(5) on the worker, which answers at once.
KillShutdown(t) ==
  LET w == task[t].w IN
  /\ At(t, "shutdown")
  /\ stop' = IF proc[w] = "up" /\ stop[w] = NoStop
             THEN [stop EXCEPT ![w].pc = "asked"] ELSE stop
  /\ Return(t)
  /\ UNCHANGED <<sup, bg, proc, linked, flag, shell, shard, past>>

\* list_all_panes: a slot of the worker's list, on its way to
\* get_or_alloc_pane_by_slot.
ListAllPanes(t) ==
  /\ handle # None
  /\ proc[handle] = "up"
  /\ \E h \in Mapped(handle) :
       Call(t, "report", [Idle EXCEPT !.pc = "resolve", !.slot = shell[h].slot])
  /\ UNCHANGED <<sup, bg, wrk, past>>

\* A slot a worker names in pane_state_changed or the first block_event of a
\* pane, on the same way.
Report(t) ==
  \E h \in Shells :
    /\ shell[h].w \in linked
    /\ Alive(shell[h].w)
    /\ shell[h].st = "running" \/ shell[h].pc = "mapped"
    /\ Call(t, "report", [Idle EXCEPT !.pc = "resolve", !.slot = shell[h].slot])
    /\ UNCHANGED <<sup, bg, wrk, past>>

\* Mutant: existing mappings are not looked up.
ResolveNoLookup(t) ==
  /\ At(t, "resolve")
  /\ IF task[t].slot \in dead THEN Return(t) ELSE Goto(t, "track")
  /\ UNCHANGED <<sup, bg, wrk, past>>

\* get_or_alloc_pane_by_slot, read lock: known, dead, or not tracked yet.
Resolve(t) ==
  LET i == task[t].slot IN
  /\ At(t, "resolve")
  /\ IF Indexed(i) # {} \/ i \in dead THEN Return(t) ELSE Goto(t, "track")
  /\ UNCHANGED <<sup, bg, wrk, past>>

\* Write lock: register a new PaneId, without looking again.
Track(t) ==
  /\ At(t, "track")
  /\ drawn < MaxPanes
  /\ index' = [index EXCEPT ![drawn + 1] = task[t].slot]
  /\ drawn' = drawn + 1
  /\ Return(t)
  /\ UNCHANGED <<scn, spawned, next, dead, handle, joining, pending, bg, wrk, past>>

-----------------------------------------------------------------------------
(* SIGCHLD handler and heartbeat monitor *)

Background == {"reaper", "monitor", "reattach"}

BgGoto(b, pc) == bg' = [bg EXCEPT ![b].pc = pc]

\* waitpid: children of the running supervisor only.
Reap(w) ==
  /\ bg["reaper"] = Resting
  /\ proc[w] = "exited"
  /\ w \in linked
  /\ proc' = [proc EXCEPT ![w] = "reaped"]
  /\ bg' = [bg EXCEPT !["reaper"] = [Resting EXCEPT !.pc = "find", !.w = w]]
  /\ UNCHANGED <<sup, task, linked, flag, stop, shell, shard, past>>

\* session_for_pid.
ReapFind ==
  /\ bg["reaper"].pc = "find"
  /\ bg' = [bg EXCEPT !["reaper"] = IF handle = @.w THEN [@ EXCEPT !.pc = "count"]
                                    ELSE Resting]
  /\ UNCHANGED <<sup, task, wrk, past>>

\* pane_count, on which the handler decides after the removal.
ReapCount ==
  /\ bg["reaper"].pc = "count"
  /\ bg' = [bg EXCEPT !["reaper"] = [@ EXCEPT !.pc = "rm_index", !.n = Count]]
  /\ UNCHANGED <<sup, task, wrk, past>>

\* Mutant: only a worker that is still there is called stale.
HeartbeatTimeoutLive ==
  /\ bg["monitor"] = Resting
  /\ handle # None
  /\ "timeout" \in scn.faults /\ Alive(handle)
  /\ bg' = [bg EXCEPT !["monitor"] = [pc |-> "rm_index", w |-> handle, n |-> 1]]
  /\ UNCHANGED <<sup, task, wrk, past>>

\* stale_sessions: no heartbeat for 15 s.  A heartbeat names its session, so
\* any worker that is left may send it; a live one may also be late.  SIGCHLD
\* is handled well within the 15 s.
Stale ==
  /\ handle # None
  /\ \/ "timeout" \in scn.faults
     \/ /\ \A w \in linked : proc[w] = "reaped"
        /\ bg["reaper"] = Resting

HeartbeatTimeout ==
  /\ bg["monitor"] = Resting
  /\ Stale
  /\ bg' = [bg EXCEPT !["monitor"] = [pc |-> "rm_index", w |-> handle, n |-> 1]]
  /\ UNCHANGED <<sup, task, wrk, past>>

BgRemoveIndex(b) ==
  /\ bg[b].pc = "rm_index"
  /\ RemoveIndex
  /\ BgGoto(b, "rm_handle")
  /\ UNCHANGED <<scn, spawned, drawn, handle, joining, pending, task, wrk, ended>>

\* A worker that left no pane behind is not respawned.
BgRemoveHandle(b) ==
  /\ bg[b].pc = "rm_handle"
  /\ RemoveHandle
  /\ bg' = [bg EXCEPT ![b] = IF @.n = 0 THEN Resting ELSE [@ EXCEPT !.pc = "respawn"]]
  /\ UNCHANGED <<scn, spawned, index, drawn, next, dead, joining, pending, task, wrk, past>>

Respawn(b) ==
  /\ bg[b].pc = "respawn"
  /\ SpawnWorker
  /\ bg' = [bg EXCEPT ![b] = Resting]
  /\ UNCHANGED <<sup, task, flag, stop, shell, shard, past>>

-----------------------------------------------------------------------------
(* Supervisor restart *)

\* The supervisor ends and is started again: its memory is gone and its workers
\* live on without it.
Restart ==
  /\ "restart" \in scn.faults
  /\ spawned
  /\ index' = [p \in Panes |-> None]
  /\ next' = 0
  /\ dead' = {}
  /\ handle' = None
  /\ joining' = {}
  /\ pending' = None
  /\ task' = [t \in Tasks |-> Idle]
  /\ bg' = [b \in Background |-> IF b = "reattach" THEN [Resting EXCEPT !.pc = "find"]
                                 ELSE Resting]
  /\ linked' = {}
  /\ Happened("removed")
  /\ UNCHANGED <<scn, spawned, drawn, proc, flag, stop, shell, shard, ended>>

\* shard_pane_count.
ShardPaneCount == Cardinality(shard)

\* A session with rows in its shard gets a new worker, a shard without rows is
\* removed.
Reattach ==
  /\ bg["reattach"].pc = "find"
  /\ bg' = [bg EXCEPT !["reattach"] = IF ShardPaneCount = 0 THEN Resting
                                      ELSE [Resting EXCEPT !.pc = "respawn"]]
  /\ UNCHANGED <<sup, task, wrk, past>>

-----------------------------------------------------------------------------
Init ==
  /\ scn \in Scenarios
  /\ spawned = FALSE
  /\ index = [p \in Panes |-> None]
  /\ drawn = 0
  /\ next = 0
  /\ dead = {}
  /\ handle = None
  /\ joining = {}
  /\ pending = None
  /\ task = [t \in Tasks |-> Idle]
  /\ bg = [b \in Background |-> Resting]
  /\ proc = [w \in Workers |-> "none"]
  /\ linked = {}
  /\ flag = [w \in Workers |-> FALSE]
  /\ stop = [w \in Workers |-> NoStop]
  /\ shell = [h \in Shells |-> NoShell]
  /\ shard = {}
  /\ ended = [w \in Workers |-> "no"]
  /\ hist = {}

\* A client or a worker calls the supervisor.
Request(t) ==
  \/ Spawn(t) \/ OpenPane(t) \/ ClosePane(t) \/ Kill(t) \/ GcStaleSessions(t)
  \/ ListAllPanes(t) \/ Report(t)

\* A handler goes on, in the supervisor or in the worker it has called.
Step(t) ==
  \/ SpawnStart(t) \/ SpawnTimeout(t) \/ SpawnClient(t) \/ OpenAlloc(t)
  \/ WorkerOpen(t) \/ WorkerInsert(t) \/ WorkerUpsert(t) \/ WorkerClose(t)
  \/ KillIndex(t) \/ KillHandle(t) \/ KillShutdown(t) \/ Resolve(t) \/ Track(t)

CloseStep(h) ==
  \/ CloseDelete(h) \/ PaneClosed(h) \/ EvictIndex(h) \/ EvictHandle(h)
  \/ NotifyFails(h) \/ CloseCheck(h)

WorkerStep(w) ==
  Recover(w) \/ Connect(w) \/ Register(w) \/ Exit(w) \/ GraceOver(w) \/ ShutdownNext(w)

BgStep ==
  \/ ReapFind \/ ReapCount \/ HeartbeatTimeout \/ Reattach \/ \E w \in Workers : Reap(w)
  \/ \E b \in Background : BgRemoveIndex(b) \/ BgRemoveHandle(b) \/ Respawn(b)

Next ==
  \/ \E t \in Tasks : Request(t) \/ Step(t)
  \/ \E h \in Shells : ReaderEof(h) \/ CloseStep(h)
  \/ \E w \in Workers : WorkerStep(w) \/ Crash(w)
  \/ BgStep \/ Restart

Spec == Init /\ [][Next]_vars

\* Both runtimes run every task that can go on; shells need never exit.
FairSpec ==
  /\ Spec
  /\ \A t \in Tasks : WF_vars(Step(t))
  /\ \A h \in Shells : WF_vars(CloseStep(h))
  /\ \A w \in Workers : WF_vars(WorkerStep(w))
  /\ WF_vars(BgStep)

-----------------------------------------------------------------------------
(* Properties *)

TaskPcs == {"idle", "start", "await", "client", "alloc", "open", "insert", "upsert",
            "close", "kill_index", "kill_handle", "shutdown", "resolve", "track"}
BgPcs   == {"idle", "find", "count", "rm_index", "rm_handle", "respawn"}

\* The local state of a handler, of a background task, of a worker's shutdown and
\* of a shell.
TaskStates  == [pc : TaskPcs, w : Workers \cup {None}, slot : Slots, h : Shells \cup {None}]
BgStates    == [pc : BgPcs, w : Workers \cup {None}, n : 0 .. MaxPanes + 1]
StopStates  == [pc : {"no", "asked", "closing", "over"}, todo : SUBSET Slots,
                cur : Shells \cup {None}]
ShellStates == [w : Workers \cup {None}, slot : Slots, st : {"none", "running", "gone"},
                pc : {"none", "forked", "mapped", "dropped", "done"} \cup ClosePcs]

\* Every variable keeps its type.
TypeOK ==
  /\ scn \in Scenarios
  /\ spawned \in BOOLEAN
  /\ index \in [Panes -> Slots \cup {None}]
  /\ drawn \in 0 .. MaxPanes
  /\ next \in 0 .. MaxSlot + 1
  /\ dead \subseteq Slots
  /\ handle \in Workers \cup {None}
  /\ joining \subseteq Workers
  /\ pending \in Tasks \cup {None}
  /\ task \in [Tasks -> TaskStates]
  /\ bg \in [Background -> BgStates]
  /\ proc \in [Workers -> {"none", "boot", "bound", "up", "exited", "reaped"}]
  /\ linked \subseteq Workers
  /\ flag \in [Workers -> BOOLEAN]
  /\ stop \in [Workers -> StopStates]
  /\ shell \in [Shells -> ShellStates]
  /\ shard \subseteq Slots
  /\ ended \in [Workers -> {"no", "settled", "busy", "crash"}]
  /\ hist \subseteq {"removed", "leaked"}

Untouched == "removed" \notin hist

\* get_or_alloc_pane_by_slot, "Return the stable PaneId": until the session is
\* first removed from the registry, a slot has one PaneId, however list_panes,
\* state reports, opens and closes interleave.
StablePaneId ==
  Untouched => \A i \in Slots : Cardinality(Indexed(i)) <= 1

\* Crash recovery reads the shard: a pane of the registered worker has its row
\* there, or the open that is to write it is still running.
LivePanesPersisted ==
  Untouched /\ handle # None =>
    \A h \in Mapped(handle) :
      shell[h].slot \in shard \/ \E t \in Tasks : At(t, "upsert") /\ task[t].h = h

\* pane_closed evicts the session "before the worker process actually exits":
\* a worker that ended by itself, with nothing left open or closing, is not
\* respawned, unless a spawn or an open that failed left its slot in the index.
CleanExitNotRespawned ==
  /\ bg["reaper"].pc = "rm_index"
  /\ bg["reaper"].n > 0
  /\ ended[bg["reaper"].w] = "settled"
  /\ Untouched
  => "leaked" \in hist

\* A worker that has died does not stay registered: SIGCHLD removes it, or the
\* heartbeat monitor when it was registered after SIGCHLD had been handled.
DeadHandleLeaves == []<>(handle # None => Alive(handle))

\* kill and close_session: no worker that was told to shut down stays.
ShutdownEnds == []<>(\A w \in Workers : stop[w].pc # "no" => ~Alive(w))

\* alloc_pane: "the next slot_idx" is one that no open pane of the session has.
SlotIsFree == \A h \in Shells : shell[h].pc # "dropped"
=========
