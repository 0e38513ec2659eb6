---------------------------- MODULE Hybrid_proofs ----------------------------
(***************************************************************************)
(* Proofs about the supervisor and its workers, for any number of RPCs in  *)
(* flight, worker processes, panes and shells, and whatever faults happen  *)
(* together.  The three safety properties are about a session that was not *)
(* removed from the registry yet (Untouched); each has its inductive       *)
(* invariant.                                                              *)
(***************************************************************************)
EXTENDS Hybrid, FiniteSetTheorems, TLAPS

-----------------------------------------------------------------------------
(* Types *)

\* The number of panes that pane_count returns is one the handler can hold.
LEMMA CountType == Count \in 0 .. MaxPanes
<1>1. IsFiniteSet(Panes) /\ Cardinality(Panes) = MaxPanes
  BY HybridAssumption, FS_Interval DEF Panes
<1>2. {p \in Panes : index[p] # None} \subseteq Panes
  OBVIOUS
<1>3. /\ IsFiniteSet({p \in Panes : index[p] # None})
      /\ Cardinality({p \in Panes : index[p] # None}) <= Cardinality(Panes)
  BY <1>1, <1>2, FS_Subset
<1>4. Cardinality({p \in Panes : index[p] # None}) \in Nat
  BY <1>3, FS_CardinalityType
<1> QED BY <1>1, <1>3, <1>4, HybridAssumption DEF Count

\* The local states the actions make.
LEMMA LocalStates ==
  /\ Idle \in TaskStates /\ Resting \in BgStates /\ NoStop \in StopStates
  /\ NoShell \in ShellStates
  /\ \A pc \in TaskPcs :
       /\ [Idle EXCEPT !.pc = pc] \in TaskStates
       /\ \A w \in Workers \cup {None} : [Idle EXCEPT !.pc = pc, !.w = w] \in TaskStates
       /\ \A i \in Slots : [Idle EXCEPT !.pc = pc, !.slot = i] \in TaskStates
       /\ \A w \in Workers \cup {None}, i \in Slots :
            [Idle EXCEPT !.pc = pc, !.w = w, !.slot = i] \in TaskStates
<1>1. 0 \in Slots
  BY HybridAssumption DEF Slots
<1>2. 0 \in 0 .. MaxPanes + 1
  BY HybridAssumption
<1>3. Idle \in TaskStates
  BY <1>1 DEF Idle, TaskStates, TaskPcs
<1>4. Resting \in BgStates
  BY <1>2 DEF Resting, BgStates, BgPcs
<1>5. NoStop \in StopStates
  BY DEF NoStop, StopStates
<1>6. NoShell \in ShellStates
  BY <1>1 DEF NoShell, ShellStates
<1>7. ASSUME NEW pc \in TaskPcs
      PROVE  /\ [Idle EXCEPT !.pc = pc] \in TaskStates
             /\ \A w \in Workers \cup {None} : [Idle EXCEPT !.pc = pc, !.w = w] \in TaskStates
             /\ \A i \in Slots : [Idle EXCEPT !.pc = pc, !.slot = i] \in TaskStates
             /\ \A w \in Workers \cup {None}, i \in Slots :
                  [Idle EXCEPT !.pc = pc, !.w = w, !.slot = i] \in TaskStates
  BY <1>3 DEF TaskStates
<1> QED BY <1>3, <1>4, <1>5, <1>6, <1>7

\* Updates of the local states.
LEMMA TaskUpdate ==
  ASSUME TypeOK, NEW t \in Tasks
  PROVE  /\ \A r \in TaskStates : [task EXCEPT ![t] = r] \in [Tasks -> TaskStates]
         /\ \A pc \in TaskPcs : [task EXCEPT ![t].pc = pc] \in [Tasks -> TaskStates]
         /\ \A pc \in TaskPcs, w \in Workers :
              [task EXCEPT ![t].pc = pc, ![t].w = w] \in [Tasks -> TaskStates]
         /\ \A pc \in TaskPcs, h \in Shells :
              [task EXCEPT ![t].pc = pc, ![t].h = h] \in [Tasks -> TaskStates]
         /\ \A pc \in TaskPcs, i \in Slots :
              [task EXCEPT ![t].pc = pc, ![t].slot = i] \in [Tasks -> TaskStates]
<1>1. task[t] \in TaskStates /\ task \in [Tasks -> TaskStates]
  BY DEF TypeOK
<1>2. \A r \in TaskStates : [task EXCEPT ![t] = r] \in [Tasks -> TaskStates]
  BY <1>1
<1>3. ASSUME NEW pc \in TaskPcs
      PROVE  [task EXCEPT ![t].pc = pc] \in [Tasks -> TaskStates]
  <2>1. [task[t] EXCEPT !.pc = pc] \in TaskStates
    BY <1>1 DEF TaskStates
  <2> QED BY <1>1, <2>1
<1>4. ASSUME NEW pc \in TaskPcs, NEW w \in Workers
      PROVE  [task EXCEPT ![t].pc = pc, ![t].w = w] \in [Tasks -> TaskStates]
  <2>1. [task[t] EXCEPT !.pc = pc, !.w = w] \in TaskStates
    BY <1>1 DEF TaskStates
  <2>2. [task EXCEPT ![t].pc = pc, ![t].w = w] = [task EXCEPT ![t] = [task[t] EXCEPT !.pc = pc, !.w = w]]
    BY <1>1
  <2> QED BY <1>1, <2>1, <2>2
<1>5. ASSUME NEW pc \in TaskPcs, NEW h \in Shells
      PROVE  [task EXCEPT ![t].pc = pc, ![t].h = h] \in [Tasks -> TaskStates]
  <2>1. [task[t] EXCEPT !.pc = pc, !.h = h] \in TaskStates
    BY <1>1 DEF TaskStates
  <2>2. [task EXCEPT ![t].pc = pc, ![t].h = h] = [task EXCEPT ![t] = [task[t] EXCEPT !.pc = pc, !.h = h]]
    BY <1>1
  <2> QED BY <1>1, <2>1, <2>2
<1>6. ASSUME NEW pc \in TaskPcs, NEW i \in Slots
      PROVE  [task EXCEPT ![t].pc = pc, ![t].slot = i] \in [Tasks -> TaskStates]
  <2>1. [task[t] EXCEPT !.pc = pc, !.slot = i] \in TaskStates
    BY <1>1 DEF TaskStates
  <2>2. [task EXCEPT ![t].pc = pc, ![t].slot = i] = [task EXCEPT ![t] = [task[t] EXCEPT !.pc = pc, !.slot = i]]
    BY <1>1
  <2> QED BY <1>1, <2>1, <2>2
<1> QED BY <1>2, <1>3, <1>4, <1>5, <1>6

LEMMA ReturnType ==
  ASSUME TypeOK, NEW t \in Tasks, Return(t)
  PROVE  task' \in [Tasks -> TaskStates]
BY LocalStates, TaskUpdate DEF Return

LEMMA GotoType ==
  ASSUME TypeOK, NEW t \in Tasks, NEW pc \in TaskPcs, Goto(t, pc)
  PROVE  task' \in [Tasks -> TaskStates]
BY TaskUpdate DEF Goto

\* The same of a shell, a background task and a shutdown.
LEMMA ShellUpdate ==
  ASSUME TypeOK, NEW h \in Shells,
         NEW pc \in {"none", "forked", "mapped", "dropped", "done"} \cup ClosePcs
  PROVE  /\ [shell[h] EXCEPT !.pc = pc] \in ShellStates
         /\ [shell EXCEPT ![h].pc = pc] \in [Shells -> ShellStates]
<1>1. shell[h] \in ShellStates /\ shell \in [Shells -> ShellStates]
  BY DEF TypeOK
<1>2. [shell[h] EXCEPT !.pc = pc] \in ShellStates
  BY <1>1 DEF ShellStates
<1> QED BY <1>1, <1>2

LEMMA CloseRemovedType ==
  ASSUME TypeOK, NEW w, NEW i
  PROVE  CloseRemoved(w, i) \in [Shells -> ShellStates]
<1>1. \A h \in Shells : [shell[h] EXCEPT !.pc = "delete"] \in ShellStates
  BY ShellUpdate DEF ClosePcs
<1> QED BY <1>1 DEF CloseRemoved, TypeOK

LEMMA BgUpdate ==
  ASSUME TypeOK, NEW b \in Background, NEW pc \in BgPcs
  PROVE  [bg[b] EXCEPT !.pc = pc] \in BgStates
<1>1. bg[b] \in BgStates
  BY DEF TypeOK
<1> QED BY <1>1 DEF BgStates

LEMMA SpawnWorkerType ==
  ASSUME TypeOK, SpawnWorker
  PROVE  /\ proc' \in [Workers -> {"none", "boot", "bound", "up", "exited", "reaped"}]
         /\ linked' \subseteq Workers
<1>1. 1 .. scn.workers \subseteq Workers
  BY HybridAssumption DEF TypeOK, Workers
<1>2. CASE UNCHANGED <<proc, linked>>
  BY <1>2 DEF TypeOK
<1>3. ASSUME NEW w \in Workers, proc' = [proc EXCEPT ![w] = "boot"], linked' = linked \cup {w}
      PROVE  /\ proc' \in [Workers -> {"none", "boot", "bound", "up", "exited", "reaped"}]
             /\ linked' \subseteq Workers
  BY <1>3 DEF TypeOK
<1> QED BY <1>1, <1>2, <1>3 DEF SpawnWorker

LEMMA AllocPaneType ==
  ASSUME TypeOK, AllocPane
  PROVE  /\ index' \in [Panes -> Slots \cup {None}]
         /\ drawn' \in 0 .. MaxPanes /\ next' \in 0 .. MaxSlot + 1 /\ next \in Slots
<1>1. drawn + 1 \in Panes
  BY HybridAssumption DEF TypeOK, AllocPane, Panes
<1>2. index' \in [Panes -> Slots \cup {None}]
  BY <1>1 DEF TypeOK, AllocPane
<1> QED BY <1>1, <1>2, HybridAssumption DEF TypeOK, AllocPane, Panes, Slots

LEMMA RemoveIndexType ==
  ASSUME TypeOK, RemoveIndex
  PROVE  /\ index' \in [Panes -> Slots \cup {None}] /\ next' \in 0 .. MaxSlot + 1
         /\ dead' \subseteq Slots /\ hist' \subseteq {"removed", "leaked"}
BY HybridAssumption DEF TypeOK, RemoveIndex, Happened

LEMMA EndType ==
  ASSUME TypeOK, NEW w \in Workers, End(w)
  PROVE  /\ proc' \in [Workers -> {"none", "boot", "bound", "up", "exited", "reaped"}]
         /\ shell' \in [Shells -> ShellStates]
         /\ stop' \in [Workers -> StopStates]
         /\ flag' \in [Workers -> BOOLEAN]
         /\ UNCHANGED <<sup, task, bg, linked, shard, hist>>
<1>1. ASSUME NEW h \in Shells
      PROVE  [shell[h] EXCEPT !.st = "gone",
                              !.pc = IF @ \in Notifying THEN @ ELSE "done"] \in ShellStates
  <2>1. shell[h] \in ShellStates
    BY DEF TypeOK
  <2> QED BY <2>1 DEF ShellStates
<1>2. shell' \in [Shells -> ShellStates]
  BY <1>1 DEF End, TypeOK
<1>3. stop' \in [Workers -> StopStates]
  BY LocalStates DEF End, TypeOK
<1> QED BY <1>2, <1>3 DEF End, TypeOK

LEMMA TypeInit == Init => TypeOK
<1> SUFFICES ASSUME Init PROVE TypeOK
  OBVIOUS
<1>1. drawn \in 0 .. MaxPanes /\ next \in 0 .. MaxSlot + 1
  BY HybridAssumption DEF Init
<1>2. /\ task \in [Tasks -> TaskStates] /\ bg \in [Background -> BgStates]
      /\ stop \in [Workers -> StopStates] /\ shell \in [Shells -> ShellStates]
  BY LocalStates DEF Init
<1> QED BY <1>1, <1>2 DEF Init, TypeOK

\* Each step of a handler, a worker, a shell and a background task keeps the types.
LEMMA TypeStep ==
  ASSUME TypeOK, [Next]_vars
  PROVE  TypeOK'
<1> USE DEF TypeOK, sup, wrk, past
<1>1. ASSUME NEW t \in Tasks, Spawn(t) PROVE TypeOK'
  <2>1. AllocPane /\ [Idle EXCEPT !.pc = "start", !.slot = next] \in TaskStates
    BY <1>1, AllocPaneType, LocalStates DEF Spawn, TaskPcs
  <2>2. task' \in [Tasks -> TaskStates]
    BY <1>1, <2>1, TaskUpdate DEF Spawn, Call
  <2> QED BY <1>1, <2>1, <2>2, AllocPaneType DEF Spawn
<1>2. ASSUME NEW t \in Tasks, OpenPane(t) PROVE TypeOK'
  <2>1. handle \in Workers
    BY <1>2 DEF OpenPane
  <2>2. [Idle EXCEPT !.pc = "alloc", !.w = handle] \in TaskStates
    BY <2>1, LocalStates DEF TaskPcs
  <2>3. task' \in [Tasks -> TaskStates]
    BY <1>2, <2>2, TaskUpdate DEF OpenPane, Call
  <2> QED BY <1>2, <2>3 DEF OpenPane
<1>3. ASSUME NEW t \in Tasks, ClosePane(t) PROVE TypeOK'
  <2>1. PICK p \in Panes :
          /\ index[p] # None /\ handle # None
          /\ Call(t, "close_pane", [Idle EXCEPT !.pc = "close", !.w = handle, !.slot = index[p]])
          /\ UNCHANGED <<sup, bg, wrk, past>>
    BY <1>3 DEF ClosePane
  <2>2. handle \in Workers /\ index[p] \in Slots
    BY <2>1
  <2>3. [Idle EXCEPT !.pc = "close", !.w = handle, !.slot = index[p]] \in TaskStates
    BY <2>2, LocalStates DEF TaskPcs
  <2>4. task' \in [Tasks -> TaskStates]
    BY <2>1, <2>3, TaskUpdate DEF Call
  <2> QED BY <2>1, <2>4
<1>4. ASSUME NEW t \in Tasks, Kill(t) \/ GcStaleSessions(t) PROVE TypeOK'
  <2>1. [Idle EXCEPT !.pc = "kill_index"] \in TaskStates
    BY LocalStates DEF TaskPcs
  <2>2. task' \in [Tasks -> TaskStates]
    BY ZenonT(40), <1>4, <2>1, TaskUpdate DEF Kill, GcStaleSessions, Call
  <2> QED BY <1>4, <2>2 DEF Kill, GcStaleSessions
<1>5. ASSUME NEW t \in Tasks, ListAllPanes(t) \/ Report(t) PROVE TypeOK'
  <2>1. PICK g \in Shells : \E rpc \in {"report"} :
          Call(t, rpc, [Idle EXCEPT !.pc = "resolve", !.slot = shell[g].slot])
    BY <1>5 DEF ListAllPanes, Report, Mapped
  <2>2. shell[g].slot \in Slots
    BY DEF ShellStates
  <2>3. [Idle EXCEPT !.pc = "resolve", !.slot = shell[g].slot] \in TaskStates
    BY <2>2, LocalStates DEF TaskPcs
  <2>4. task' \in [Tasks -> TaskStates]
    BY <2>1, <2>3, TaskUpdate DEF Call
  <2> QED BY <1>5, <2>4 DEF ListAllPanes, Report
<1>6. ASSUME NEW t \in Tasks, SpawnStart(t) PROVE TypeOK'
  <2>1. SpawnWorker /\ "await" \in TaskPcs
    BY <1>6 DEF SpawnStart, TaskPcs
  <2>2. task' \in [Tasks -> TaskStates]
    BY <1>6, <2>1, GotoType, ReturnType DEF SpawnStart
  <2>3. pending' \in Tasks \cup {None} /\ hist' \subseteq {"removed", "leaked"}
    BY <1>6 DEF SpawnStart, Happened
  <2> QED BY <1>6, <2>1, <2>2, <2>3, SpawnWorkerType DEF SpawnStart
<1>7. ASSUME NEW t \in Tasks, SpawnTimeout(t) PROVE TypeOK'
  <2>1. task' \in [Tasks -> TaskStates]
    BY <1>7, ReturnType DEF SpawnTimeout
  <2> QED BY <1>7, <2>1 DEF SpawnTimeout, Happened
<1>8. ASSUME NEW t \in Tasks, SpawnClient(t) PROVE TypeOK'
  <2>1. "open" \in TaskPcs
    BY DEF TaskPcs
  <2>2. task' \in [Tasks -> TaskStates]
    <3>1. CASE handle # None
      <4>1. handle \in Workers
        BY <3>1
      <4>2. task' = [task EXCEPT ![t].pc = "open", ![t].w = handle]
        BY <1>8, <3>1 DEF SpawnClient
      <4> QED BY <2>1, <4>1, <4>2, TaskUpdate
    <3>2. CASE handle = None
      BY <1>8, <3>2, ReturnType DEF SpawnClient
    <3> QED BY <3>1, <3>2
  <2> QED BY <1>8, <2>2 DEF SpawnClient, Happened
<1>9. ASSUME NEW t \in Tasks, OpenAlloc(t) PROVE TypeOK'
  <2>1. "open" \in TaskPcs /\ AllocPane /\ next \in Slots
    BY <1>9, AllocPaneType DEF TaskPcs, OpenAlloc
  <2>2. task' \in [Tasks -> TaskStates]
    BY <1>9, <2>1, TaskUpdate DEF OpenAlloc
  <2> QED BY <1>9, <2>1, <2>2, AllocPaneType DEF OpenAlloc
<1>10. ASSUME NEW t \in Tasks, WorkerOpen(t) PROVE TypeOK'
  <2>1. "insert" \in TaskPcs /\ task[t] \in TaskStates
    BY DEF TaskPcs
  <2>2. task' \in [Tasks -> TaskStates]
    <3>1. ASSUME NEW h \in Shells, task' = [task EXCEPT ![t].pc = "insert", ![t].h = h]
          PROVE  task' \in [Tasks -> TaskStates]
      BY <2>1, <3>1, TaskUpdate
    <3> QED BY <1>10, <3>1, ReturnType DEF WorkerOpen
  <2>3. [w |-> task[t].w, slot |-> task[t].slot, st |-> "running", pc |-> "forked"] \in ShellStates
    BY <2>1 DEF TaskStates, ShellStates
  <2>4. shell' \in [Shells -> ShellStates]
    BY <1>10, <2>3 DEF WorkerOpen
  <2> QED BY <1>10, <2>2, <2>4 DEF WorkerOpen, Happened
<1>11. ASSUME NEW t \in Tasks, WorkerInsert(t) PROVE TypeOK'
  <2>1. "upsert" \in TaskPcs
    BY DEF TaskPcs
  <2>2. task' \in [Tasks -> TaskStates]
    BY <1>11, <2>1, GotoType, ReturnType DEF WorkerInsert
  <2>3. \A g \in Shells : /\ [shell[g] EXCEPT !.pc = "mapped"] \in ShellStates
                          /\ [shell[g] EXCEPT !.pc = "dropped"] \in ShellStates
    BY ShellUpdate
  <2>4. shell' \in [Shells -> ShellStates]
    BY <1>11, <2>3 DEF WorkerInsert
  <2> QED BY <1>11, <2>2, <2>4 DEF WorkerInsert
<1>12. ASSUME NEW t \in Tasks, WorkerUpsert(t) PROVE TypeOK'
  <2>1. task' \in [Tasks -> TaskStates]
    BY <1>12, ReturnType DEF WorkerUpsert
  <2>2. task[t].slot \in Slots
    BY DEF TaskStates
  <2> QED BY <1>12, <2>1, <2>2 DEF WorkerUpsert
<1>13. ASSUME NEW t \in Tasks, WorkerClose(t) PROVE TypeOK'
  <2>1. task' \in [Tasks -> TaskStates]
    BY <1>13, ReturnType DEF WorkerClose
  <2>2. shell' \in [Shells -> ShellStates]
    BY <1>13, CloseRemovedType DEF WorkerClose
  <2> QED BY <1>13, <2>1, <2>2 DEF WorkerClose
<1>14. ASSUME NEW t \in Tasks, KillIndex(t) PROVE TypeOK'
  <2>1. "kill_handle" \in TaskPcs
    BY DEF TaskPcs
  <2>2. task' \in [Tasks -> TaskStates]
    BY <1>14, <2>1, TaskUpdate DEF KillIndex, Goto
  <2> QED BY <1>14, <2>2, RemoveIndexType DEF KillIndex
<1>15. ASSUME NEW t \in Tasks, KillHandle(t) PROVE TypeOK'
  <2>1. "shutdown" \in TaskPcs
    BY DEF TaskPcs
  <2>2. task' \in [Tasks -> TaskStates]
    <3>1. CASE handle # None
      <4>1. handle \in Workers
        BY <3>1
      <4>2. task' = [task EXCEPT ![t].pc = "shutdown", ![t].w = handle]
        BY <1>15, <3>1 DEF KillHandle
      <4> QED BY <2>1, <4>1, <4>2, TaskUpdate
    <3>2. CASE handle = None
      BY <1>15, <3>2, ReturnType DEF KillHandle
    <3> QED BY <3>1, <3>2
  <2> QED BY <1>15, <2>2 DEF KillHandle, RemoveHandle
<1>16. ASSUME NEW t \in Tasks, KillShutdown(t) PROVE TypeOK'
  <2>1. task' \in [Tasks -> TaskStates]
    BY <1>16, ReturnType DEF KillShutdown
  <2>2. stop' \in [Workers -> StopStates]
    <3>1. ASSUME NEW w \in Workers PROVE [stop[w] EXCEPT !.pc = "asked"] \in StopStates
      <4>1. stop[w] \in StopStates
        OBVIOUS
      <4> QED BY <4>1 DEF StopStates
    <3> QED BY <1>16, <3>1 DEF KillShutdown
  <2> QED BY <1>16, <2>1, <2>2 DEF KillShutdown
<1>17. ASSUME NEW t \in Tasks, Resolve(t) PROVE TypeOK'
  <2>1. "track" \in TaskPcs
    BY DEF TaskPcs
  <2>2. task' \in [Tasks -> TaskStates]
    BY <1>17, <2>1, GotoType, ReturnType DEF Resolve
  <2> QED BY <1>17, <2>2 DEF Resolve
<1>18. ASSUME NEW t \in Tasks, Track(t) PROVE TypeOK'
  <2>1. task' \in [Tasks -> TaskStates]
    BY <1>18, ReturnType DEF Track
  <2>2. task[t].slot \in Slots
    BY DEF TaskStates
  <2>3. drawn' \in 0 .. MaxPanes
    BY <1>18, HybridAssumption DEF Track
  <2> QED BY <1>18, <2>1, <2>2, <2>3 DEF Track
<1>19. ASSUME NEW h \in Shells, ReaderEof(h) PROVE TypeOK'
  <2>1. CloseRemoved(shell[h].w, shell[h].slot) \in [Shells -> ShellStates]
    BY CloseRemovedType
  <2>2. [CloseRemoved(shell[h].w, shell[h].slot)[h] EXCEPT !.st = "gone"] \in ShellStates
    <3> DEFINE r == CloseRemoved(shell[h].w, shell[h].slot)[h]
    <3>1. r \in ShellStates
      BY <2>1
    <3> HIDE DEF r
    <3>2. [r EXCEPT !.st = "gone"] \in ShellStates
      BY <3>1 DEF ShellStates
    <3> QED BY <3>2 DEF r
  <2>3. shell' \in [Shells -> ShellStates]
    BY <1>19, <2>1, <2>2 DEF ReaderEof
  <2> QED BY <1>19, <2>3 DEF ReaderEof
<1>20. ASSUME NEW h \in Shells, CloseDelete(h) PROVE TypeOK'
  <2>1. shell' \in [Shells -> ShellStates]
    BY <1>20, ShellUpdate DEF CloseDelete, ClosePcs
  <2> QED BY <1>20, <2>1 DEF CloseDelete
<1>21. ASSUME NEW h \in Shells, PaneClosed(h) PROVE TypeOK'
  <2>1. shell' \in [Shells -> ShellStates]
    BY <1>21, ShellUpdate DEF PaneClosed, ClosePcs
  <2>2. shell[h].slot \in Slots
    BY DEF ShellStates
  <2> QED BY <1>21, <2>1, <2>2 DEF PaneClosed, WithoutSlot
<1>22. ASSUME NEW h \in Shells, EvictIndex(h) PROVE TypeOK'
  <2>1. shell' \in [Shells -> ShellStates]
    BY <1>22, ShellUpdate DEF EvictIndex, ClosePcs
  <2> QED BY <1>22, <2>1, RemoveIndexType DEF EvictIndex
<1>23. ASSUME NEW h \in Shells, EvictHandle(h) PROVE TypeOK'
  <2>1. shell' \in [Shells -> ShellStates]
    BY <1>23, ShellUpdate DEF EvictHandle, ClosePcs
  <2> QED BY <1>23, <2>1 DEF EvictHandle, RemoveHandle
<1>24. ASSUME NEW h \in Shells, NotifyFails(h) PROVE TypeOK'
  <2>1. shell' \in [Shells -> ShellStates]
    BY <1>24, ShellUpdate DEF NotifyFails, ClosePcs
  <2> QED BY <1>24, <2>1 DEF NotifyFails
<1>25. ASSUME NEW h \in Shells, CloseCheck(h) PROVE TypeOK'
  <2>1. shell' \in [Shells -> ShellStates]
    BY <1>25, ShellUpdate DEF CloseCheck, ClosePcs
  <2>2. flag' \in [Workers -> BOOLEAN]
    BY <1>25 DEF CloseCheck
  <2> QED BY <1>25, <2>1, <2>2 DEF CloseCheck
<1>26. ASSUME NEW w \in Workers, Recover(w) PROVE TypeOK'
  <2>0. PICK ok \in LoadPanes : \E f \in [1 .. Cardinality(ok) -> ok] :
          shell' = [h \in Shells |->
                      IF h - Started \in DOMAIN f
                      THEN [w |-> w, slot |-> f[h - Started], st |-> "running", pc |-> "mapped"]
                      ELSE shell[h]]
    BY <1>26 DEF Recover
  <2>1. PICK f \in [1 .. Cardinality(ok) -> ok] :
          shell' = [h \in Shells |->
                      IF h - Started \in DOMAIN f
                      THEN [w |-> w, slot |-> f[h - Started], st |-> "running", pc |-> "mapped"]
                      ELSE shell[h]]
    BY <2>0
  <2>2. ok \subseteq Slots
    BY DEF LoadPanes
  <2>3. ASSUME NEW i \in Slots
        PROVE  [w |-> w, slot |-> i, st |-> "running", pc |-> "mapped"] \in ShellStates
    BY DEF ShellStates
  <2>4. shell' \in [Shells -> ShellStates]
    BY <2>1, <2>2, <2>3
  <2> QED BY <1>26, <2>4 DEF Recover
<1>27. ASSUME NEW w \in Workers, Connect(w) PROVE TypeOK'
  BY <1>27 DEF Connect
<1>28. ASSUME NEW w \in Workers, Register(w) PROVE TypeOK'
  <2>1. "client" \in TaskPcs
    BY DEF TaskPcs
  <2>2. \A t \in Tasks : [task[t] EXCEPT !.pc = "client"] \in TaskStates
    <3>1. \A t \in Tasks : task[t] \in TaskStates
      OBVIOUS
    <3> QED BY <2>1, <3>1 DEF TaskStates
  <2>3. task' \in [Tasks -> TaskStates]
    BY <1>28, <2>2 DEF Register
  <2> QED BY <1>28, <2>3 DEF Register
<1>29. ASSUME NEW w \in Workers, Exit(w) \/ Crash(w) PROVE TypeOK'
  <2>1. End(w) /\ ended' \in [Workers -> {"no", "settled", "busy", "crash"}]
    BY <1>29 DEF Exit, Crash
  <2> QED BY <2>1, EndType
<1>30. ASSUME NEW w \in Workers, GraceOver(w) PROVE TypeOK'
  <2>1. {shell[h].slot : h \in Mapped(w)} \in SUBSET Slots
    BY DEF Mapped, ShellStates
  <2>2. [pc |-> "closing", todo |-> {shell[h].slot : h \in Mapped(w)}, cur |-> None] \in StopStates
    BY <2>1 DEF StopStates
  <2>3. stop' \in [Workers -> StopStates]
    BY <1>30, <2>2 DEF GraceOver
  <2> QED BY <1>30, <2>3 DEF GraceOver
<1>31. ASSUME NEW w \in Workers, ShutdownNext(w) PROVE TypeOK'
  <2>0. stop[w] \in StopStates
    OBVIOUS
  <2>1. CASE stop[w].todo = {} /\ flag' = [flag EXCEPT ![w] = TRUE]
             /\ stop' = [stop EXCEPT ![w].pc = "over", ![w].cur = None] /\ UNCHANGED shell
    <3>1. [stop[w] EXCEPT !.pc = "over", !.cur = None] \in StopStates
      BY <2>0 DEF StopStates
    <3>2. stop' = [stop EXCEPT ![w] = [stop[w] EXCEPT !.pc = "over", !.cur = None]]
      BY <2>1
    <3>3. stop' \in [Workers -> StopStates]
      BY <3>1, <3>2
    <3> QED BY <1>31, <2>1, <3>3 DEF ShutdownNext
  <2>2. ASSUME NEW i \in stop[w].todo, shell' = CloseRemoved(w, i), UNCHANGED flag,
               stop' = [stop EXCEPT ![w].todo = @ \ {i},
                                    ![w].cur = IF InSlot(w, i) = {} THEN None
                                               ELSE CHOOSE h \in InSlot(w, i) : TRUE]
        PROVE  TypeOK'
    <3> DEFINE c == IF InSlot(w, i) = {} THEN None ELSE CHOOSE h \in InSlot(w, i) : TRUE
    <3>1. c \in Shells \cup {None}
      BY DEF InSlot, Mapped
    <3> HIDE DEF c
    <3>2. [stop[w] EXCEPT !.todo = stop[w].todo \ {i}, !.cur = c] \in StopStates
      BY <2>0, <3>1 DEF StopStates
    <3>3. stop' = [stop EXCEPT ![w] = [stop[w] EXCEPT !.todo = stop[w].todo \ {i}, !.cur = c]]
      BY <2>2 DEF c
    <3>4. stop' \in [Workers -> StopStates]
      BY <3>2, <3>3
    <3>5. shell' \in [Shells -> ShellStates]
      BY <2>2, CloseRemovedType
    <3> QED BY <1>31, <2>2, <3>4, <3>5 DEF ShutdownNext
  <2> QED BY <1>31, <2>1, <2>2 DEF ShutdownNext
<1>32. ASSUME NEW w \in Workers, Reap(w) PROVE TypeOK'
  <2>1. "reaper" \in Background /\ [Resting EXCEPT !.pc = "find", !.w = w] \in BgStates
    BY LocalStates DEF Background, BgStates, BgPcs
  <2>2. bg' \in [Background -> BgStates]
    BY <1>32, <2>1 DEF Reap
  <2> QED BY <1>32, <2>2 DEF Reap
<1>33. ASSUME NEW b \in Background, BgRemoveIndex(b) PROVE TypeOK'
  <2>1. [bg[b] EXCEPT !.pc = "rm_handle"] \in BgStates
    BY BgUpdate DEF BgPcs
  <2>2. bg' \in [Background -> BgStates]
    BY <1>33, <2>1 DEF BgRemoveIndex, BgGoto
  <2> QED BY <1>33, <2>2, RemoveIndexType DEF BgRemoveIndex
<1>34. ASSUME NEW b \in Background, BgRemoveHandle(b) PROVE TypeOK'
  <2>1. [bg[b] EXCEPT !.pc = "respawn"] \in BgStates
    BY BgUpdate DEF BgPcs
  <2>2. bg' \in [Background -> BgStates]
    BY <1>34, <2>1, LocalStates DEF BgRemoveHandle
  <2> QED BY <1>34, <2>2 DEF BgRemoveHandle, RemoveHandle
<1>35. ASSUME NEW b \in Background, Respawn(b) PROVE TypeOK'
  <2>1. bg' \in [Background -> BgStates]
    BY <1>35, LocalStates DEF Respawn
  <2> QED BY <1>35, <2>1, SpawnWorkerType DEF Respawn
<1>36. CASE ReapFind \/ ReapCount \/ HeartbeatTimeout \/ Reattach
  <2>1. {"reaper", "monitor", "reattach"} \subseteq Background /\ Count \in 0 .. MaxPanes + 1
        /\ 1 \in 0 .. MaxPanes + 1
    BY CountType, HybridAssumption DEF Background
  <2>2. /\ [bg["reaper"] EXCEPT !.pc = "count"] \in BgStates
        /\ [Resting EXCEPT !.pc = "respawn"] \in BgStates
    BY ZenonT(40), <2>1, BgUpdate, LocalStates DEF BgPcs, BgStates
  <2>3. [bg["reaper"] EXCEPT !.pc = "rm_index", !.n = Count] \in BgStates
    <3>1. bg["reaper"] \in BgStates
      BY <2>1
    <3> QED BY <2>1, <3>1 DEF BgPcs, BgStates
  <2>4. handle # None => [pc |-> "rm_index", w |-> handle, n |-> 1] \in BgStates
    BY <2>1 DEF BgPcs, BgStates
  <2>5. bg' \in [Background -> BgStates]
    <3>1. CASE ReapFind
      BY <2>1, <2>2, <3>1, LocalStates DEF ReapFind
    <3>2. CASE ReapCount
      BY <2>1, <2>3, <3>2 DEF ReapCount
    <3>3. CASE HeartbeatTimeout
      BY <2>1, <2>4, <3>3 DEF HeartbeatTimeout, Stale
    <3>4. CASE Reattach
      BY <2>1, <2>2, <3>4, LocalStates DEF Reattach
    <3> QED BY <1>36, <3>1, <3>2, <3>3, <3>4
  <2> QED BY <1>36, <2>5 DEF ReapFind, ReapCount, HeartbeatTimeout, Reattach
<1>37. CASE Restart
  <2>1. [Resting EXCEPT !.pc = "find"] \in BgStates
    BY LocalStates DEF BgPcs, BgStates
  <2>2. bg' \in [Background -> BgStates]
    BY <1>37, <2>1, LocalStates DEF Restart
  <2>3. task' \in [Tasks -> TaskStates]
    BY <1>37, LocalStates DEF Restart
  <2> QED BY <1>37, <2>2, <2>3, HybridAssumption DEF Restart, Happened
<1>38. CASE UNCHANGED vars
  BY <1>38 DEF vars
<1> QED
  BY <1>1, <1>2, <1>3, <1>4, <1>5, <1>6, <1>7, <1>8, <1>9, <1>10, <1>11, <1>12, <1>13,
     <1>14, <1>15, <1>16, <1>17, <1>18, <1>19, <1>20, <1>21, <1>22, <1>23, <1>24, <1>25,
     <1>26, <1>27, <1>28, <1>29, <1>30, <1>31, <1>32, <1>33, <1>34, <1>35, <1>36, <1>37,
     <1>38
  DEF Next, Request, Step, CloseStep, WorkerStep, BgStep

\* Every variable keeps its type, whatever RPCs, faults and restarts interleave.
THEOREM TypeCorrect == Spec => []TypeOK
BY TypeInit, TypeStep, PTL DEF Spec

-----------------------------------------------------------------------------
(* What a step does to the handlers and to the shells, field by field.     *)

\* Handler t goes on to pc and keeps its slot; all others stay.
TaskTo(t, pc) ==
  \A u \in Tasks : /\ task'[u].pc = IF u = t THEN pc ELSE task[u].pc
                   /\ task'[u].slot = task[u].slot
                   /\ task'[u].w = task[u].w /\ task'[u].h = task[u].h

\* Handler t has returned; all others stay.
TaskIdle(t) ==
  /\ task'[t].pc = "idle" /\ task'[t].w = None
  /\ \A u \in Tasks : u # t => task'[u] = task[u]

\* Shell h goes on to pc; nothing else of any shell changes.
ShellTo(h, pc) ==
  \A g \in Shells : /\ shell'[g].pc = IF g = h THEN pc ELSE shell[g].pc
                    /\ shell'[g].w = shell[g].w /\ shell'[g].slot = shell[g].slot

\* The shells mapped in slot i of worker w are taken out of the map.
ShellsRemoved(w, i) ==
  \A g \in Shells : /\ shell'[g].pc = IF g \in InSlot(w, i) THEN "delete" ELSE shell[g].pc
                    /\ shell'[g].w = shell[g].w /\ shell'[g].slot = shell[g].slot

LEMMA TaskFields ==
  ASSUME TypeOK
  PROVE  /\ \A u \in Tasks : /\ task[u].pc \in TaskPcs /\ task[u].slot \in Slots
                             /\ task[u].w \in Workers \cup {None}
                             /\ task[u].h \in Shells \cup {None}
         /\ \A h \in Shells : /\ shell[h].w \in Workers \cup {None} /\ shell[h].slot \in Slots
                              /\ shell[h].pc \in {"none", "forked", "mapped", "dropped", "done"}
                                                   \cup ClosePcs
         /\ None \notin Nat /\ None \notin Tasks
         /\ Slots \subseteq Nat /\ Workers \subseteq Nat /\ Shells \subseteq Nat
         /\ Panes \subseteq Nat /\ next \in Nat /\ drawn \in Nat
<1>1. /\ \A u \in Tasks : task[u] \in TaskStates
      /\ \A h \in Shells : shell[h] \in ShellStates
  BY DEF TypeOK
<1>2. \A u \in Tasks : /\ task[u].pc \in TaskPcs /\ task[u].slot \in Slots
                       /\ task[u].w \in Workers \cup {None} /\ task[u].h \in Shells \cup {None}
  BY <1>1 DEF TaskStates
<1>3. \A h \in Shells : /\ shell[h].w \in Workers \cup {None} /\ shell[h].slot \in Slots
                        /\ shell[h].pc \in {"none", "forked", "mapped", "dropped", "done"}
                                             \cup ClosePcs
  BY <1>1 DEF ShellStates
<1>4. /\ None \notin Nat /\ None \notin Tasks
      /\ Slots \subseteq Nat /\ Workers \subseteq Nat /\ Shells \subseteq Nat
      /\ Panes \subseteq Nat /\ next \in Nat /\ drawn \in Nat
  BY HybridAssumption DEF TypeOK, Slots, Workers, Shells, Panes
<1> QED BY <1>2, <1>3, <1>4

LEMMA GotoEffect ==
  ASSUME TypeOK, NEW t \in Tasks, NEW pc, Goto(t, pc)
  PROVE  TaskTo(t, pc)
<1>1. task[t] \in TaskStates /\ task \in [Tasks -> TaskStates]
  BY DEF TypeOK
<1>2. /\ [task[t] EXCEPT !.pc = pc].pc = pc /\ [task[t] EXCEPT !.pc = pc].slot = task[t].slot
      /\ [task[t] EXCEPT !.pc = pc].w = task[t].w /\ [task[t] EXCEPT !.pc = pc].h = task[t].h
  BY <1>1 DEF TaskStates
<1>3. task' = [task EXCEPT ![t] = [task[t] EXCEPT !.pc = pc]]
  BY <1>1 DEF Goto
<1> QED BY <1>1, <1>2, <1>3 DEF TaskTo

LEMMA ReturnEffect ==
  ASSUME TypeOK, NEW t \in Tasks, Return(t)
  PROVE  TaskIdle(t)
<1>1. task \in [Tasks -> TaskStates] /\ task' = [task EXCEPT ![t] = Idle]
  BY DEF TypeOK, Return
<1> QED BY <1>1 DEF TaskIdle, Idle

LEMMA CallEffect ==
  ASSUME TypeOK, NEW t \in Tasks, NEW rpc, NEW r, Call(t, rpc, r)
  PROVE  /\ rpc \in scn.rpcs /\ task[t] = Idle /\ task[t].pc = "idle"
         /\ task'[t] = r /\ \A u \in Tasks : u # t => task'[u] = task[u]
BY DEF TypeOK, Call, Idle

LEMMA ShellEffect ==
  ASSUME TypeOK, NEW h \in Shells, NEW pc, shell' = [shell EXCEPT ![h].pc = pc]
  PROVE  ShellTo(h, pc)
<1>1. shell[h] \in ShellStates /\ shell \in [Shells -> ShellStates]
  BY DEF TypeOK
<1>2. /\ [shell[h] EXCEPT !.pc = pc].pc = pc /\ [shell[h] EXCEPT !.pc = pc].slot = shell[h].slot
      /\ [shell[h] EXCEPT !.pc = pc].w = shell[h].w
  BY <1>1 DEF ShellStates
<1>3. shell' = [shell EXCEPT ![h] = [shell[h] EXCEPT !.pc = pc]]
  BY <1>1
<1> QED BY <1>1, <1>2, <1>3 DEF ShellTo

LEMMA CloseRemovedFields ==
  ASSUME TypeOK, NEW w, NEW i, NEW g \in Shells
  PROVE  /\ CloseRemoved(w, i)[g].pc = IF g \in InSlot(w, i) THEN "delete" ELSE shell[g].pc
         /\ CloseRemoved(w, i)[g].w = shell[g].w /\ CloseRemoved(w, i)[g].slot = shell[g].slot
<1>1. shell[g] \in ShellStates
  BY DEF TypeOK
<1>2. /\ [shell[g] EXCEPT !.pc = "delete"].pc = "delete"
      /\ [shell[g] EXCEPT !.pc = "delete"].slot = shell[g].slot
      /\ [shell[g] EXCEPT !.pc = "delete"].w = shell[g].w
  BY <1>1 DEF ShellStates
<1> QED BY <1>2 DEF CloseRemoved

LEMMA CloseEffect ==
  ASSUME TypeOK, NEW w, NEW i, shell' = CloseRemoved(w, i)
  PROVE  ShellsRemoved(w, i)
BY CloseRemovedFields DEF ShellsRemoved

LEMMA EofEffect ==
  ASSUME TypeOK, NEW h \in Shells, ReaderEof(h)
  PROVE  ShellsRemoved(shell[h].w, shell[h].slot)
<1> DEFINE f == CloseRemoved(shell[h].w, shell[h].slot)
<1>1. f \in [Shells -> ShellStates]
  BY CloseRemovedType
<1>2. \A g \in Shells :
        /\ f[g].pc = IF g \in InSlot(shell[h].w, shell[h].slot) THEN "delete" ELSE shell[g].pc
        /\ f[g].w = shell[g].w /\ f[g].slot = shell[g].slot
  BY CloseRemovedFields
<1>3. shell' = [f EXCEPT ![h].st = "gone"]
  BY DEF ReaderEof
<1> HIDE DEF f
<1>4. f[h] \in ShellStates
  BY <1>1
<1>5. /\ [f[h] EXCEPT !.st = "gone"].pc = f[h].pc /\ [f[h] EXCEPT !.st = "gone"].w = f[h].w
      /\ [f[h] EXCEPT !.st = "gone"].slot = f[h].slot
  BY <1>4 DEF ShellStates
<1>6. shell' = [f EXCEPT ![h] = [f[h] EXCEPT !.st = "gone"]]
  BY <1>1, <1>3
<1>7. \A g \in Shells : shell'[g].pc = f[g].pc /\ shell'[g].w = f[g].w /\ shell'[g].slot = f[g].slot
  BY <1>1, <1>5, <1>6
<1> QED BY <1>2, <1>7 DEF ShellsRemoved

LEMMA EndEffect ==
  ASSUME TypeOK, NEW w \in Workers, End(w)
  PROVE  \A g \in Shells :
           /\ shell'[g].pc = IF shell[g].w = w /\ shell[g].pc \notin Notifying THEN "done"
                             ELSE shell[g].pc
           /\ shell'[g].w = shell[g].w /\ shell'[g].slot = shell[g].slot
<1> SUFFICES ASSUME NEW g \in Shells
             PROVE  /\ shell'[g].pc = IF shell[g].w = w /\ shell[g].pc \notin Notifying
                                      THEN "done" ELSE shell[g].pc
                    /\ shell'[g].w = shell[g].w /\ shell'[g].slot = shell[g].slot
  OBVIOUS
<1> DEFINE r == [shell[g] EXCEPT !.st = "gone",
                                 !.pc = IF shell[g].pc \in Notifying THEN shell[g].pc ELSE "done"]
<1>1. shell[g] \in ShellStates
  BY DEF TypeOK
<1>2. /\ r.pc = IF shell[g].pc \in Notifying THEN shell[g].pc ELSE "done"
      /\ r.w = shell[g].w /\ r.slot = shell[g].slot
  BY <1>1 DEF ShellStates
<1>3. shell'[g] = IF shell[g].w = w THEN r ELSE shell[g]
  BY DEF End
<1> QED BY <1>2, <1>3

LEMMA InsertEffect ==
  ASSUME TypeOK, NEW t \in Tasks, WorkerInsert(t)
  PROVE  /\ \A g \in Shells : shell'[g].w = shell[g].w /\ shell'[g].slot = shell[g].slot
         /\ IF Alive(task[t].w)
            THEN \A g \in Shells :
                   shell'[g].pc = IF g = task[t].h THEN "mapped"
                                  ELSE IF g \in InSlot(task[t].w, task[t].slot) THEN "dropped"
                                       ELSE shell[g].pc
            ELSE shell' = shell
<1>1. CASE ~Alive(task[t].w)
  BY <1>1 DEF WorkerInsert
<1>2. CASE Alive(task[t].w)
  <2>1. ASSUME NEW g \in Shells, NEW pc
        PROVE  /\ [shell[g] EXCEPT !.pc = pc].pc = pc
               /\ [shell[g] EXCEPT !.pc = pc].slot = shell[g].slot
               /\ [shell[g] EXCEPT !.pc = pc].w = shell[g].w
    <3>1. shell[g] \in ShellStates
      BY DEF TypeOK
    <3> QED BY <3>1 DEF ShellStates
  <2>2. \A g \in Shells :
          shell'[g] = IF g = task[t].h THEN [shell[g] EXCEPT !.pc = "mapped"]
                      ELSE IF g \in InSlot(task[t].w, task[t].slot)
                           THEN [shell[g] EXCEPT !.pc = "dropped"] ELSE shell[g]
    BY <1>2 DEF WorkerInsert
  <2>3. ASSUME NEW g \in Shells
        PROVE  /\ shell'[g].w = shell[g].w /\ shell'[g].slot = shell[g].slot
               /\ shell'[g].pc = IF g = task[t].h THEN "mapped"
                                 ELSE IF g \in InSlot(task[t].w, task[t].slot) THEN "dropped"
                                      ELSE shell[g].pc
    <3>1. CASE g = task[t].h
      <4>1. shell'[g] = [shell[g] EXCEPT !.pc = "mapped"]
        BY <2>2, <3>1
      <4> QED BY <2>1, <3>1, <4>1
    <3>2. CASE g # task[t].h /\ g \in InSlot(task[t].w, task[t].slot)
      <4>1. shell'[g] = [shell[g] EXCEPT !.pc = "dropped"]
        BY <2>2, <3>2
      <4> QED BY <2>1, <3>2, <4>1
    <3>3. CASE g # task[t].h /\ g \notin InSlot(task[t].w, task[t].slot)
      BY <2>2, <3>3
    <3> QED BY <3>1, <3>2, <3>3
  <2> QED BY <1>2, <2>3
<1> QED BY <1>1, <1>2

\* Recovery fills shells of its own from rows of the shard.
LEMMA RecoverEffect ==
  ASSUME TypeOK, NEW w \in Workers, Recover(w)
  PROVE  \A h \in Shells : shell'[h] = shell[h] \/ shell'[h].slot \in shard
<1>1. PICK ok \in LoadPanes : \E f \in [1 .. Cardinality(ok) -> ok] :
        shell' = [h \in Shells |->
                    IF h - Started \in DOMAIN f
                    THEN [w |-> w, slot |-> f[h - Started], st |-> "running", pc |-> "mapped"]
                    ELSE shell[h]]
  BY DEF Recover
<1>2. ok \subseteq shard
  BY DEF LoadPanes
<1>3. PICK f \in [1 .. Cardinality(ok) -> ok] :
        shell' = [h \in Shells |->
                    IF h - Started \in DOMAIN f
                    THEN [w |-> w, slot |-> f[h - Started], st |-> "running", pc |-> "mapped"]
                    ELSE shell[h]]
  BY <1>1
<1>4. \A x \in DOMAIN f : f[x] \in shard
  BY <1>2
<1> DEFINE n == Started
<1> HIDE DEF n
<1>5. shell' = [h \in Shells |->
                  IF h - n \in DOMAIN f
                  THEN [w |-> w, slot |-> f[h - n], st |-> "running", pc |-> "mapped"]
                  ELSE shell[h]]
  BY <1>3 DEF n
<1> QED BY <1>4, <1>5

\* A registration releases the spawn that waits.
LEMMA RegisterEffect ==
  ASSUME TypeOK, NEW w \in Workers, Register(w)
  PROVE  \A u \in Tasks :
           /\ task'[u].slot = task[u].slot /\ task'[u].w = task[u].w /\ task'[u].h = task[u].h
           /\ task'[u].pc = task[u].pc \/ (u = pending /\ task'[u].pc = "client")
<1> SUFFICES ASSUME NEW u \in Tasks
             PROVE  /\ task'[u].slot = task[u].slot /\ task'[u].w = task[u].w
                    /\ task'[u].h = task[u].h
                    /\ task'[u].pc = task[u].pc \/ (u = pending /\ task'[u].pc = "client")
  OBVIOUS
<1>1. task[u] \in TaskStates
  BY DEF TypeOK
<1>2. /\ [task[u] EXCEPT !.pc = "client"].pc = "client"
      /\ [task[u] EXCEPT !.pc = "client"].slot = task[u].slot
      /\ [task[u] EXCEPT !.pc = "client"].w = task[u].w
      /\ [task[u] EXCEPT !.pc = "client"].h = task[u].h
  BY <1>1 DEF TaskStates
<1>3. task'[u] = task[u] \/ (u = pending /\ task'[u] = [task[u] EXCEPT !.pc = "client"])
  BY DEF Register
<1> QED BY <1>2, <1>3

-----------------------------------------------------------------------------
(* Slots.  As long as the session is not removed next_slot only grows; a   *)
(* slot below it has its PaneId or is dead, so get_or_alloc_pane_by_slot   *)
(* never has to track one.                                                 *)

\* A spawn that waits for its worker is the one the registration releases.
PendingAwaits == pending # None => At(pending, "await")

\* Handlers that hold a slot.
HoldsSlot(t) == task[t].pc \in {"start", "await", "client", "open", "insert", "upsert", "resolve", "close"}
UsedShell(h) == shell[h].w # None

IndexInv ==
  /\ \A p \in Panes : index[p] # None => index[p] < next /\ p <= drawn
  /\ \A p, q \in Panes : index[p] # None /\ index[p] = index[q] => p = q
  /\ \A i \in Slots : i < next => i \in dead \/ \E p \in Panes : index[p] = i

ShellsBelowNext ==
  /\ \A h \in Shells : UsedShell(h) => shell[h].slot < next
  /\ \A i \in shard : i < next

TasksBelowNext ==
  \A t \in Tasks : ~At(t, "track") /\ (HoldsSlot(t) => task[t].slot < next)

SlotInv ==
  /\ PendingAwaits
  /\ Untouched => IndexInv /\ ShellsBelowNext /\ TasksBelowNext

LEMMA AllocIndex ==
  ASSUME TypeOK, IndexInv, AllocPane, dead' = dead
  PROVE  IndexInv' /\ next' = next + 1
<1>1. /\ drawn + 1 \in Panes /\ drawn \in Nat /\ next \in Nat /\ Panes \subseteq Nat
      /\ Slots \subseteq Nat /\ None \notin Nat
  BY HybridAssumption, TaskFields DEF TypeOK, AllocPane, Panes
<1>2. /\ index' = [index EXCEPT ![drawn + 1] = next] /\ drawn' = drawn + 1 /\ next' = next + 1
      /\ index \in [Panes -> Slots \cup {None}]
  BY DEF AllocPane, TypeOK
<1>3. index[drawn + 1] = None
  BY <1>1 DEF IndexInv
<1>4. \A p \in Panes : index'[p] = IF p = drawn + 1 THEN next ELSE index[p]
  BY <1>1, <1>2
<1>5. ASSUME NEW p \in Panes, index'[p] # None PROVE index'[p] < next' /\ p <= drawn'
  <2>1. CASE p = drawn + 1
    BY <1>1, <1>2, <1>4, <2>1
  <2>2. CASE p # drawn + 1
    <3>1. index'[p] = index[p] /\ index[p] \in Nat /\ p \in Nat
      BY <1>1, <1>2, <1>4, <1>5, <2>2
    <3>2. index[p] < next /\ p <= drawn
      BY <1>5, <3>1 DEF IndexInv
    <3> QED BY <1>1, <1>2, <3>1, <3>2
  <2> QED BY <2>1, <2>2
<1>6. \A p, q \in Panes : index'[p] # None /\ index'[p] = index'[q] => p = q
  BY <1>1, <1>2, <1>4 DEF IndexInv
<1>7. ASSUME NEW i \in Slots, i < next' PROVE i \in dead' \/ \E p \in Panes : index'[p] = i
  <2>1. CASE i = next
    BY <1>1, <1>4, <2>1
  <2>2. CASE i < next
    BY <1>3, <1>1, <1>4, <2>2 DEF IndexInv
  <2> QED BY <1>1, <1>2, <1>7, <2>1, <2>2
<1> QED BY <1>2, <1>5, <1>6, <1>7 DEF IndexInv

LEMMA ClosedIndex ==
  ASSUME TypeOK, IndexInv, NEW h \in Shells, PaneClosed(h)
  PROVE  IndexInv'
<1>1. /\ \A p \in Panes : index'[p] = IF index[p] = shell[h].slot THEN None ELSE index[p]
      /\ dead' = dead \cup {shell[h].slot} /\ next' = next /\ drawn' = drawn
  BY DEF PaneClosed, WithoutSlot
<1> QED BY <1>1 DEF IndexInv

\* A session that is not removed after a step was not removed before it.
LEMMA UntouchedBefore ==
  ASSUME TypeOK, [Next]_vars, Untouched'
  PROVE  Untouched
<1> USE DEF Untouched, sup, wrk, past, RemoveIndex, Happened
<1>1. ASSUME NEW t \in Tasks, Request(t) PROVE Untouched
  BY <1>1 DEF Request, Spawn, OpenPane, ClosePane, Kill, GcStaleSessions, ListAllPanes, Report
<1>2. ASSUME NEW t \in Tasks, Step(t) PROVE Untouched
  BY <1>2 DEF Step, SpawnStart, SpawnTimeout, SpawnClient, OpenAlloc, WorkerOpen, WorkerInsert,
              WorkerUpsert, WorkerClose, KillIndex, KillHandle, KillShutdown, Resolve, Track
<1>3. ASSUME NEW h \in Shells, ReaderEof(h) \/ CloseStep(h) PROVE Untouched
  BY <1>3 DEF ReaderEof, CloseStep, CloseDelete, PaneClosed, EvictIndex, EvictHandle,
              NotifyFails, CloseCheck
<1>4. ASSUME NEW w \in Workers, WorkerStep(w) \/ Crash(w) PROVE Untouched
  BY <1>4 DEF WorkerStep, Recover, Connect, Register, Exit, GraceOver, ShutdownNext, Crash, End
<1>5. CASE BgStep
  BY <1>5 DEF BgStep, ReapFind, ReapCount, HeartbeatTimeout, Reattach, Reap, BgRemoveIndex,
              BgRemoveHandle, Respawn
<1>6. CASE Restart
  BY <1>6 DEF Restart
<1>7. CASE UNCHANGED vars
  BY <1>7 DEF vars
<1> QED BY <1>1, <1>2, <1>3, <1>4, <1>5, <1>6, <1>7 DEF Next

\* The spawn that waits.
LEMMA PendingStep ==
  ASSUME TypeOK, PendingAwaits, [Next]_vars
  PROVE  PendingAwaits'
<1>0. pending \in Tasks \cup {None}
  BY DEF TypeOK
<1> USE <1>0 DEF PendingAwaits, At, sup, wrk, past
<1>1. ASSUME NEW t \in Tasks, NEW rpc, NEW r, Call(t, rpc, r), pending' = pending
      PROVE  PendingAwaits'
  BY <1>1, CallEffect
<1>2. ASSUME NEW t \in Tasks, Request(t) PROVE PendingAwaits'
  BY <1>1, <1>2 DEF Request, Spawn, OpenPane, ClosePane, Kill, GcStaleSessions, ListAllPanes, Report
<1>3. ASSUME NEW t \in Tasks, ~At(t, "await"), pending' = pending,
             \A u \in Tasks : u # t => task'[u].pc = task[u].pc
      PROVE  PendingAwaits'
  BY <1>3
<1>4. ASSUME NEW t \in Tasks, Return(t) PROVE \A u \in Tasks : u # t => task'[u].pc = task[u].pc
  BY <1>4, ReturnEffect DEF TaskIdle
<1>5. ASSUME NEW t \in Tasks, NEW pc, Goto(t, pc)
      PROVE  \A u \in Tasks : u # t => task'[u].pc = task[u].pc
  BY <1>5, GotoEffect DEF TaskTo
<1>6. ASSUME NEW t \in Tasks, SpawnStart(t) PROVE PendingAwaits'
  <2>1. CASE pending' = t /\ Goto(t, "await")
    BY <2>1, GotoEffect DEF TaskTo
  <2>2. CASE Return(t) /\ UNCHANGED pending
    BY <1>3, <1>4, <1>6, <2>2 DEF SpawnStart
  <2> QED BY <1>6, <2>1, <2>2 DEF SpawnStart
<1>7. ASSUME NEW t \in Tasks, SpawnTimeout(t) PROVE PendingAwaits'
  BY <1>7 DEF SpawnTimeout
<1>8. ASSUME NEW t \in Tasks, SpawnClient(t) \/ OpenAlloc(t) \/ WorkerOpen(t) \/ KillHandle(t)
      PROVE  PendingAwaits'
  <2>1. \A u \in Tasks : u # t => task'[u].pc = task[u].pc
    BY <1>4, <1>8 DEF SpawnClient, OpenAlloc, WorkerOpen, KillHandle, TypeOK
  <2> QED BY <1>3, <1>8, <2>1 DEF SpawnClient, OpenAlloc, WorkerOpen, KillHandle, AllocPane
<1>9. ASSUME NEW t \in Tasks,
             \/ WorkerInsert(t) \/ WorkerUpsert(t) \/ WorkerClose(t) \/ KillIndex(t)
             \/ KillShutdown(t) \/ Resolve(t) \/ Track(t)
      PROVE  PendingAwaits'
  <2>1. \A u \in Tasks : u # t => task'[u].pc = task[u].pc
    BY <1>4, <1>5, <1>9 DEF WorkerInsert, WorkerUpsert, WorkerClose, KillIndex, KillShutdown,
                            Resolve, Track
  <2> QED BY <1>3, <1>9, <2>1 DEF WorkerInsert, WorkerUpsert, WorkerClose, KillIndex, KillShutdown,
                                  Resolve, Track
<1>10. ASSUME NEW h \in Shells, ReaderEof(h) \/ CloseStep(h) PROVE PendingAwaits'
  BY <1>10 DEF ReaderEof, CloseStep, CloseDelete, PaneClosed, EvictIndex, EvictHandle,
               NotifyFails, CloseCheck
<1>11. ASSUME NEW w \in Workers, Register(w) PROVE PendingAwaits'
  BY <1>11 DEF Register
<1>12. ASSUME NEW w \in Workers,
              Recover(w) \/ Connect(w) \/ Exit(w) \/ GraceOver(w) \/ ShutdownNext(w) \/ Crash(w)
       PROVE  PendingAwaits'
  BY <1>12 DEF Recover, Connect, Exit, GraceOver, ShutdownNext, Crash, End
<1>13. CASE BgStep
  BY <1>13 DEF BgStep, ReapFind, ReapCount, HeartbeatTimeout, Reattach, Reap, BgRemoveIndex,
               BgRemoveHandle, Respawn
<1>14. CASE Restart
  BY <1>14 DEF Restart
<1>15. CASE UNCHANGED vars
  BY <1>15 DEF vars
<1> QED
  BY <1>2, <1>6, <1>7, <1>8, <1>9, <1>10, <1>11, <1>12, <1>13, <1>14, <1>15
  DEF Next, Step, WorkerStep

\* A step of one handler, and a step that starts no shell.
LEMMA TaskBelow ==
  ASSUME TypeOK, TasksBelowNext, NEW t \in Tasks, next' \in Nat, next' >= next,
         \A u \in Tasks : u # t => task'[u].pc = task[u].pc /\ task'[u].slot = task[u].slot,
         task'[t].pc # "track", HoldsSlot(t)' => task'[t].slot < next'
  PROVE  TasksBelowNext'
<1>1. next \in Nat /\ \A u \in Tasks : task[u].slot \in Nat
  BY TaskFields
<1> QED BY <1>1 DEF TasksBelowNext, HoldsSlot, At

LEMMA ReturnBelow ==
  ASSUME TypeOK, TasksBelowNext, NEW t \in Tasks, Return(t), next' = next
  PROVE  TasksBelowNext'
<1>1. TaskIdle(t) /\ next \in Nat
  BY ReturnEffect, TaskFields
<1> QED BY <1>1, TaskBelow DEF TaskIdle, HoldsSlot

LEMMA GotoBelow ==
  ASSUME TypeOK, TasksBelowNext, NEW t \in Tasks, NEW pc, Goto(t, pc), next' = next,
         pc # "track", HoldsSlot(t) \/ pc \in {"kill_handle"}
  PROVE  TasksBelowNext'
<1>1. TaskTo(t, pc) /\ next \in Nat
  BY GotoEffect, TaskFields
<1>2. HoldsSlot(t) => task[t].slot < next
  BY DEF TasksBelowNext
<1> QED BY <1>1, <1>2, TaskBelow DEF TaskTo, HoldsSlot

LEMMA ShellBelow ==
  ASSUME TypeOK, ShellsBelowNext, next' \in Nat, next' >= next, shard' \subseteq shard,
         \A h \in Shells : shell'[h].w = shell[h].w /\ shell'[h].slot = shell[h].slot
  PROVE  ShellsBelowNext'
<1>1. next \in Nat /\ shard \subseteq Nat /\ \A h \in Shells : shell[h].slot \in Nat
  BY TaskFields DEF TypeOK
<1> QED BY <1>1 DEF ShellsBelowNext, UsedShell

LEMMA CallBelow ==
  ASSUME TypeOK, TasksBelowNext, NEW t \in Tasks, NEW rpc, NEW r, Call(t, rpc, r), next' = next,
         \/ r.pc \in {"alloc", "kill_index"}
         \/ r.pc \in {"close", "resolve"} /\ r.slot < next
  PROVE  TasksBelowNext'
<1>1. /\ task'[t] = r /\ \A u \in Tasks : u # t => task'[u] = task[u]
      /\ next \in Nat
  BY CallEffect, TaskFields
<1> QED BY <1>1, TaskBelow DEF HoldsSlot

LEMMA SlotStep ==
  ASSUME TypeOK, SlotInv, [Next]_vars
  PROVE  SlotInv'
<1> SUFFICES ASSUME Untouched'
             PROVE  IndexInv' /\ ShellsBelowNext' /\ TasksBelowNext'
  BY PendingStep DEF SlotInv
<1>0. PendingAwaits /\ Untouched /\ IndexInv /\ ShellsBelowNext /\ TasksBelowNext
  BY UntouchedBefore DEF SlotInv
<1>a. next \in Nat
  BY TaskFields
<1>b. ASSUME UNCHANGED <<index, dead, drawn, next>> PROVE IndexInv'
  BY <1>0, <1>b DEF IndexInv
<1>c. ASSUME UNCHANGED <<shell, shard, next>> PROVE ShellsBelowNext'
  BY <1>0, <1>a, <1>c, ShellBelow
<1>d. ASSUME UNCHANGED <<task, next>> PROVE TasksBelowNext'
  BY <1>0, <1>d DEF TasksBelowNext, HoldsSlot, At
<1> USE DEF sup, wrk, past
<1>1. ASSUME NEW t \in Tasks, Spawn(t)
      PROVE  IndexInv' /\ ShellsBelowNext' /\ TasksBelowNext'
  <2>1. IndexInv' /\ next' = next + 1
    BY <1>0, <1>1, AllocIndex DEF Spawn
  <2>2. ShellsBelowNext'
    BY <1>0, <1>1, <1>a, <2>1, ShellBelow DEF Spawn
  <2>3. task'[t].slot = next /\ task'[t].pc = "start" /\ \A u \in Tasks : u # t => task'[u] = task[u]
    <3>1. Call(t, "spawn", [Idle EXCEPT !.pc = "start", !.slot = next])
      BY <1>1 DEF Spawn
    <3>2. /\ task'[t] = [Idle EXCEPT !.pc = "start", !.slot = next]
          /\ \A u \in Tasks : u # t => task'[u] = task[u]
      BY <3>1, CallEffect
    <3> QED BY <3>2 DEF Idle
  <2>4. TasksBelowNext'
    BY <1>0, <1>a, <2>1, <2>3, TaskBelow
  <2> QED BY <2>1, <2>2, <2>4
<1>2. ASSUME NEW t \in Tasks, OpenPane(t) \/ Kill(t) \/ GcStaleSessions(t)
      PROVE  IndexInv' /\ ShellsBelowNext' /\ TasksBelowNext'
  <2>1. UNCHANGED <<index, dead, drawn, next, shell, shard>>
    BY <1>2 DEF OpenPane, Kill, GcStaleSessions
  <2>2. TasksBelowNext'
    BY <1>0, <1>2, <2>1, CallBelow DEF OpenPane, Kill, GcStaleSessions, Idle
  <2> QED BY <1>b, <1>c, <2>1, <2>2
<1>3. ASSUME NEW t \in Tasks, ClosePane(t)
      PROVE  IndexInv' /\ ShellsBelowNext' /\ TasksBelowNext'
  <2>1. UNCHANGED <<index, dead, drawn, next, shell, shard>>
    BY <1>3 DEF ClosePane
  <2>2. PICK p \in Panes :
          /\ index[p] # None
          /\ Call(t, "close_pane", [Idle EXCEPT !.pc = "close", !.w = handle, !.slot = index[p]])
    BY <1>3 DEF ClosePane
  <2>3. index[p] < next
    BY <1>0, <2>2 DEF IndexInv
  <2>4. TasksBelowNext'
    BY <1>0, <2>1, <2>2, <2>3, CallBelow DEF Idle
  <2> QED BY <1>b, <1>c, <2>1, <2>4
<1>4. ASSUME NEW t \in Tasks, ListAllPanes(t) \/ Report(t)
      PROVE  IndexInv' /\ ShellsBelowNext' /\ TasksBelowNext'
  <2>1. UNCHANGED <<index, dead, drawn, next, shell, shard>>
    BY <1>4 DEF ListAllPanes, Report
  <2>2. None \notin Workers /\ linked \subseteq Workers
    BY TaskFields DEF TypeOK
  <2>3. PICK h \in Shells :
          /\ shell[h].w # None
          /\ Call(t, "report", [Idle EXCEPT !.pc = "resolve", !.slot = shell[h].slot])
    BY <1>4, <2>2 DEF ListAllPanes, Report, Mapped
  <2>4. shell[h].slot < next
    BY <1>0, <2>3 DEF ShellsBelowNext, UsedShell
  <2>5. TasksBelowNext'
    BY <1>0, <2>1, <2>3, <2>4, CallBelow DEF Idle
  <2> QED BY <1>b, <1>c, <2>1, <2>5
<1>5. ASSUME NEW t \in Tasks, SpawnStart(t) \/ SpawnTimeout(t) \/ WorkerInsert(t) \/ WorkerUpsert(t)
      PROVE  IndexInv' /\ ShellsBelowNext' /\ TasksBelowNext'
  <2>1. UNCHANGED <<index, dead, drawn, next>> /\ HoldsSlot(t)
    BY <1>5 DEF SpawnStart, SpawnTimeout, WorkerInsert, WorkerUpsert, At, HoldsSlot
  <2>2. TasksBelowNext'
    <3>1. Return(t) \/ \E pc \in {"await", "upsert"} : Goto(t, pc)
      BY <1>5 DEF SpawnStart, SpawnTimeout, WorkerInsert, WorkerUpsert
    <3> QED BY <1>0, <2>1, <3>1, ReturnBelow, GotoBelow
  <2>3. task[t].slot < next
    BY <1>0, <2>1 DEF TasksBelowNext
  <2>4. shard' \subseteq shard \cup {task[t].slot}
    BY <1>5 DEF SpawnStart, SpawnTimeout, WorkerInsert, WorkerUpsert
  <2>5. \A h \in Shells : shell'[h].w = shell[h].w /\ shell'[h].slot = shell[h].slot
    <3>1. CASE WorkerInsert(t)
      BY <3>1, InsertEffect
    <3>2. CASE shell' = shell
      BY <3>2
    <3> QED BY <1>5, <3>1, <3>2 DEF SpawnStart, SpawnTimeout, WorkerUpsert
  <2>6. ShellsBelowNext'
    BY <1>0, <2>1, <2>3, <2>4, <2>5 DEF ShellsBelowNext, UsedShell
  <2> QED BY <1>b, <2>1, <2>2, <2>6
<1>6. ASSUME NEW t \in Tasks, SpawnClient(t)
      PROVE  IndexInv' /\ ShellsBelowNext' /\ TasksBelowNext'
  <2>1. UNCHANGED <<index, dead, drawn, next, shell, shard>>
    BY <1>6 DEF SpawnClient
  <2>2. TasksBelowNext'
    <3>1. CASE task' = [task EXCEPT ![t].pc = "open", ![t].w = handle]
      <4>1. task[t].slot < next
        BY <1>0, <1>6 DEF TasksBelowNext, HoldsSlot, SpawnClient, At
      <4>2. /\ task'[t].pc = "open" /\ task'[t].slot = task[t].slot
            /\ \A u \in Tasks : u # t => task'[u] = task[u]
        BY <3>1 DEF TypeOK, TaskStates
      <4> QED BY <1>0, <1>a, <2>1, <4>1, <4>2, TaskBelow
    <3>2. CASE Return(t)
      BY <1>0, <2>1, <3>2, ReturnBelow
    <3> QED BY <1>6, <3>1, <3>2 DEF SpawnClient
  <2> QED BY <1>b, <1>c, <2>1, <2>2
<1>7. ASSUME NEW t \in Tasks, OpenAlloc(t)
      PROVE  IndexInv' /\ ShellsBelowNext' /\ TasksBelowNext'
  <2>1. IndexInv' /\ next' = next + 1
    BY <1>0, <1>7, AllocIndex DEF OpenAlloc
  <2>2. ShellsBelowNext'
    BY <1>0, <1>7, <1>a, <2>1, ShellBelow DEF OpenAlloc
  <2>3. /\ task'[t].slot = next /\ task'[t].pc = "open"
        /\ \A u \in Tasks : u # t => task'[u] = task[u]
    BY <1>7 DEF OpenAlloc, TypeOK, TaskStates
  <2>4. TasksBelowNext'
    BY <1>0, <1>a, <2>1, <2>3, TaskBelow
  <2> QED BY <2>1, <2>2, <2>4
<1>8. ASSUME NEW t \in Tasks, WorkerOpen(t)
      PROVE  IndexInv' /\ ShellsBelowNext' /\ TasksBelowNext'
  <2>1. UNCHANGED <<index, dead, drawn, next, shard>>
    BY <1>8 DEF WorkerOpen
  <2>2. task[t].slot < next
    BY <1>0, <1>8 DEF TasksBelowNext, HoldsSlot, WorkerOpen, At
  <2>3. CASE Return(t) /\ UNCHANGED shell
    BY <1>0, <1>b, <1>c, <2>1, <2>3, ReturnBelow
  <2>4. ASSUME NEW h \in Shells,
               shell' = [shell EXCEPT ![h] = [w |-> task[t].w, slot |-> task[t].slot,
                                              st |-> "running", pc |-> "forked"]],
               task' = [task EXCEPT ![t].pc = "insert", ![t].h = h]
        PROVE  IndexInv' /\ ShellsBelowNext' /\ TasksBelowNext'
    <3>1. /\ task'[t].pc = "insert" /\ task'[t].slot = task[t].slot
          /\ \A u \in Tasks : u # t => task'[u] = task[u]
      BY <2>4 DEF TypeOK, TaskStates
    <3>2. \A g \in Shells : IF g = h THEN shell'[g].slot = task[t].slot ELSE shell'[g] = shell[g]
      BY <2>4 DEF TypeOK
    <3>3. ShellsBelowNext'
      BY <1>0, <2>1, <2>2, <3>2 DEF ShellsBelowNext, UsedShell
    <3> QED BY <1>0, <1>a, <1>b, <2>1, <2>2, <3>1, <3>3, TaskBelow
  <2> QED BY <1>8, <2>3, <2>4 DEF WorkerOpen
<1>9. ASSUME NEW t \in Tasks, WorkerClose(t)
      PROVE  IndexInv' /\ ShellsBelowNext' /\ TasksBelowNext'
  <2>1. UNCHANGED <<index, dead, drawn, next, shard>> /\ Return(t)
    BY <1>9 DEF WorkerClose
  <2>2. \A h \in Shells : shell'[h].w = shell[h].w /\ shell'[h].slot = shell[h].slot
    BY <1>9, CloseEffect DEF WorkerClose, ShellsRemoved
  <2>3. ShellsBelowNext'
    BY <1>0, <1>a, <2>1, <2>2, ShellBelow
  <2> QED BY <1>0, <1>b, <2>1, <2>3, ReturnBelow
<1>10. ASSUME NEW t \in Tasks, KillHandle(t) \/ KillShutdown(t)
       PROVE  IndexInv' /\ ShellsBelowNext' /\ TasksBelowNext'
  <2>1. UNCHANGED <<index, dead, drawn, next, shell, shard>>
    BY <1>10 DEF KillHandle, KillShutdown
  <2>2. CASE Return(t)
    BY <1>0, <1>b, <1>c, <2>1, <2>2, ReturnBelow
  <2>3. CASE task' = [task EXCEPT ![t].pc = "shutdown", ![t].w = handle]
    <3>1. task'[t].pc = "shutdown" /\ \A u \in Tasks : u # t => task'[u] = task[u]
      BY <2>3 DEF TypeOK, TaskStates
    <3> QED BY <1>0, <1>a, <1>b, <1>c, <2>1, <3>1, TaskBelow DEF HoldsSlot
  <2> QED BY <1>10, <2>2, <2>3 DEF KillHandle, KillShutdown
<1>11. ASSUME NEW t \in Tasks, Resolve(t)
       PROVE  IndexInv' /\ ShellsBelowNext' /\ TasksBelowNext'
  <2>1. UNCHANGED <<index, dead, drawn, next, shell, shard>>
    BY <1>11 DEF Resolve
  <2>2. task[t].slot < next /\ task[t].slot \in Slots
    BY <1>0, <1>11, TaskFields DEF TasksBelowNext, HoldsSlot, Resolve, At
  <2>3. Indexed(task[t].slot) # {} \/ task[t].slot \in dead
    BY <1>0, <2>2 DEF IndexInv, Indexed
  <2>4. Return(t)
    BY <1>11, <2>3 DEF Resolve
  <2> QED BY <1>0, <1>b, <1>c, <2>1, <2>4, ReturnBelow
<1>12. ASSUME NEW t \in Tasks PROVE ~Track(t) /\ ~KillIndex(t)
  BY <1>0 DEF Track, KillIndex, TasksBelowNext, RemoveIndex, Happened, Untouched
<1>13. ASSUME NEW h \in Shells, PaneClosed(h)
       PROVE  IndexInv' /\ ShellsBelowNext' /\ TasksBelowNext'
  <2>1. UNCHANGED <<next, task, shard>>
    BY <1>13 DEF PaneClosed
  <2>2. \A g \in Shells : shell'[g].w = shell[g].w /\ shell'[g].slot = shell[g].slot
    BY <1>13, ShellEffect DEF PaneClosed, ShellTo
  <2> QED BY <1>0, <1>13, <1>a, <1>d, <2>1, <2>2, ClosedIndex, ShellBelow
<1>14. ASSUME NEW h \in Shells,
              \/ ReaderEof(h) \/ CloseDelete(h) \/ EvictIndex(h) \/ EvictHandle(h)
              \/ NotifyFails(h) \/ CloseCheck(h)
       PROVE  IndexInv' /\ ShellsBelowNext' /\ TasksBelowNext'
  <2>1. UNCHANGED <<index, dead, drawn, next, task>> /\ shard' \subseteq shard
    BY <1>14 DEF ReaderEof, CloseDelete, EvictIndex, EvictHandle, NotifyFails, CloseCheck,
                 RemoveIndex, Happened, Untouched
  <2>2. \A g \in Shells : shell'[g].w = shell[g].w /\ shell'[g].slot = shell[g].slot
    BY <1>14, EofEffect, ShellEffect
    DEF CloseDelete, EvictIndex, EvictHandle, NotifyFails, CloseCheck, ShellTo, ShellsRemoved
  <2> QED BY <1>0, <1>a, <1>b, <1>d, <2>1, <2>2, ShellBelow
<1>15. ASSUME NEW w \in Workers, Recover(w)
       PROVE  IndexInv' /\ ShellsBelowNext' /\ TasksBelowNext'
  <2>1. UNCHANGED <<index, dead, drawn, next, task, shard>>
    BY <1>15 DEF Recover
  <2>2. \A h \in Shells : shell'[h] = shell[h] \/ shell'[h].slot \in shard
    BY <1>15, RecoverEffect
  <2>3. ShellsBelowNext'
    BY <1>0, <2>1, <2>2 DEF ShellsBelowNext, UsedShell
  <2> QED BY <1>b, <1>d, <2>1, <2>3
<1>16. ASSUME NEW w \in Workers, Register(w)
       PROVE  IndexInv' /\ ShellsBelowNext' /\ TasksBelowNext'
  <2>1. UNCHANGED <<index, dead, drawn, next, shell, shard>>
    BY <1>16 DEF Register
  <2>2. TasksBelowNext'
    <3>1. ASSUME NEW u \in Tasks PROVE ~At(u, "track")' /\ (HoldsSlot(u)' => task'[u].slot < next')
      <4>1. /\ task'[u].slot = task[u].slot
            /\ task'[u].pc = task[u].pc \/ (u = pending /\ task'[u].pc = "client")
        BY <1>16, RegisterEffect
      <4>2. u = pending => HoldsSlot(u)
        BY <1>0, TaskFields DEF PendingAwaits, At, HoldsSlot
      <4>3. ~At(u, "track") /\ (HoldsSlot(u) => task[u].slot < next)
        BY <1>0 DEF TasksBelowNext
      <4> QED BY <2>1, <4>1, <4>2, <4>3 DEF HoldsSlot, At
    <3> QED BY <3>1 DEF TasksBelowNext
  <2> QED BY <1>b, <1>c, <2>1, <2>2
<1>17. ASSUME NEW w \in Workers, Exit(w) \/ Crash(w) \/ ShutdownNext(w)
       PROVE  IndexInv' /\ ShellsBelowNext' /\ TasksBelowNext'
  <2>1. UNCHANGED <<index, dead, drawn, next, task, shard>>
    BY <1>17 DEF Exit, Crash, ShutdownNext, End
  <2>2. \A g \in Shells : shell'[g].w = shell[g].w /\ shell'[g].slot = shell[g].slot
    <3>1. CASE End(w)
      BY <3>1, EndEffect
    <3>2. ASSUME NEW i, shell' = CloseRemoved(w, i)
          PROVE  \A g \in Shells : shell'[g].w = shell[g].w /\ shell'[g].slot = shell[g].slot
      BY <3>2, CloseEffect DEF ShellsRemoved
    <3> QED BY <1>17, <3>1, <3>2 DEF Exit, Crash, ShutdownNext
  <2> QED BY <1>0, <1>a, <1>b, <1>d, <2>1, <2>2, ShellBelow
<1>18. ASSUME NEW w \in Workers, Connect(w) \/ GraceOver(w)
       PROVE  IndexInv' /\ ShellsBelowNext' /\ TasksBelowNext'
  BY <1>18, <1>b, <1>c, <1>d DEF Connect, GraceOver
<1>19. CASE BgStep
  BY <1>19, <1>b, <1>c, <1>d
  DEF BgStep, ReapFind, ReapCount, HeartbeatTimeout, Reattach, Reap, BgRemoveIndex,
      BgRemoveHandle, Respawn, RemoveIndex, Happened, Untouched
<1>20. ~Restart
  BY DEF Restart, Happened, Untouched
<1>21. CASE UNCHANGED vars
  BY <1>21, <1>b, <1>c, <1>d DEF vars
<1> QED
  BY <1>1, <1>2, <1>3, <1>4, <1>5, <1>6, <1>7, <1>8, <1>9, <1>10, <1>11, <1>12, <1>13, <1>14,
     <1>15, <1>16, <1>17, <1>18, <1>19, <1>20, <1>21
  DEF Next, Request, Step, CloseStep, WorkerStep

LEMMA SlotInvariant == Spec => []SlotInv
<1>1. Init => SlotInv
  <2> SUFFICES ASSUME Init PROVE SlotInv
    OBVIOUS
  <2>1. \A h \in Shells : ~UsedShell(h)
    BY DEF Init, UsedShell, NoShell
  <2>2. \A t \in Tasks : ~At(t, "track") /\ ~HoldsSlot(t)
    BY DEF Init, At, HoldsSlot, Idle
  <2>3. IndexInv
    BY HybridAssumption DEF Init, IndexInv, Slots
  <2> QED BY <2>1, <2>2, <2>3 DEF Init, SlotInv, PendingAwaits, ShellsBelowNext, TasksBelowNext
<1>2. TypeOK /\ SlotInv /\ [Next]_vars => SlotInv'
  BY SlotStep
<1> QED BY <1>1, <1>2, TypeCorrect, PTL DEF Spec

\* Until the session is removed from the registry a slot has at most one PaneId,
\* whatever list_all_panes, state reports, opens and closes
\* (get_or_alloc_pane_by_slot, alloc_pane, remove_pane_slot) do at the same time.
THEOREM StableId == Spec => []StablePaneId
<1>1. SlotInv => StablePaneId
  <2> SUFFICES ASSUME SlotInv, Untouched, NEW i \in Slots PROVE Cardinality(Indexed(i)) <= 1
    BY DEF StablePaneId
  <2>1. \A p, q \in Panes : index[p] # None /\ index[p] = index[q] => p = q
    BY DEF SlotInv, IndexInv
  <2>2. i # None
    BY HybridAssumption DEF Slots
  <2>3. CASE Indexed(i) = {}
    BY <2>3, FS_EmptySet
  <2>4. CASE Indexed(i) # {}
    <3>1. PICK p : p \in Indexed(i)
      BY <2>4
    <3>2. Indexed(i) = {p}
      BY <2>1, <2>2, <3>1 DEF Indexed
    <3>3. Cardinality({p}) = 1
      BY FS_Singleton
    <3> QED BY <3>2, <3>3
  <2> QED BY <2>3, <2>4
<1> QED BY <1>1, SlotInvariant, PTL

-----------------------------------------------------------------------------
(* Panes.  As long as the session is not removed it has one worker, the    *)
(* one its spawn started, whose shard is empty when it boots; and a slot   *)
(* is handed to one open, which starts one shell in it.                    *)

Born(w)    == proc[w] # "none"
Opening(t) == task[t].pc \in {"start", "await", "client", "open"}
Opened(t)  == task[t].pc \in {"insert", "upsert"}

\* Before the spawn nothing has happened.
NothingYet ==
  ~spawned => /\ handle = None /\ joining = {}
              /\ \A t \in Tasks : At(t, "idle")
              /\ \A w \in Workers : ~Born(w)

OneSpawn ==
  /\ \A v, w \in Workers : Born(v) /\ Born(w) => v = w
  /\ \A t, u \in Tasks : At(t, "start") /\ At(u, "start") => t = u
  /\ \A t \in Tasks, w \in Workers : At(t, "start") => ~Born(w)

NoRespawn ==
  /\ \A b \in Background : bg[b].pc \notin {"rm_handle", "respawn"}
  /\ bg["reattach"].pc = "idle"

Booting == \A w \in Workers : proc[w] \in {"none", "boot"}

EmptyShard == Booting => shard = {} /\ \A h \in Shells : ~UsedShell(h)

\* Shells are numbered as they are started.
ShellsInOrder ==
  /\ \E n \in 0 .. MaxShells : \A h \in Shells : shell[h].pc # "none" <=> h <= n
  /\ \A h \in Shells : shell[h].pc # "none" <=> UsedShell(h)

OneShellPerSlot ==
  /\ \A g, h \in Shells : UsedShell(g) /\ UsedShell(h) /\ shell[g].slot = shell[h].slot => g = h
  /\ \A t \in Tasks, h \in Shells : Opening(t) /\ UsedShell(h) => task[t].slot # shell[h].slot
  /\ \A t, u \in Tasks : Opening(t) /\ Opening(u) /\ task[t].slot = task[u].slot => t = u

\* What an open knows of its worker and of the shell it has started.
OpensKnow ==
  \A t \in Tasks :
    /\ task[t].pc \in {"alloc", "open"} => task[t].w # None
    /\ Opened(t) => /\ task[t].h \in Shells /\ UsedShell(task[t].h)
                    /\ shell[task[t].h].w = task[t].w
                    /\ shell[task[t].h].slot = task[t].slot

\* A shell in the map of a worker runs with it.
MappedAlive == \A h \in Shells : shell[h].pc = "mapped" => UsedShell(h) /\ Alive(shell[h].w)

Persisted ==
  \A h \in Shells : shell[h].pc = "mapped" =>
    shell[h].slot \in shard \/ \E t \in Tasks : At(t, "upsert") /\ task[t].h = h

Workplace == NothingYet /\ OneSpawn /\ NoRespawn /\ EmptyShard
PaneMap   == ShellsInOrder /\ OneShellPerSlot /\ OpensKnow /\ MappedAlive /\ Persisted
PaneInv   == Untouched => Workplace /\ PaneMap

LEMMA NothingYetStep ==
  ASSUME TypeOK, NothingYet, NoRespawn, [Next]_vars
  PROVE  NothingYet'
<1> SUFFICES ASSUME ~spawned' PROVE NothingYet'
  BY DEF NothingYet
<1> USE DEF sup, wrk, past
<1>a. linked \subseteq Workers /\ None \notin Workers
  BY TaskFields DEF TypeOK
<1>b. ASSUME UNCHANGED <<spawned, joining, task, proc>>, handle' \in {handle, None}
      PROVE  NothingYet'
  BY <1>b DEF NothingYet, At, Born
<1>1. ASSUME NEW t \in Tasks, Spawn(t) PROVE FALSE
  BY <1>1 DEF Spawn
<1>2. ASSUME NEW t \in Tasks, Request(t) PROVE FALSE
  <2>1. CASE OpenPane(t) \/ ClosePane(t) \/ Kill(t) \/ GcStaleSessions(t) \/ ListAllPanes(t)
    <3>1. UNCHANGED spawned
      BY <2>1 DEF OpenPane, ClosePane, Kill, GcStaleSessions, ListAllPanes
    <3>2. handle # None \/ spawned
      BY <2>1 DEF OpenPane, ClosePane, Kill, GcStaleSessions, ListAllPanes
    <3> QED BY <3>1, <3>2 DEF NothingYet
  <2>2. CASE Report(t)
    <3>1. ~spawned /\ \E h \in Shells : shell[h].w \in linked /\ Alive(shell[h].w)
      BY <2>2 DEF Report
    <3>2. \A w \in Workers : ~Alive(w)
      BY <3>1 DEF NothingYet, Born, Alive
    <3> QED BY <1>a, <3>1, <3>2
  <2> QED BY <1>1, <1>2, <2>1, <2>2 DEF Request
<1>3. ASSUME NEW t \in Tasks, Step(t) PROVE FALSE
  <2>1. ~spawned
    BY <1>3 DEF Step, SpawnStart, SpawnTimeout, SpawnClient, OpenAlloc, WorkerOpen, WorkerInsert,
                WorkerUpsert, WorkerClose, KillIndex, KillHandle, KillShutdown, Resolve, Track
  <2>2. task[t].pc = "idle"
    BY <2>1 DEF NothingYet, At
  <2> QED
    BY <1>3, <2>2 DEF Step, SpawnStart, SpawnTimeout, SpawnClient, OpenAlloc, WorkerOpen,
       WorkerInsert, WorkerUpsert, WorkerClose, KillIndex, KillHandle, KillShutdown, Resolve, Track, At
<1>4. ASSUME NEW h \in Shells, ReaderEof(h) \/ CloseStep(h) PROVE NothingYet'
  BY <1>4, <1>b DEF ReaderEof, CloseStep, CloseDelete, PaneClosed, EvictIndex, EvictHandle,
                    NotifyFails, CloseCheck, RemoveHandle
<1>5. ASSUME NEW w \in Workers, GraceOver(w) \/ ShutdownNext(w) PROVE NothingYet'
  BY <1>5, <1>b DEF GraceOver, ShutdownNext
<1>6. ASSUME NEW w \in Workers, Recover(w) \/ Connect(w) \/ Register(w) \/ Exit(w) \/ Crash(w)
      PROVE FALSE
  BY <1>6 DEF Recover, Connect, Register, Exit, Crash, End, NothingYet, Born, Alive
<1>7. CASE BgStep
  <2>1. ASSUME NEW w \in Workers, Reap(w) PROVE FALSE
    BY <2>1 DEF Reap, NothingYet, Born
  <2>2. ASSUME NEW b \in Background, Respawn(b) PROVE FALSE
    BY <2>2 DEF Respawn, NoRespawn
  <2> QED BY <1>7, <1>b, <2>1, <2>2 DEF BgStep, ReapFind, ReapCount, HeartbeatTimeout, Reattach,
                                   BgRemoveIndex, BgRemoveHandle, RemoveHandle
<1>8. CASE Restart
  BY <1>8 DEF Restart
<1>9. CASE UNCHANGED vars
  BY <1>9, <1>b DEF vars
<1> QED BY <1>2, <1>3, <1>4, <1>5, <1>6, <1>7, <1>8, <1>9 DEF Next, WorkerStep

\* Handlers other than t stay as they are.
OthersStay(t) == \A u \in Tasks : u # t => task'[u] = task[u]

LEMMA ReturnStay ==
  ASSUME TypeOK, NEW t \in Tasks, Return(t)
  PROVE  OthersStay(t) /\ task'[t].pc = "idle"
BY ReturnEffect DEF TaskIdle, OthersStay

LEMMA GotoStay ==
  ASSUME TypeOK, NEW t \in Tasks, NEW pc, Goto(t, pc)
  PROVE  /\ OthersStay(t) /\ task'[t].pc = pc /\ task'[t].slot = task[t].slot
         /\ task'[t].w = task[t].w /\ task'[t].h = task[t].h
<1>1. task \in [Tasks -> TaskStates] /\ task' = [task EXCEPT ![t].pc = pc]
  BY DEF TypeOK, Goto
<1> QED BY <1>1, GotoEffect DEF OthersStay, TaskTo

\* The handlers whose step changes more than their pc.
LEMMA WideStay ==
  ASSUME TypeOK, NEW t \in Tasks
  PROVE  /\ \A pc, w : task' = [task EXCEPT ![t].pc = pc, ![t].w = w] =>
              /\ OthersStay(t) /\ task'[t].pc = pc /\ task'[t].w = w
              /\ task'[t].slot = task[t].slot
         /\ \A pc, i : task' = [task EXCEPT ![t].pc = pc, ![t].slot = i] =>
              /\ OthersStay(t) /\ task'[t].pc = pc /\ task'[t].slot = i
              /\ task'[t].w = task[t].w
         /\ \A pc, h : task' = [task EXCEPT ![t].pc = pc, ![t].h = h] =>
              /\ OthersStay(t) /\ task'[t].pc = pc /\ task'[t].h = h
              /\ task'[t].w = task[t].w /\ task'[t].slot = task[t].slot
<1>1. task \in [Tasks -> TaskStates] /\ task[t] \in TaskStates
  BY DEF TypeOK
<1> QED BY <1>1 DEF TaskStates, OthersStay

\* No handler but a new spawn comes to "start".
LEMMA OneSpawnStep ==
  ASSUME TypeOK, PendingAwaits, NothingYet, OneSpawn, NoRespawn, [Next]_vars
  PROVE  OneSpawn'
<1> USE DEF sup, wrk, past
<1>a. ASSUME \A u \in Tasks : At(u, "start")' => At(u, "start"),
             \A w \in Workers : Born(w)' => Born(w)
      PROVE  OneSpawn'
  BY <1>a DEF OneSpawn
<1>b. ASSUME NEW t \in Tasks, OthersStay(t), task'[t].pc # "start"
      PROVE  \A u \in Tasks : At(u, "start")' => At(u, "start")
  BY <1>b DEF OthersStay, At
<1>c. ASSUME proc' = proc PROVE \A w \in Workers : Born(w)' => Born(w)
  BY <1>c DEF Born
<1>d. ASSUME task' = task PROVE \A u \in Tasks : At(u, "start")' => At(u, "start")
  BY <1>d DEF At
<1>1. ASSUME NEW t \in Tasks, Spawn(t) PROVE OneSpawn'
  <2>1. /\ \A u \in Tasks : task[u].pc = "idle"
        /\ \A w \in Workers : ~Born(w)
    BY <1>1 DEF Spawn, NothingYet, At
  <2>2. proc' = proc /\ \E r : Call(t, "spawn", r)
    BY <1>1 DEF Spawn
  <2>3. \A u \in Tasks : u # t => task'[u] = task[u]
    BY <2>2, CallEffect
  <2> QED BY <2>1, <2>2, <2>3 DEF OneSpawn, At, Born
<1>2. ASSUME NEW t \in Tasks, NEW rpc, NEW r, Call(t, rpc, r), r.pc # "start", proc' = proc
      PROVE  OneSpawn'
  BY <1>2, <1>a, <1>b, <1>c, CallEffect DEF OthersStay
<1>3. ASSUME NEW t \in Tasks, Request(t) PROVE OneSpawn'
  BY <1>1, <1>2, <1>3 DEF Request, OpenPane, ClosePane, Kill, GcStaleSessions, ListAllPanes, Report,
                          Idle
<1>4. ASSUME NEW t \in Tasks, SpawnStart(t) PROVE OneSpawn'
  <2>1. CASE Return(t) /\ proc' = proc
    BY <1>a, <1>b, <1>c, <2>1, ReturnStay
  <2>2. CASE Goto(t, "await") /\ SpawnWorker
    <3>1. At(t, "start") /\ OthersStay(t) /\ task'[t].pc = "await"
      BY <1>4, <2>2, GotoStay DEF SpawnStart
    <3>2. \A u \in Tasks : ~At(u, "start")'
      BY <3>1 DEF OneSpawn, OthersStay, At
    <3>3. \A w \in Workers : proc[w] = "none"
      BY <3>1 DEF OneSpawn, Born
    <3>4. \A v, w \in Workers : proc'[v] # "none" /\ proc'[w] # "none" => v = w
      BY <2>2, <3>3 DEF SpawnWorker, TypeOK
    <3> QED BY <3>2, <3>4 DEF OneSpawn, Born
  <2> QED BY <1>4, <2>1, <2>2 DEF SpawnStart
<1>5. ASSUME NEW t \in Tasks, Step(t), ~SpawnStart(t) PROVE OneSpawn'
  <2>1. proc' = proc
    BY <1>5 DEF Step, SpawnTimeout, SpawnClient, OpenAlloc, WorkerOpen, WorkerInsert,
                WorkerUpsert, WorkerClose, KillIndex, KillHandle, KillShutdown, Resolve, Track
  <2>2. \/ Return(t) \/ \E pc \in {"upsert", "kill_handle", "track"} : Goto(t, pc)
        \/ task' = [task EXCEPT ![t].pc = "open", ![t].w = handle]
        \/ task' = [task EXCEPT ![t].pc = "open", ![t].slot = next]
        \/ \E h \in Shells : task' = [task EXCEPT ![t].pc = "insert", ![t].h = h]
        \/ task' = [task EXCEPT ![t].pc = "shutdown", ![t].w = handle]
    BY <1>5 DEF Step, SpawnTimeout, SpawnClient, OpenAlloc, WorkerOpen, WorkerInsert,
                WorkerUpsert, WorkerClose, KillIndex, KillHandle, KillShutdown, Resolve, Track
  <2>3. OthersStay(t) /\ task'[t].pc # "start"
    <3>1. CASE Return(t)
      BY <3>1, ReturnStay
    <3>2. CASE \E pc \in {"upsert", "kill_handle", "track"} : Goto(t, pc)
      BY <3>2, GotoStay
    <3>3. ASSUME NEW w, NEW pc \in {"open", "shutdown"}, task' = [task EXCEPT ![t].pc = pc, ![t].w = w]
          PROVE  OthersStay(t) /\ task'[t].pc # "start"
      BY <3>3, WideStay
    <3>4. ASSUME NEW i, NEW pc \in {"open"}, task' = [task EXCEPT ![t].pc = pc, ![t].slot = i]
          PROVE  OthersStay(t) /\ task'[t].pc # "start"
      BY <3>4, WideStay
    <3>5. ASSUME NEW h, NEW pc \in {"insert"}, task' = [task EXCEPT ![t].pc = pc, ![t].h = h]
          PROVE  OthersStay(t) /\ task'[t].pc # "start"
      BY <3>5, WideStay
    <3> QED BY <2>2, <3>1, <3>2, <3>3, <3>4, <3>5
  <2> QED BY <1>a, <1>b, <1>c, <2>1, <2>3
<1>6. ASSUME NEW h \in Shells, ReaderEof(h) \/ CloseStep(h) PROVE OneSpawn'
  BY <1>6, <1>a, <1>c, <1>d DEF ReaderEof, CloseStep, CloseDelete, PaneClosed, EvictIndex,
                                EvictHandle, NotifyFails, CloseCheck
<1>7. ASSUME NEW w \in Workers, Register(w) PROVE OneSpawn'
  <2>1. \A u \in Tasks : At(u, "start")' => At(u, "start")
    BY <1>7, RegisterEffect DEF At
  <2>2. \A v \in Workers : Born(v)' => Born(v)
    BY <1>7 DEF Register, Alive, Born, TypeOK
  <2> QED BY <1>a, <2>1, <2>2
<1>8. ASSUME NEW w \in Workers, Recover(w) \/ Connect(w) \/ Exit(w) \/ Crash(w)
      PROVE  OneSpawn'
  <2>1. task' = task
    BY <1>8 DEF Recover, Connect, Exit, Crash, End
  <2>2. \A v \in Workers : Born(v)' => Born(v)
    BY <1>8 DEF Recover, Connect, Exit, Crash, End, Alive, Born, TypeOK
  <2> QED BY <1>a, <1>d, <2>1, <2>2
<1>9. ASSUME NEW w \in Workers, GraceOver(w) \/ ShutdownNext(w) PROVE OneSpawn'
  BY <1>9, <1>a, <1>c, <1>d DEF GraceOver, ShutdownNext
<1>10. CASE BgStep
  <2>1. task' = task
    BY <1>10 DEF BgStep, ReapFind, ReapCount, HeartbeatTimeout, Reattach, Reap, BgRemoveIndex,
                 BgRemoveHandle, Respawn
  <2>2. ASSUME NEW w \in Workers, Reap(w) PROVE \A v \in Workers : Born(v)' => Born(v)
    BY <2>2 DEF Reap, Born, TypeOK
  <2>3. ASSUME NEW b \in Background, Respawn(b) PROVE FALSE
    BY <2>3 DEF Respawn, NoRespawn
  <2> QED BY <1>10, <1>a, <1>c, <1>d, <2>1, <2>2, <2>3
          DEF BgStep, ReapFind, ReapCount, HeartbeatTimeout, Reattach, BgRemoveIndex, BgRemoveHandle
<1>11. CASE Restart
  BY <1>11, <1>a, <1>c DEF Restart, At, Idle
<1>12. CASE UNCHANGED vars
  BY <1>12, <1>a, <1>c, <1>d DEF vars
<1> QED BY <1>3, <1>4, <1>5, <1>6, <1>7, <1>8, <1>9, <1>10, <1>11, <1>12 DEF Next, WorkerStep

LEMMA NoRespawnStep ==
  ASSUME TypeOK, NoRespawn, [Next]_vars, Untouched'
  PROVE  NoRespawn'
<1> USE DEF sup, wrk, past
<1>1. CASE bg' = bg
  BY <1>1 DEF NoRespawn
<1>2. ASSUME NEW b \in {"reaper", "monitor"}, bg'[b].pc \in {"idle", "find", "count", "rm_index"},
             \A c \in Background : c # b => bg'[c] = bg[c]
      PROVE  NoRespawn'
  BY <1>2 DEF NoRespawn, Background
<1>a. bg \in [Background -> BgStates] /\ {"reaper", "monitor"} \subseteq Background
  BY DEF TypeOK, Background
<1>3. CASE BgStep
  <2>1. ASSUME NEW w \in Workers, Reap(w) PROVE NoRespawn'
    BY <1>2, <1>a, <2>1 DEF Reap, Resting
  <2>2. CASE ReapFind
    <3>1. bg["reaper"] \in BgStates
      BY DEF TypeOK, Background
    <3>2. /\ Resting.pc = "idle"
          /\ [bg["reaper"] EXCEPT !.pc = "count"].pc = "count"
      BY <3>1 DEF Resting, BgStates
    <3>3. \/ bg' = [bg EXCEPT !["reaper"] = Resting]
          \/ bg' = [bg EXCEPT !["reaper"] = [bg["reaper"] EXCEPT !.pc = "count"]]
      BY <1>a, <2>2 DEF ReapFind
    <3> QED BY <1>2, <1>a, <3>2, <3>3
  <2>3. CASE ReapCount
    <3>1. bg["reaper"] \in BgStates
      BY DEF TypeOK, Background
    <3>2. [bg["reaper"] EXCEPT !.pc = "rm_index", !.n = Count].pc = "rm_index"
      BY <3>1 DEF BgStates
    <3>3. bg' = [bg EXCEPT !["reaper"] = [bg["reaper"] EXCEPT !.pc = "rm_index", !.n = Count]]
      BY <1>a, <2>3 DEF ReapCount
    <3> QED BY <1>2, <1>a, <3>2, <3>3
  <2>4. CASE HeartbeatTimeout
    BY <1>2, <1>a, <2>4 DEF HeartbeatTimeout
  <2>5. ~Reattach
    BY DEF Reattach, NoRespawn
  <2>6. ASSUME NEW b \in Background PROVE ~BgRemoveIndex(b) /\ ~BgRemoveHandle(b) /\ ~Respawn(b)
    BY DEF BgRemoveIndex, BgRemoveHandle, Respawn, RemoveIndex, Happened, Untouched, NoRespawn
  <2> QED BY <1>3, <2>1, <2>2, <2>3, <2>4, <2>5, <2>6 DEF BgStep
<1>4. ~Restart
  BY DEF Restart, Happened, Untouched
<1>5. ASSUME NEW t \in Tasks, Request(t) \/ Step(t) PROVE bg' = bg
  BY <1>5 DEF Request, Spawn, OpenPane, ClosePane, Kill, GcStaleSessions, ListAllPanes, Report,
     Step, SpawnStart, SpawnTimeout, SpawnClient, OpenAlloc, WorkerOpen, WorkerInsert,
     WorkerUpsert, WorkerClose, KillIndex, KillHandle, KillShutdown, Resolve, Track
<1>6. ASSUME NEW h \in Shells, ReaderEof(h) \/ CloseStep(h) PROVE bg' = bg
  BY <1>6 DEF ReaderEof, CloseStep, CloseDelete, PaneClosed, EvictIndex, EvictHandle, NotifyFails,
              CloseCheck
<1>7. ASSUME NEW w \in Workers, WorkerStep(w) \/ Crash(w) PROVE bg' = bg
  BY <1>7 DEF WorkerStep, Recover, Connect, Register, Exit, GraceOver, ShutdownNext, Crash, End
<1>8. CASE UNCHANGED vars
  BY <1>1, <1>8 DEF vars
<1> QED BY <1>1, <1>3, <1>4, <1>5, <1>6, <1>7, <1>8 DEF Next

\* No shell is started or moved.
ShellsKept ==
  \A g \in Shells : /\ shell'[g].w = shell[g].w /\ shell'[g].slot = shell[g].slot
                    /\ shell'[g].pc = "none" <=> shell[g].pc = "none"

\* The first worker boots with an empty shard.
LEMMA RecoverNothing ==
  ASSUME TypeOK, OneSpawn, EmptyShard, NEW w \in Workers, Recover(w)
  PROVE  \A h \in Shells : shell'[h] = shell[h]
<1>1. Booting
  BY DEF Recover, OneSpawn, Born, Booting
<1>2. shard = {}
  BY <1>1 DEF EmptyShard
<1> QED BY <1>2, RecoverEffect

\* open_pane starts the shell of the next number.
LEMMA OpenEffect ==
  ASSUME TypeOK, ShellsInOrder, NEW t \in Tasks, WorkerOpen(t)
  PROVE  \/ Return(t) /\ shell' = shell /\ "leaked" \in hist'
         \/ \E h \in Shells :
              /\ proc[task[t].w] = "up"
              /\ \A g \in Shells : shell[g].pc # "none" <=> g < h
              /\ \A g \in Shells : g # h => shell'[g] = shell[g]
              /\ shell'[h].w = task[t].w /\ shell'[h].slot = task[t].slot
              /\ shell'[h].pc = "forked"
              /\ OthersStay(t) /\ task'[t].pc = "insert" /\ task'[t].h = h
              /\ task'[t].w = task[t].w /\ task'[t].slot = task[t].slot
<1>1. PICK n \in 0 .. MaxShells : \A h \in Shells : shell[h].pc # "none" <=> h <= n
  BY DEF ShellsInOrder
<1>2. Started = n
  <2>1. MaxShells \in Nat /\ n \in Nat
    BY HybridAssumption
  <2>2. {h \in Shells : shell[h].pc # "none"} = 1 .. n
    BY <1>1, <2>1 DEF Shells
  <2>3. Cardinality(1 .. n) = n
    BY <2>1, FS_Interval
  <2> QED BY <2>2, <2>3 DEF Started
<1>3. CASE Return(t) /\ UNCHANGED shell /\ Happened("leaked")
  BY <1>3 DEF Happened
<1>4. ASSUME NEW h \in Shells, proc[task[t].w] = "up", h = Started + 1,
             shell' = [shell EXCEPT ![h] = [w |-> task[t].w, slot |-> task[t].slot,
                                            st |-> "running", pc |-> "forked"]],
             task' = [task EXCEPT ![t].pc = "insert", ![t].h = h]
      PROVE  /\ \A g \in Shells : shell[g].pc # "none" <=> g < h
             /\ \A g \in Shells : g # h => shell'[g] = shell[g]
             /\ shell'[h].w = task[t].w /\ shell'[h].slot = task[t].slot
             /\ shell'[h].pc = "forked"
             /\ OthersStay(t) /\ task'[t].pc = "insert" /\ task'[t].h = h
             /\ task'[t].w = task[t].w /\ task'[t].slot = task[t].slot
  <2>1. \A g \in Shells : shell[g].pc # "none" <=> g < h
    <3>1. n \in Nat /\ h = n + 1 /\ Shells \subseteq Nat
      BY <1>2, <1>4, HybridAssumption DEF Shells
    <3> QED BY <1>1, <3>1
  <2>2. /\ \A g \in Shells : g # h => shell'[g] = shell[g]
        /\ shell'[h].w = task[t].w /\ shell'[h].slot = task[t].slot
        /\ shell'[h].pc = "forked"
    BY <1>4 DEF TypeOK
  <2>3. /\ OthersStay(t) /\ task'[t].pc = "insert" /\ task'[t].h = h
        /\ task'[t].w = task[t].w /\ task'[t].slot = task[t].slot
    <3>1. \A pc, g : task' = [task EXCEPT ![t].pc = pc, ![t].h = g] =>
            /\ OthersStay(t) /\ task'[t].pc = pc /\ task'[t].h = g
            /\ task'[t].w = task[t].w /\ task'[t].slot = task[t].slot
      BY WideStay
    <3> QED BY <1>4, <3>1
  <2> QED BY <2>1, <2>2, <2>3
<1> QED BY <1>3, <1>4 DEF WorkerOpen

LEMMA ShellsStay ==
  ASSUME TypeOK, Workplace, PaneMap, [Next]_vars, Untouched', \A t \in Tasks : ~WorkerOpen(t)
  PROVE  /\ ShellsKept
         /\ \A g \in Shells : shell'[g].pc = "mapped" =>
              \/ shell[g].pc = "mapped"
              \/ \E t \in Tasks : WorkerInsert(t) /\ task[t].h = g /\ Alive(task[t].w)
<1> USE DEF sup, wrk, past
<1> DEFINE Goal == /\ ShellsKept
                   /\ \A g \in Shells : shell'[g].pc = "mapped" =>
                        \/ shell[g].pc = "mapped"
                        \/ \E t \in Tasks : WorkerInsert(t) /\ task[t].h = g /\ Alive(task[t].w)
<1> SUFFICES Goal
  OBVIOUS
<1>a. ASSUME \A g \in Shells : shell'[g] = shell[g] PROVE Goal
  BY <1>a DEF ShellsKept
<1>b. ASSUME NEW h \in Shells, NEW pc, ShellTo(h, pc), shell[h].pc # "none",
             pc \notin {"none", "mapped"}
      PROVE  Goal
  BY <1>b DEF ShellTo, ShellsKept
<1>c. ASSUME NEW w, NEW i, ShellsRemoved(w, i) PROVE Goal
  BY <1>c DEF ShellsRemoved, ShellsKept, InSlot, Mapped
<1>1. ASSUME NEW t \in Tasks, Request(t) PROVE Goal
  BY <1>1, <1>a DEF Request, Spawn, OpenPane, ClosePane, Kill, GcStaleSessions, ListAllPanes, Report
<1>2. ASSUME NEW t \in Tasks, WorkerInsert(t) PROVE Goal
  <2>1. CASE ~Alive(task[t].w)
    BY <1>2, <1>a, <2>1 DEF WorkerInsert
  <2>2. CASE Alive(task[t].w)
    <3>1. shell[task[t].h].pc # "none"
      BY <1>2 DEF PaneMap, OpensKnow, Opened, ShellsInOrder, WorkerInsert, At
    <3>2. \A g \in Shells :
            /\ shell'[g].w = shell[g].w /\ shell'[g].slot = shell[g].slot
            /\ shell'[g].pc = IF g = task[t].h THEN "mapped"
                              ELSE IF g \in InSlot(task[t].w, task[t].slot) THEN "dropped"
                                   ELSE shell[g].pc
      BY <1>2, <2>2, InsertEffect
    <3> QED BY <1>2, <2>2, <3>1, <3>2 DEF ShellsKept, InSlot, Mapped
  <2> QED BY <2>1, <2>2
<1>3. ASSUME NEW t \in Tasks, WorkerClose(t) PROVE Goal
  <2>1. CASE shell' = CloseRemoved(task[t].w, task[t].slot)
    BY <1>c, <2>1, CloseEffect
  <2> QED BY <1>3, <1>a, <2>1 DEF WorkerClose
<1>4. ASSUME NEW t \in Tasks, Step(t), ~WorkerInsert(t), ~WorkerClose(t) PROVE Goal
  BY <1>4, <1>a DEF Step, SpawnStart, SpawnTimeout, SpawnClient, OpenAlloc, WorkerUpsert,
                    KillIndex, KillHandle, KillShutdown, Resolve, Track
<1>5. ASSUME NEW h \in Shells, ReaderEof(h) PROVE Goal
  BY <1>5, <1>c, EofEffect
<1>6. ASSUME NEW h \in Shells, CloseStep(h) PROVE Goal
  <2>1. PICK pc \in {"notify", "evict_index", "check", "evict_handle", "done"} :
          shell' = [shell EXCEPT ![h].pc = pc] /\ shell[h].pc # "none"
    BY <1>6 DEF CloseStep, CloseDelete, PaneClosed, EvictIndex, EvictHandle, NotifyFails,
                CloseCheck, Notifying
  <2>2. ShellTo(h, pc)
    BY <2>1, ShellEffect
  <2> QED BY <1>b, <2>1, <2>2
<1>7. ASSUME NEW w \in Workers, Recover(w) PROVE Goal
  BY <1>7, <1>a, RecoverNothing DEF Workplace
<1>8. ASSUME NEW w \in Workers, Exit(w) \/ Crash(w) PROVE Goal
  <2>1. \A g \in Shells :
          /\ shell'[g].pc = IF shell[g].w = w /\ shell[g].pc \notin Notifying THEN "done"
                            ELSE shell[g].pc
          /\ shell'[g].w = shell[g].w /\ shell'[g].slot = shell[g].slot
    BY <1>8, EndEffect DEF Exit, Crash
  <2>2. \A g \in Shells : shell[g].w = w => shell[g].pc # "none"
    BY TaskFields DEF PaneMap, ShellsInOrder, UsedShell
  <2> QED BY <2>1, <2>2 DEF ShellsKept
<1>9. ASSUME NEW w \in Workers, ShutdownNext(w) PROVE Goal
  <2>1. ASSUME NEW i, shell' = CloseRemoved(w, i) PROVE Goal
    BY <1>c, <2>1, CloseEffect
  <2> QED BY <1>9, <1>a, <2>1 DEF ShutdownNext
<1>10. ASSUME NEW w \in Workers, Connect(w) \/ Register(w) \/ GraceOver(w) PROVE Goal
  BY <1>10, <1>a DEF Connect, Register, GraceOver
<1>11. CASE BgStep
  BY <1>11, <1>a DEF BgStep, ReapFind, ReapCount, HeartbeatTimeout, Reattach, Reap,
                     BgRemoveIndex, BgRemoveHandle, Respawn
<1>12. ~Restart
  BY DEF Restart, Happened, Untouched
<1>13. CASE UNCHANGED vars
  BY <1>13, <1>a DEF vars
<1> HIDE DEF Goal
<1> QED
  BY <1>1, <1>2, <1>3, <1>4, <1>5, <1>6, <1>7, <1>8, <1>9, <1>10, <1>11, <1>12, <1>13
  DEF Next, WorkerStep

\* No open gets a slot or starts a shell.
KeptTask(u) ==
  /\ Opening(u)' => Opening(u) /\ task'[u].slot = task[u].slot
  /\ Opened(u)' => /\ Opened(u) /\ task'[u].slot = task[u].slot
                   /\ task'[u].w = task[u].w /\ task'[u].h = task[u].h
  /\ task'[u].pc \in {"alloc", "open"} => task'[u].w # None
  /\ At(u, "upsert") => (At(u, "upsert")' /\ task'[u].h = task[u].h) \/ WorkerUpsert(u)

LEMMA TasksStay ==
  ASSUME TypeOK, PendingAwaits, OpensKnow, [Next]_vars, Untouched',
         \A t \in Tasks : ~Spawn(t) /\ ~OpenAlloc(t) /\ ~WorkerOpen(t)
  PROVE  \A u \in Tasks : KeptTask(u)
<1> USE DEF sup, wrk, past
<1> DEFINE Goal == \A u \in Tasks : KeptTask(u)
<1> SUFFICES Goal
  OBVIOUS
<1>a. ASSUME NEW u \in Tasks, task'[u] = task[u] PROVE KeptTask(u)
  BY <1>a DEF KeptTask, Opening, Opened, At, OpensKnow
<1>b. ASSUME NEW t \in Tasks, OthersStay(t), KeptTask(t) PROVE Goal
  BY <1>a, <1>b DEF OthersStay
<1>c. ASSUME task' = task PROVE Goal
  BY <1>a, <1>c
<1>d. ASSUME NEW t \in Tasks, NEW rpc, NEW r, Call(t, rpc, r),
             r.pc \in {"alloc", "close", "kill_index", "resolve"}, r.pc = "alloc" => r.w # None
      PROVE  Goal
  <2>1. task'[t] = r /\ OthersStay(t) /\ task[t].pc = "idle"
    BY <1>d, CallEffect DEF OthersStay
  <2>2. KeptTask(t)
    BY <1>d, <2>1 DEF KeptTask, Opening, Opened, At
  <2> QED BY <1>b, <2>1, <2>2
<1>1. ASSUME NEW t \in Tasks, Request(t) PROVE Goal
  <2>1. CASE OpenPane(t)
    BY <1>d, <2>1 DEF OpenPane, Idle
  <2>2. CASE ClosePane(t)
    BY <1>d, <2>2 DEF ClosePane, Idle
  <2>3. CASE Kill(t) \/ GcStaleSessions(t)
    BY <1>d, <2>3 DEF Kill, GcStaleSessions, Idle
  <2>4. CASE ListAllPanes(t) \/ Report(t)
    BY <1>d, <2>4 DEF ListAllPanes, Report, Idle
  <2> QED BY <1>1, <2>1, <2>2, <2>3, <2>4 DEF Request
<1>2. ASSUME NEW t \in Tasks, Return(t), ~At(t, "upsert") \/ WorkerUpsert(t) PROVE Goal
  <2>1. OthersStay(t) /\ task'[t].pc = "idle"
    BY <1>2, ReturnStay
  <2>2. KeptTask(t)
    BY <1>2, <2>1 DEF KeptTask, Opening, Opened, At
  <2> QED BY <1>b, <2>1, <2>2
<1>3. ASSUME NEW t \in Tasks, NEW pc, Goto(t, pc),
             \/ At(t, "start") /\ pc = "await"
             \/ At(t, "insert") /\ pc = "upsert"
             \/ task[t].pc \in {"kill_index", "resolve"} /\ pc \in {"kill_handle", "track"}
      PROVE  Goal
  <2>1. /\ OthersStay(t) /\ task'[t].pc = pc /\ task'[t].slot = task[t].slot
        /\ task'[t].w = task[t].w /\ task'[t].h = task[t].h
    BY <1>3, GotoStay
  <2>2. KeptTask(t)
    BY <1>3, <2>1 DEF KeptTask, Opening, Opened, At
  <2> QED BY <1>b, <2>1, <2>2
<1>4. ASSUME NEW t \in Tasks, SpawnClient(t) PROVE Goal
  <2>1. CASE Return(t)
    BY <1>2, <1>4, <2>1 DEF SpawnClient, At
  <2>2. ASSUME NEW w, w # None, NEW pc \in {"open"}, task' = [task EXCEPT ![t].pc = pc, ![t].w = w]
        PROVE  Goal
    <3>1. /\ OthersStay(t) /\ task'[t].pc = pc /\ task'[t].w = w
          /\ task'[t].slot = task[t].slot
      BY <2>2, WideStay
    <3>2. KeptTask(t)
      BY <1>4, <2>2, <3>1 DEF KeptTask, Opening, Opened, At, SpawnClient
    <3> QED BY <1>b, <3>1, <3>2
  <2> QED BY <1>4, <2>1, <2>2 DEF SpawnClient
<1>5. ASSUME NEW t \in Tasks, KillHandle(t) PROVE Goal
  <2>1. CASE Return(t)
    BY <1>2, <1>5, <2>1 DEF KillHandle, At
  <2>2. ASSUME NEW w, NEW pc \in {"shutdown"}, task' = [task EXCEPT ![t].pc = pc, ![t].w = w]
        PROVE  Goal
    <3>1. OthersStay(t) /\ task'[t].pc = pc
      BY <2>2, WideStay
    <3>2. KeptTask(t)
      BY <1>5, <2>2, <3>1 DEF KeptTask, Opening, Opened, At, KillHandle
    <3> QED BY <1>b, <3>1, <3>2
  <2> QED BY <1>5, <2>1, <2>2 DEF KillHandle
<1>6. ASSUME NEW t \in Tasks, SpawnStart(t) \/ SpawnTimeout(t) \/ WorkerInsert(t) \/ WorkerUpsert(t)
      PROVE  Goal
  BY <1>2, <1>3, <1>6 DEF SpawnStart, SpawnTimeout, WorkerInsert, WorkerUpsert, At
<1>7. ASSUME NEW t \in Tasks, WorkerClose(t) \/ KillIndex(t) \/ KillShutdown(t) \/ Resolve(t) \/ Track(t)
      PROVE  Goal
  BY <1>2, <1>3, <1>7 DEF WorkerClose, KillIndex, KillShutdown, Resolve, Track, At
<1>8. ASSUME NEW h \in Shells, ReaderEof(h) \/ CloseStep(h) PROVE Goal
  BY <1>8, <1>c DEF ReaderEof, CloseStep, CloseDelete, PaneClosed, EvictIndex, EvictHandle,
              NotifyFails, CloseCheck
<1>9. ASSUME NEW w \in Workers, Register(w) PROVE Goal
  <2> SUFFICES ASSUME NEW u \in Tasks PROVE KeptTask(u)
    OBVIOUS
  <2>1. /\ task'[u].slot = task[u].slot /\ task'[u].w = task[u].w /\ task'[u].h = task[u].h
        /\ task'[u].pc = task[u].pc \/ (At(u, "await") /\ task'[u].pc = "client")
    BY <1>9, RegisterEffect, TaskFields DEF PendingAwaits
  <2> QED BY <2>1 DEF KeptTask, Opening, Opened, At, OpensKnow
<1>10. ASSUME NEW w \in Workers, WorkerStep(w) \/ Crash(w), ~Register(w) PROVE Goal
  BY <1>10, <1>c DEF WorkerStep, Recover, Connect, Exit, GraceOver, ShutdownNext, Crash, End
<1>11. CASE BgStep
  BY <1>11, <1>c DEF BgStep, ReapFind, ReapCount, HeartbeatTimeout, Reattach, Reap,
                     BgRemoveIndex, BgRemoveHandle, Respawn
<1>12. ~Restart
  BY DEF Restart, Happened, Untouched
<1>13. CASE UNCHANGED vars
  BY <1>13, <1>c DEF vars
<1> HIDE DEF Goal
<1> QED
  BY <1>1, <1>4, <1>5, <1>6, <1>7, <1>8, <1>9, <1>10, <1>11, <1>12, <1>13 DEF Next, Step

\* The processes: one that has left "boot" does not come back to it, and a
\* process ends only when its shells leave the map.
LEMMA ProcsStay ==
  ASSUME TypeOK, NoRespawn, [Next]_vars, Untouched'
  PROVE  /\ Booting' => Booting
         /\ \A w \in Workers : Alive(w) => Alive(w)' \/ Exit(w) \/ Crash(w)
<1> USE DEF sup, wrk, past
<1> DEFINE Goal == /\ Booting' => Booting
                   /\ \A w \in Workers : Alive(w) => Alive(w)' \/ Exit(w) \/ Crash(w)
<1> SUFFICES Goal
  OBVIOUS
<1>0. proc \in [Workers -> {"none", "boot", "bound", "up", "exited", "reaped"}]
  BY DEF TypeOK
<1>a. ASSUME proc' = proc PROVE Goal
  BY <1>a DEF Booting, Alive
<1>1. ASSUME NEW t \in Tasks, Request(t) PROVE Goal
  BY <1>1, <1>a DEF Request, Spawn, OpenPane, ClosePane, Kill, GcStaleSessions, ListAllPanes, Report
<1>2. ASSUME NEW t \in Tasks, SpawnStart(t) PROVE Goal
  <2>1. CASE proc' = proc
    BY <1>a, <2>1
  <2>2. ASSUME NEW w \in 1 .. scn.workers, {v \in Workers : proc[v] # "none"} = 1 .. w - 1,
               proc' = [proc EXCEPT ![w] = "boot"]
        PROVE  Goal
    <3>1. w \in Nat
      BY HybridAssumption
    <3>2. w \notin 1 .. w - 1
      BY <3>1
    <3>3. CASE w \in Workers
      <4>1. proc[w] = "none"
        BY <2>2, <3>2, <3>3
      <4> QED BY <1>0, <2>2, <4>1 DEF Booting, Alive
    <3>4. CASE w \notin Workers
      BY <1>0, <1>a, <2>2, <3>4
    <3> QED BY <3>3, <3>4
  <2> QED BY <1>2, <2>1, <2>2 DEF SpawnStart, SpawnWorker
<1>3. ASSUME NEW t \in Tasks, Step(t), ~SpawnStart(t) PROVE Goal
  BY <1>3, <1>a DEF Step, SpawnTimeout, SpawnClient, OpenAlloc, WorkerOpen, WorkerInsert,
                WorkerUpsert, WorkerClose, KillIndex, KillHandle, KillShutdown, Resolve, Track
<1>4. ASSUME NEW h \in Shells, ReaderEof(h) \/ CloseStep(h) PROVE Goal
  BY <1>4, <1>a DEF ReaderEof, CloseStep, CloseDelete, PaneClosed, EvictIndex, EvictHandle,
                    NotifyFails, CloseCheck
<1>5. ASSUME NEW w \in Workers, NEW x \in {"bound", "up"}, proc' = [proc EXCEPT ![w] = x]
      PROVE  Goal
  BY <1>0, <1>5 DEF Booting, Alive
<1>6. ASSUME NEW w \in Workers, Exit(w) \/ Crash(w) PROVE Goal
  <2>1. proc' = [proc EXCEPT ![w] = "exited"]
    BY <1>6 DEF Exit, Crash, End
  <2> QED BY <1>0, <1>6, <2>1 DEF Booting, Alive
<1>7. ASSUME NEW w \in Workers, WorkerStep(w), ~Exit(w) PROVE Goal
  BY <1>7, <1>a, <1>5 DEF WorkerStep, Recover, Connect, Register, GraceOver, ShutdownNext
<1>8. CASE BgStep
  <2>1. ASSUME NEW w \in Workers, Reap(w) PROVE Goal
    BY <1>0, <2>1 DEF Reap, Booting, Alive
  <2>2. ASSUME NEW b \in Background PROVE ~Respawn(b)
    BY DEF Respawn, NoRespawn
  <2> QED BY <1>8, <1>a, <2>1, <2>2 DEF BgStep, ReapFind, ReapCount, HeartbeatTimeout, Reattach,
                                        BgRemoveIndex, BgRemoveHandle
<1>9. ~Restart
  BY DEF Restart, Happened, Untouched
<1>10. CASE UNCHANGED vars
  BY <1>10, <1>a DEF vars
<1> HIDE DEF Goal
<1> QED BY <1>1, <1>2, <1>3, <1>4, <1>6, <1>7, <1>8, <1>9, <1>10 DEF Next

\* The rows of the shard: written by upsert_pane, deleted by delete_pane.
LEMMA ShardStay ==
  ASSUME TypeOK, [Next]_vars
  PROVE  /\ \A i \in shard' : i \in shard \/ \E t \in Tasks : WorkerUpsert(t) /\ Alive(task[t].w)
         /\ \A i \in shard : i \in shard' \/ \E h \in Shells : CloseDelete(h) /\ shell[h].slot = i
<1> USE DEF sup, wrk, past
<1> DEFINE Goal ==
      /\ \A i \in shard' : i \in shard \/ \E t \in Tasks : WorkerUpsert(t) /\ Alive(task[t].w)
      /\ \A i \in shard : i \in shard' \/ \E h \in Shells : CloseDelete(h) /\ shell[h].slot = i
<1> SUFFICES Goal
  OBVIOUS
<1>a. ASSUME shard' = shard PROVE Goal
  BY <1>a
<1>1. ASSUME NEW t \in Tasks, WorkerUpsert(t) PROVE Goal
  <2>1. shard' = IF Alive(task[t].w) THEN shard \cup {task[t].slot} ELSE shard
    BY <1>1 DEF WorkerUpsert
  <2> QED BY <1>1, <2>1
<1>2. ASSUME NEW h \in Shells, CloseDelete(h) PROVE Goal
  <2>1. shard' = shard \ {shell[h].slot}
    BY <1>2 DEF CloseDelete
  <2> QED BY <1>2, <2>1
<1>3. ASSUME NEW t \in Tasks, Request(t) \/ (Step(t) /\ ~WorkerUpsert(t)) PROVE shard' = shard
  BY <1>3 DEF Request, Spawn, OpenPane, ClosePane, Kill, GcStaleSessions, ListAllPanes, Report,
     Step, SpawnStart, SpawnTimeout, SpawnClient, OpenAlloc, WorkerOpen, WorkerInsert,
     WorkerClose, KillIndex, KillHandle, KillShutdown, Resolve, Track
<1>4. ASSUME NEW h \in Shells, ReaderEof(h) \/ (CloseStep(h) /\ ~CloseDelete(h)) PROVE shard' = shard
  BY <1>4 DEF ReaderEof, CloseStep, PaneClosed, EvictIndex, EvictHandle, NotifyFails, CloseCheck
<1>5. ASSUME NEW w \in Workers, WorkerStep(w) \/ Crash(w) PROVE shard' = shard
  BY <1>5 DEF WorkerStep, Recover, Connect, Register, Exit, GraceOver, ShutdownNext, Crash, End
<1>6. CASE BgStep
  BY <1>6, <1>a DEF BgStep, ReapFind, ReapCount, HeartbeatTimeout, Reattach, Reap,
                    BgRemoveIndex, BgRemoveHandle, Respawn
<1>7. CASE Restart
  BY <1>7, <1>a DEF Restart
<1>8. CASE UNCHANGED vars
  BY <1>8, <1>a DEF vars
<1> HIDE DEF Goal
<1> QED BY <1>a, <1>1, <1>2, <1>3, <1>4, <1>5, <1>6, <1>7, <1>8 DEF Next

LEMMA EmptyShardStep ==
  ASSUME TypeOK, Workplace, PaneMap, [Next]_vars, Untouched'
  PROVE  EmptyShard'
<1> SUFFICES ASSUME Booting' PROVE shard' = {} /\ \A h \in Shells : ~UsedShell(h)'
  BY DEF EmptyShard
<1>1. Booting /\ shard = {} /\ \A h \in Shells : ~UsedShell(h)
  BY ProcsStay DEF Workplace, EmptyShard
<1>2. shard' = {}
  <2>1. ASSUME NEW t \in Tasks PROVE ~WorkerUpsert(t)
    BY <1>1 DEF WorkerUpsert, PaneMap, OpensKnow, Opened, At
  <2> QED BY <1>1, <2>1, ShardStay
<1>3. ASSUME NEW h \in Shells PROVE ~UsedShell(h)'
  <2>1. CASE \A t \in Tasks : ~WorkerOpen(t)
    BY <1>1, <2>1, ShellsStay DEF ShellsKept, UsedShell
  <2>2. ASSUME NEW t \in Tasks, WorkerOpen(t) PROVE ~UsedShell(h)'
    <3>1. task[t].w \in Workers
      BY <2>2, TaskFields DEF WorkerOpen, PaneMap, OpensKnow, At
    <3>2. proc[task[t].w] # "up"
      BY <1>1, <3>1 DEF Booting
    <3>3. shell' = shell
      BY <2>2, <3>2 DEF WorkerOpen
    <3> QED BY <1>1, <3>3 DEF UsedShell
  <2> QED BY <2>1, <2>2
<1> QED BY <1>2, <1>3

LEMMA ShellsInOrderStep ==
  ASSUME TypeOK, Workplace, PaneMap, [Next]_vars, Untouched'
  PROVE  ShellsInOrder'
<1>1. CASE \A t \in Tasks : ~WorkerOpen(t)
  <2>1. ShellsKept
    BY <1>1, ShellsStay
  <2> QED BY <2>1 DEF PaneMap, ShellsInOrder, ShellsKept, UsedShell
<1>2. ASSUME NEW t \in Tasks, WorkerOpen(t) PROVE ShellsInOrder'
  <2>1. CASE shell' = shell
    BY <2>1 DEF PaneMap, ShellsInOrder, UsedShell
  <2>2. ASSUME NEW h \in Shells,
               \A g \in Shells : shell[g].pc # "none" <=> g < h,
               \A g \in Shells : g # h => shell'[g] = shell[g],
               shell'[h].w = task[t].w, shell'[h].pc = "forked"
        PROVE  ShellsInOrder'
    <3>1. task[t].w # None
      BY <1>2 DEF WorkerOpen, PaneMap, OpensKnow, At
    <3>2. h \in 0 .. MaxShells /\ Shells \subseteq Nat
      BY HybridAssumption DEF Shells
    <3>3. \A g \in Shells : shell'[g].pc # "none" <=> g <= h
      BY <2>2, <3>2
    <3>4. \A g \in Shells : shell'[g].pc # "none" <=> UsedShell(g)'
      BY <2>2, <3>1 DEF PaneMap, ShellsInOrder, UsedShell
    <3> QED BY <3>2, <3>3, <3>4 DEF ShellsInOrder
  <2> QED BY <1>2, <2>1, <2>2, OpenEffect DEF PaneMap
<1> QED BY <1>1, <1>2

\* A slot that is handed out is above every one in use.
LEMMA NewSlot ==
  ASSUME TypeOK, ShellsBelowNext, TasksBelowNext, OneShellPerSlot, OpensKnow, NEW t \in Tasks,
         ~Opened(t)', OthersStay(t), shell' = shell, task'[t].slot = next, task'[t].pc \in {"start", "open"},
         task'[t].pc = "open" => task'[t].w # None
  PROVE  OneShellPerSlot' /\ OpensKnow'
<1>0. next \in Nat
  BY TaskFields
<1>1. \A h \in Shells : UsedShell(h) => shell[h].slot # next
  BY <1>0, TaskFields DEF ShellsBelowNext
<1>2. \A u \in Tasks : Opening(u) => task[u].slot # next
  BY <1>0, TaskFields DEF TasksBelowNext, HoldsSlot, Opening
<1>3. OneShellPerSlot'
  BY <1>1, <1>2 DEF OneShellPerSlot, OthersStay, Opening, UsedShell
<1>4. OpensKnow'
  BY DEF OpensKnow, OthersStay, Opened, UsedShell
<1> QED BY <1>3, <1>4

LEMMA OneShellStep ==
  ASSUME TypeOK, PendingAwaits, ShellsBelowNext, TasksBelowNext, Workplace, PaneMap,
         [Next]_vars, Untouched'
  PROVE  OneShellPerSlot' /\ OpensKnow'
<1>1. CASE \A t \in Tasks : ~Spawn(t) /\ ~OpenAlloc(t) /\ ~WorkerOpen(t)
  <2>1. ShellsKept /\ \A u \in Tasks : KeptTask(u)
    BY <1>1, ShellsStay, TasksStay DEF PaneMap
  <2>2. OneShellPerSlot'
    BY <2>1 DEF PaneMap, OneShellPerSlot, ShellsKept, KeptTask, UsedShell
  <2>3. OpensKnow'
    BY <2>1 DEF PaneMap, OpensKnow, ShellsKept, KeptTask, UsedShell
  <2> QED BY <2>2, <2>3
<1>2. ASSUME NEW t \in Tasks, Spawn(t) PROVE OneShellPerSlot' /\ OpensKnow'
  <2>1. Call(t, "spawn", [Idle EXCEPT !.pc = "start", !.slot = next]) /\ shell' = shell
    BY <1>2 DEF Spawn, wrk
  <2>2. task'[t] = [Idle EXCEPT !.pc = "start", !.slot = next] /\ OthersStay(t)
    BY <2>1, CallEffect DEF OthersStay
  <2>3. task'[t].slot = next /\ task'[t].pc = "start"
    BY <2>2 DEF Idle
  <2> QED BY <2>1, <2>2, <2>3, NewSlot DEF PaneMap, Opened
<1>3. ASSUME NEW t \in Tasks, OpenAlloc(t) PROVE OneShellPerSlot' /\ OpensKnow'
  <2>1. /\ task' = [task EXCEPT ![t].pc = "open", ![t].slot = next]
        /\ shell' = shell /\ At(t, "alloc")
    BY <1>3 DEF OpenAlloc, wrk
  <2>2. OthersStay(t) /\ task'[t].pc = "open" /\ task'[t].slot = next /\ task'[t].w = task[t].w
    <3>1. ASSUME NEW i, NEW pc \in {"open"}, task' = [task EXCEPT ![t].pc = pc, ![t].slot = i]
          PROVE  OthersStay(t) /\ task'[t].pc = pc /\ task'[t].slot = i /\ task'[t].w = task[t].w
      BY <3>1, WideStay
    <3> QED BY <2>1, <3>1
  <2>3. task[t].w # None
    BY <2>1 DEF PaneMap, OpensKnow, At
  <2> QED BY <2>1, <2>2, <2>3, NewSlot DEF PaneMap, Opened
<1>4. ASSUME NEW t \in Tasks, WorkerOpen(t) PROVE OneShellPerSlot' /\ OpensKnow'
  <2>0. At(t, "open") /\ task[t].w # None
    BY <1>4 DEF WorkerOpen, PaneMap, OpensKnow, At
  <2>1. CASE Return(t) /\ shell' = shell
    <3>1. OthersStay(t) /\ task'[t].pc = "idle"
      BY <2>1, ReturnStay
    <3>2. OneShellPerSlot'
      BY <2>1, <3>1 DEF PaneMap, OneShellPerSlot, OthersStay, UsedShell, Opening
    <3>3. OpensKnow'
      BY <2>1, <3>1 DEF PaneMap, OpensKnow, OthersStay, UsedShell, Opened
    <3> QED BY <3>2, <3>3
  <2>2. ASSUME NEW h \in Shells,
               \A g \in Shells : shell[g].pc # "none" <=> g < h,
               \A g \in Shells : g # h => shell'[g] = shell[g],
               shell'[h].w = task[t].w, shell'[h].slot = task[t].slot,
               OthersStay(t), task'[t].pc = "insert", task'[t].h = h,
               task'[t].w = task[t].w, task'[t].slot = task[t].slot
        PROVE  OneShellPerSlot' /\ OpensKnow'
    <3>1. ~UsedShell(h)
      BY <2>2, TaskFields DEF PaneMap, ShellsInOrder
    <3>2. Opening(t)
      BY <2>0 DEF Opening, At
    <3>3. \A g, k \in Shells : UsedShell(g)' /\ UsedShell(k)' /\ shell'[g].slot = shell'[k].slot => g = k
      BY <2>2, <3>2 DEF PaneMap, OneShellPerSlot, UsedShell
    <3>4. \A u \in Tasks : Opening(u)' => u # t /\ Opening(u) /\ task'[u] = task[u]
      BY <2>2 DEF OthersStay, Opening
    <3>5. \A u \in Tasks, g \in Shells : Opening(u)' /\ UsedShell(g)' => task'[u].slot # shell'[g].slot
      BY <2>2, <3>2, <3>4 DEF PaneMap, OneShellPerSlot, UsedShell
    <3>6. \A u, v \in Tasks : Opening(u)' /\ Opening(v)' /\ task'[u].slot = task'[v].slot => u = v
      BY <3>4 DEF PaneMap, OneShellPerSlot
    <3>7. OneShellPerSlot'
      BY <3>3, <3>5, <3>6 DEF OneShellPerSlot
    <3>8. ASSUME NEW u \in Tasks, u # t
          PROVE  /\ task'[u].pc \in {"alloc", "open"} => task'[u].w # None
                 /\ Opened(u)' => /\ task'[u].h \in Shells /\ UsedShell(task[u].h)'
                                  /\ shell'[task'[u].h].w = task'[u].w
                                  /\ shell'[task'[u].h].slot = task'[u].slot
      <4>1. task'[u] = task[u]
        BY <2>2, <3>8 DEF OthersStay
      <4>2. Opened(u) => task[u].h \in Shells /\ task[u].h # h
        BY <3>1 DEF PaneMap, OpensKnow
      <4> QED BY <2>2, <4>1, <4>2 DEF PaneMap, OpensKnow, Opened, UsedShell
    <3>9. OpensKnow'
      BY <2>0, <2>2, <3>8 DEF OpensKnow, Opened, UsedShell
    <3> QED BY <3>7, <3>9
  <2> QED BY <1>4, <2>1, <2>2, OpenEffect DEF PaneMap
<1> QED BY <1>1, <1>2, <1>3, <1>4

LEMMA MappedAliveStep ==
  ASSUME TypeOK, Workplace, PaneMap, [Next]_vars, Untouched'
  PROVE  MappedAlive'
<1> SUFFICES ASSUME NEW g \in Shells, shell'[g].pc = "mapped"
             PROVE  UsedShell(g)' /\ Alive(shell[g].w)' /\ shell'[g].w = shell[g].w
  BY DEF MappedAlive, Alive
<1>1. CASE \A t \in Tasks : ~WorkerOpen(t)
  <2>1. ShellsKept
    BY <1>1, ShellsStay
  <2>2. shell'[g].w = shell[g].w /\ UsedShell(g) /\ Alive(shell[g].w)
    <3>1. CASE shell[g].pc = "mapped"
      BY <2>1, <3>1 DEF ShellsKept, PaneMap, MappedAlive
    <3>2. CASE shell[g].pc # "mapped"
      <4>1. PICK t \in Tasks : WorkerInsert(t) /\ task[t].h = g /\ Alive(task[t].w)
        BY <1>1, <3>2, ShellsStay
      <4>2. UsedShell(g) /\ shell[g].w = task[t].w
        BY <4>1 DEF WorkerInsert, PaneMap, OpensKnow, Opened, At
      <4> QED BY <2>1, <4>1, <4>2 DEF ShellsKept
    <3> QED BY <3>1, <3>2
  <2>3. shell[g].w \in Workers
    BY <2>2, TaskFields DEF UsedShell
  <2>4. ~Exit(shell[g].w) /\ ~Crash(shell[g].w)
    <3> SUFFICES ASSUME End(shell[g].w) PROVE FALSE
      BY DEF Exit, Crash
    <3>1. shell'[g].pc \in Notifying \cup {"done"}
      BY <2>3, EndEffect
    <3> QED BY <3>1 DEF Notifying
  <2>5. Alive(shell[g].w)'
    BY <2>2, <2>3, <2>4, ProcsStay DEF Workplace, Alive
  <2> QED BY <2>2, <2>5 DEF UsedShell
<1>2. ASSUME NEW t \in Tasks, WorkerOpen(t)
      PROVE  UsedShell(g)' /\ Alive(shell[g].w)' /\ shell'[g].w = shell[g].w
  <2>1. shell'[g] = shell[g]
    BY <1>2, OpenEffect DEF PaneMap
  <2>2. proc' = proc
    BY <1>2 DEF WorkerOpen
  <2> QED BY <2>1, <2>2 DEF PaneMap, MappedAlive, UsedShell, Alive
<1> QED BY <1>1, <1>2

LEMMA PersistedStep ==
  ASSUME TypeOK, PendingAwaits, Workplace, PaneMap, [Next]_vars, Untouched'
  PROVE  Persisted'
<1> SUFFICES ASSUME NEW g \in Shells, shell'[g].pc = "mapped"
             PROVE  shell'[g].slot \in shard' \/ \E t \in Tasks : task'[t].pc = "upsert" /\ task'[t].h = g
  BY DEF Persisted, At
<1> DEFINE Goal == shell'[g].slot \in shard' \/ \E t \in Tasks : task'[t].pc = "upsert" /\ task'[t].h = g
<1>1. ASSUME NEW t \in Tasks, WorkerInsert(t), task[t].h = g, Alive(task[t].w) PROVE Goal
  <2>1. Goto(t, "upsert")
    BY <1>1 DEF WorkerInsert
  <2>2. task'[t].pc = "upsert" /\ task'[t].h = task[t].h
    BY <2>1, GotoStay
  <2> QED BY <1>1, <2>2
<1>2. ASSUME shell[g].pc = "mapped", shell'[g].slot = shell[g].slot PROVE Goal
  <2>1. CASE shell[g].slot \in shard
    <3>1. ASSUME NEW h \in Shells, CloseDelete(h), shell[h].slot = shell[g].slot PROVE FALSE
      <4>1. shell[h].pc = "delete" /\ shell' = [shell EXCEPT ![h].pc = "notify"]
        BY <3>1 DEF CloseDelete
      <4>2. h = g
        BY <1>2, <3>1, <4>1 DEF PaneMap, ShellsInOrder, OneShellPerSlot
      <4> QED BY <1>2, <4>1, <4>2
    <3> QED BY <1>2, <2>1, <3>1, ShardStay
  <2>2. ASSUME NEW t \in Tasks, At(t, "upsert"), task[t].h = g PROVE Goal
    <3>1. CASE WorkerUpsert(t)
      <4>1. UsedShell(g) /\ shell[g].w = task[t].w /\ shell[g].slot = task[t].slot
        BY <2>2 DEF PaneMap, OpensKnow, Opened, At
      <4>2. Alive(task[t].w)
        BY <1>2, <4>1 DEF PaneMap, MappedAlive
      <4> QED BY <1>2, <3>1, <4>1, <4>2 DEF WorkerUpsert
    <3>2. CASE ~WorkerUpsert(t)
      <4>1. CASE \A u \in Tasks : ~Spawn(u) /\ ~OpenAlloc(u) /\ ~WorkerOpen(u)
        <5>1. KeptTask(t)
          BY <4>1, TasksStay DEF PaneMap
        <5> QED BY <2>2, <3>2, <5>1 DEF KeptTask, At
      <4>2. ASSUME NEW u \in Tasks, Spawn(u) \/ OpenAlloc(u) \/ WorkerOpen(u) PROVE Goal
        <5>1. u # t
          BY <2>2, <4>2 DEF Spawn, Call, Idle, OpenAlloc, WorkerOpen, At
        <5>2. OthersStay(u)
          <6>1. CASE Spawn(u)
            <7>1. \E r : Call(u, "spawn", r)
              BY <6>1 DEF Spawn
            <7> QED BY <7>1, CallEffect DEF OthersStay
          <6>2. CASE OpenAlloc(u) \/ WorkerOpen(u)
            BY <6>2, ReturnStay DEF OpenAlloc, WorkerOpen, OthersStay, TypeOK
          <6> QED BY <4>2, <6>1, <6>2
        <5> QED BY <2>2, <5>1, <5>2 DEF OthersStay, At
      <4> QED BY <4>1, <4>2
    <3> QED BY <3>1, <3>2
  <2> QED BY <1>2, <2>1, <2>2 DEF PaneMap, Persisted
<1>3. CASE \A t \in Tasks : ~WorkerOpen(t)
  BY <1>1, <1>2, <1>3, ShellsStay DEF ShellsKept
<1>4. ASSUME NEW t \in Tasks, WorkerOpen(t) PROVE Goal
  <2>1. shell'[g] = shell[g]
    BY <1>4, OpenEffect DEF PaneMap
  <2> QED BY <1>2, <2>1
<1> QED BY <1>3, <1>4

LEMMA PaneInvariant == Spec => []PaneInv
<1>1. Init => PaneInv
  <2> SUFFICES ASSUME Init PROVE Workplace /\ PaneMap
    BY DEF PaneInv
  <2>1. \A h \in Shells : shell[h].w = None /\ shell[h].pc = "none"
    BY DEF Init, NoShell
  <2>2. \A t \in Tasks : task[t].pc = "idle"
    BY DEF Init, Idle
  <2>3. Workplace
    BY <2>1, <2>2 DEF Init, Workplace, NothingYet, OneSpawn, NoRespawn, EmptyShard, Born, Booting,
                      At, UsedShell, Resting, Background
  <2>4. 0 \in 0 .. MaxShells /\ \A h \in Shells : ~(h <= 0)
    BY HybridAssumption DEF Shells
  <2>5. PaneMap
    BY <2>1, <2>2, <2>4 DEF PaneMap, ShellsInOrder, OneShellPerSlot, OpensKnow, MappedAlive,
                            Persisted, UsedShell, Opening, Opened
  <2> QED BY <2>3, <2>5
<1>2. TypeOK /\ SlotInv /\ PaneInv /\ [Next]_vars => PaneInv'
  <2> SUFFICES ASSUME TypeOK, SlotInv, PaneInv, [Next]_vars, Untouched'
               PROVE  Workplace' /\ PaneMap'
    BY DEF PaneInv
  <2>1. PendingAwaits /\ ShellsBelowNext /\ TasksBelowNext /\ Workplace /\ PaneMap
    BY UntouchedBefore DEF SlotInv, PaneInv
  <2>2. Workplace'
    BY <2>1, NothingYetStep, OneSpawnStep, NoRespawnStep, EmptyShardStep DEF Workplace
  <2>3. PaneMap'
    BY <2>1, ShellsInOrderStep, OneShellStep, MappedAliveStep, PersistedStep DEF PaneMap
  <2> QED BY <2>2, <2>3
<1>3. Spec => [](TypeOK /\ SlotInv)
  BY SlotInvariant, TypeCorrect, PTL
<1> QED BY <1>1, <1>2, <1>3, PTL DEF Spec

\* A pane of the registered worker has its row in the shard, or the open that is
\* to write it (upsert_pane in the worker's open_pane) is still running; so a
\* crash at any moment loses no pane whose open has been answered.
THEOREM PanesPersisted == Spec => []LivePanesPersisted
<1>1. PaneInv => LivePanesPersisted
  BY DEF PaneInv, PaneMap, Persisted, LivePanesPersisted, Mapped
<1> QED BY <1>1, PaneInvariant, PTL

-----------------------------------------------------------------------------
(* The end of a worker.  As long as the session is not removed and no      *)
(* failed spawn or open has left its slot, every PaneId stands for a pane  *)
(* that is opening, open or closing; so a worker that ends by itself with  *)
(* nothing left has had its session removed before.                        *)

Running     == \A w \in Workers : proc[w] \notin {"exited", "reaped"}
SomePane    == \E p \in Panes : index[p] # None
Evicting    == \E h \in Shells : shell[h].pc = "evict_index"
Spawning(t) == task[t].pc \in {"start", "await"}
Stands(h)   == shell[h].pc \in {"forked", "mapped", "delete", "notify"}

\* The worker of a shell was started, by the running supervisor.
Named ==
  /\ \A w \in Workers : Born(w) => w \in linked
  /\ \A h \in Shells : UsedShell(h) => Born(shell[h].w)

NoKill ==
  /\ \A t \in Tasks : task[t].pc \notin {"kill_handle", "shutdown"}
  /\ \A w \in Workers : stop[w].pc = "no"
  /\ \A h \in Shells : shell[h].pc # "evict_handle"

\* Until the spawn's worker has registered there is nothing else.
SpawnFirst ==
  \A t \in Tasks : Spawning(t) =>
    /\ handle = None
    /\ At(t, "await") => pending = t
    /\ At(t, "start") => joining = {}
    /\ \A u \in Tasks :
         /\ u # t => ~Spawning(u)
         /\ task[u].pc \notin {"client", "alloc", "open", "insert", "upsert", "close"}
    /\ \A h \in Shells : ~UsedShell(h)

PaneIdsStand ==
  Running /\ "leaked" \notin hist =>
    \A p \in Panes : index[p] # None =>
      \/ \E t \in Tasks : Opening(t) /\ task[t].slot = index[p]
      \/ \E h \in Shells : UsedShell(h) /\ shell[h].slot = index[p] /\ Stands(h)

\* A shell that is forked and not mapped yet has its open.
ForkedInserts ==
  Running =>
    /\ \A h \in Shells : shell[h].pc = "forked" => \E t \in Tasks : At(t, "insert") /\ task[t].h = h
    /\ \A t \in Tasks : At(t, "insert") => shell[task[t].h].pc = "forked"
    /\ \A t, u \in Tasks : At(t, "insert") /\ At(u, "insert") /\ task[t].h = task[u].h => t = u

\* A worker that is to stop because it has no pane left has told the supervisor of
\* its last one.
FlagsTold ==
  /\ \A w \in Workers : flag[w] => /\ Alive(w) /\ \E h \in Shells : UsedShell(h)
                                   /\ SomePane \/ Evicting
  /\ \A h \in Shells : Running /\ shell[h].pc = "check" => SomePane \/ Evicting

SettledLeaked == \A w \in Workers : ended[w] = "settled" => "leaked" \in hist

\* The SIGCHLD handler is about a worker it has reaped.
ReaperNamed == bg["reaper"].pc # "idle" => bg["reaper"].w \in Workers

EndState ==
  /\ Named /\ NoKill /\ SpawnFirst /\ PaneIdsStand /\ ForkedInserts /\ FlagsTold
  /\ SettledLeaked /\ ReaperNamed
EndInv   == Untouched => EndState

\* What holds besides, before a step.
Before == TypeOK /\ PendingAwaits /\ IndexInv /\ ShellsBelowNext /\ TasksBelowNext /\ Workplace /\ PaneMap

\* The steps that do not remove the session.
Remaining ==
  \/ \E t \in Tasks :
       \/ Request(t) \/ SpawnStart(t) \/ SpawnTimeout(t) \/ SpawnClient(t) \/ OpenAlloc(t)
       \/ WorkerOpen(t) \/ WorkerInsert(t) \/ WorkerUpsert(t) \/ WorkerClose(t) \/ Resolve(t)
  \/ \E h \in Shells :
       ReaderEof(h) \/ CloseDelete(h) \/ PaneClosed(h) \/ NotifyFails(h) \/ CloseCheck(h)
  \/ \E w \in Workers : Recover(w) \/ Connect(w) \/ Register(w) \/ Exit(w) \/ Crash(w) \/ Reap(w)
  \/ ReapFind \/ ReapCount \/ HeartbeatTimeout
  \/ UNCHANGED vars

LEMMA OnlyRemaining ==
  ASSUME Before, NoKill, [Next]_vars, Untouched'
  PROVE  Remaining
<1>1. ASSUME NEW t \in Tasks PROVE ~KillIndex(t) /\ ~KillHandle(t) /\ ~KillShutdown(t) /\ ~Track(t)
  BY DEF Before, NoKill, TasksBelowNext, KillIndex, KillHandle, KillShutdown, Track, At,
         RemoveIndex, Happened, Untouched
<1>2. ASSUME NEW h \in Shells PROVE ~EvictIndex(h) /\ ~EvictHandle(h)
  BY DEF NoKill, EvictIndex, EvictHandle, RemoveIndex, Happened, Untouched
<1>3. ASSUME NEW w \in Workers PROVE ~GraceOver(w) /\ ~ShutdownNext(w)
  BY DEF NoKill, GraceOver, ShutdownNext
<1>4. ASSUME NEW b \in Background PROVE ~BgRemoveIndex(b) /\ ~BgRemoveHandle(b) /\ ~Respawn(b)
  BY DEF Before, Workplace, NoRespawn, BgRemoveIndex, BgRemoveHandle, Respawn,
         RemoveIndex, Happened, Untouched
<1>5. ~Reattach /\ ~Restart
  BY DEF Before, Workplace, NoRespawn, Reattach, Restart, Happened, Untouched
<1> QED BY <1>1, <1>2, <1>3, <1>4, <1>5 DEF Next, Step, CloseStep, WorkerStep, BgStep, Remaining

LEMMA NoKillStep ==
  ASSUME Before, NoKill, Remaining
  PROVE  NoKill'
<1>0. TypeOK
  BY DEF Before
<1> USE DEF sup, wrk, past
<1>1. \A t \in Tasks : task'[t].pc \notin {"kill_handle", "shutdown"}
  <2> DEFINE Goal == \A t \in Tasks : task'[t].pc \notin {"kill_handle", "shutdown"}
  <2> SUFFICES Goal
    OBVIOUS
  <2>a. ASSUME NEW t \in Tasks, OthersStay(t), task'[t].pc \notin {"kill_handle", "shutdown"} PROVE Goal
    BY <2>a DEF OthersStay, NoKill
  <2>b. ASSUME task' = task PROVE Goal
    BY <2>b DEF NoKill
  <2>1. ASSUME NEW t \in Tasks, NEW rpc, NEW r, Call(t, rpc, r),
               r.pc \notin {"kill_handle", "shutdown"}
        PROVE  Goal
    BY <1>0, <2>1, <2>a, CallEffect DEF OthersStay
  <2>2. ASSUME NEW t \in Tasks, Request(t) PROVE Goal
    BY <2>1, <2>2 DEF Request, Spawn, OpenPane, ClosePane, Kill, GcStaleSessions, ListAllPanes,
                      Report, Idle
  <2>3. ASSUME NEW t \in Tasks, Return(t) PROVE Goal
    BY <1>0, <2>3, <2>a, ReturnStay
  <2>4. ASSUME NEW t \in Tasks, NEW pc \in {"await", "upsert", "track"}, Goto(t, pc) PROVE Goal
    BY <1>0, <2>4, <2>a, GotoStay
  <2>5. ASSUME NEW t \in Tasks, NEW w, NEW pc \in {"open"}, task' = [task EXCEPT ![t].pc = pc, ![t].w = w]
        PROVE  Goal
    BY <1>0, <2>5, <2>a, WideStay
  <2>6. ASSUME NEW t \in Tasks, NEW i, NEW pc \in {"open"}, task' = [task EXCEPT ![t].pc = pc, ![t].slot = i]
        PROVE  Goal
    BY <1>0, <2>6, <2>a, WideStay
  <2>7. ASSUME NEW t \in Tasks, NEW h, NEW pc \in {"insert"}, task' = [task EXCEPT ![t].pc = pc, ![t].h = h]
        PROVE  Goal
    BY <1>0, <2>7, <2>a, WideStay
  <2>8. ASSUME NEW w \in Workers, Register(w) PROVE Goal
    BY <1>0, <2>8, RegisterEffect DEF NoKill
  <2> HIDE DEF Goal
  <2>9. ASSUME NEW t \in Tasks, SpawnStart(t) \/ SpawnTimeout(t) \/ SpawnClient(t) \/ OpenAlloc(t)
        PROVE  Goal
    BY <2>3, <2>4, <2>5, <2>6, <2>9 DEF SpawnStart, SpawnTimeout, SpawnClient, OpenAlloc
  <2>10. ASSUME NEW t \in Tasks,
                \/ WorkerOpen(t) \/ WorkerInsert(t) \/ WorkerUpsert(t) \/ WorkerClose(t) \/ Resolve(t)
         PROVE  Goal
    BY <2>3, <2>4, <2>7, <2>10 DEF WorkerOpen, WorkerInsert, WorkerUpsert, WorkerClose, Resolve
  <2>11. ASSUME NEW h \in Shells,
                ReaderEof(h) \/ CloseDelete(h) \/ PaneClosed(h) \/ NotifyFails(h) \/ CloseCheck(h)
         PROVE  Goal
    BY <2>b, <2>11 DEF ReaderEof, CloseDelete, PaneClosed, NotifyFails, CloseCheck
  <2>12. ASSUME NEW w \in Workers, Recover(w) \/ Connect(w) \/ Exit(w) \/ Crash(w) \/ Reap(w)
         PROVE  Goal
    BY <2>b, <2>12 DEF Recover, Connect, Exit, Crash, End, Reap
  <2>13. CASE ReapFind \/ ReapCount \/ HeartbeatTimeout \/ UNCHANGED vars
    BY <2>b, <2>13 DEF ReapFind, ReapCount, HeartbeatTimeout, vars
  <2> QED BY <2>2, <2>8, <2>9, <2>10, <2>11, <2>12, <2>13 DEF Remaining
<1>2. \A w \in Workers : stop'[w].pc = "no"
  <2>1. stop' = stop \/ \E w \in Workers : End(w)
    BY DEF Remaining, Request, Spawn, OpenPane, ClosePane, Kill, GcStaleSessions, ListAllPanes,
       Report, SpawnStart, SpawnTimeout, SpawnClient, OpenAlloc, WorkerOpen, WorkerInsert,
       WorkerUpsert, WorkerClose, Resolve, ReaderEof, CloseDelete, PaneClosed, NotifyFails,
       CloseCheck, Recover, Connect, Register, Exit, Crash, Reap, ReapFind, ReapCount,
       HeartbeatTimeout, vars
  <2>2. ASSUME NEW w \in Workers, End(w) PROVE \A v \in Workers : stop'[v].pc = "no"
    BY <1>0, <2>2 DEF End, NoStop, NoKill, TypeOK
  <2> QED BY <2>1, <2>2 DEF NoKill
<1>3. ASSUME NEW g \in Shells PROVE shell'[g].pc # "evict_handle"
  <2>0. shell[g].pc # "evict_handle"
    BY DEF NoKill
  <2>a. ASSUME shell'[g] = shell[g] PROVE shell'[g].pc # "evict_handle"
    BY <2>0, <2>a
  <2>b. ASSUME NEW w, NEW i, ShellsRemoved(w, i) PROVE shell'[g].pc # "evict_handle"
    BY <2>0, <2>b DEF ShellsRemoved
  <2>1. ASSUME NEW t \in Tasks, WorkerOpen(t) PROVE shell'[g].pc # "evict_handle"
    BY <1>0, <2>0, <2>1, OpenEffect DEF Before, PaneMap
  <2>2. ASSUME NEW t \in Tasks, WorkerInsert(t) PROVE shell'[g].pc # "evict_handle"
    BY <1>0, <2>0, <2>2, InsertEffect
  <2>3. ASSUME NEW t \in Tasks, WorkerClose(t) PROVE shell'[g].pc # "evict_handle"
    BY <1>0, <2>a, <2>b, <2>3, CloseEffect DEF WorkerClose
  <2>4. ASSUME NEW h \in Shells, ReaderEof(h) PROVE shell'[g].pc # "evict_handle"
    BY <1>0, <2>b, <2>4, EofEffect
  <2>5. ASSUME NEW h \in Shells, CloseDelete(h) \/ PaneClosed(h) \/ NotifyFails(h) \/ CloseCheck(h)
        PROVE  shell'[g].pc # "evict_handle"
    <3>1. PICK pc \in {"notify", "evict_index", "check", "done"} : shell' = [shell EXCEPT ![h].pc = pc]
      BY <2>5 DEF CloseDelete, PaneClosed, NotifyFails, CloseCheck
    <3>2. ShellTo(h, pc)
      BY <1>0, <3>1, ShellEffect
    <3> QED BY <2>0, <3>1, <3>2 DEF ShellTo
  <2>6. ASSUME NEW w \in Workers, Recover(w) PROVE shell'[g].pc # "evict_handle"
    BY <1>0, <2>a, <2>6, RecoverNothing DEF Before, Workplace
  <2>7. ASSUME NEW w \in Workers, Exit(w) \/ Crash(w) PROVE shell'[g].pc # "evict_handle"
    BY <1>0, <2>0, <2>7, EndEffect DEF Exit, Crash
  <2>8. ASSUME NEW t \in Tasks, \/ Request(t) \/ SpawnStart(t) \/ SpawnTimeout(t) \/ SpawnClient(t)
                                \/ OpenAlloc(t) \/ WorkerUpsert(t) \/ Resolve(t)
        PROVE  shell'[g].pc # "evict_handle"
    BY <2>a, <2>8 DEF Request, Spawn, OpenPane, ClosePane, Kill, GcStaleSessions, ListAllPanes,
       Report, SpawnStart, SpawnTimeout, SpawnClient, OpenAlloc, WorkerUpsert, Resolve
  <2>9. ASSUME NEW w \in Workers, Connect(w) \/ Register(w) \/ Reap(w)
        PROVE  shell'[g].pc # "evict_handle"
    BY <2>a, <2>9 DEF Connect, Register, Reap
  <2>10. CASE ReapFind \/ ReapCount \/ HeartbeatTimeout \/ UNCHANGED vars
    BY <2>a, <2>10 DEF ReapFind, ReapCount, HeartbeatTimeout, vars
  <2> QED BY <2>1, <2>2, <2>3, <2>4, <2>5, <2>6, <2>7, <2>8, <2>9, <2>10 DEF Remaining
<1> QED BY <1>1, <1>2, <1>3 DEF NoKill

\* Processes: only a new worker is born, into the supervisor's children; an ended
\* one does not come back.
LEMMA BornFate ==
  ASSUME Before, Remaining
  PROVE  /\ \A w \in Workers : Born(w) => Born(w)'
         /\ \A w \in Workers : Born(w)' => Born(w) \/ w \in linked'
         /\ linked \subseteq linked'
         /\ Running' => Running
         /\ hist \subseteq hist'
<1> USE DEF sup, wrk, past
<1>0. proc \in [Workers -> {"none", "boot", "bound", "up", "exited", "reaped"}]
  BY DEF Before, TypeOK
<1>1. hist \subseteq hist'
  BY DEF Remaining, Request, Spawn, OpenPane, ClosePane, Kill, GcStaleSessions, ListAllPanes,
     Report, SpawnStart, SpawnTimeout, SpawnClient, OpenAlloc, WorkerOpen, WorkerInsert,
     WorkerUpsert, WorkerClose, Resolve, ReaderEof, CloseDelete, PaneClosed, NotifyFails,
     CloseCheck, Recover, Connect, Register, Exit, Crash, End, Reap, ReapFind, ReapCount,
     HeartbeatTimeout, vars, Happened
<1> DEFINE Goal == /\ \A w \in Workers : Born(w) => Born(w)'
                   /\ \A w \in Workers : Born(w)' => Born(w) \/ w \in linked'
                   /\ linked \subseteq linked'
                   /\ Running' => Running
<1> SUFFICES Goal
  BY <1>1
<1>a. ASSUME proc' = proc, linked' = linked PROVE Goal
  BY <1>a DEF Born, Running
<1>b. ASSUME NEW w \in Workers, proc[w] # "none", NEW x \in {"bound", "up"},
             proc[w] \notin {"exited", "reaped"}, proc' = [proc EXCEPT ![w] = x], linked' = linked
      PROVE  Goal
  BY <1>0, <1>b DEF Born, Running
<1>c. ASSUME NEW w \in Workers, proc[w] # "none", NEW x \in {"exited", "reaped"},
             proc' = [proc EXCEPT ![w] = x], linked' = linked
      PROVE  Goal
  BY <1>0, <1>c DEF Born, Running
<1>2. ASSUME NEW t \in Tasks, SpawnStart(t) PROVE Goal
  <2>1. ASSUME NEW w \in 1 .. scn.workers, {v \in Workers : proc[v] # "none"} = 1 .. w - 1,
               proc' = [proc EXCEPT ![w] = "boot"], linked' = linked \cup {w}
        PROVE  Goal
    <3>1. w \notin 1 .. w - 1
      BY HybridAssumption
    <3>2. w \in Workers => proc[w] = "none"
      BY <2>1, <3>1
    <3>3. \A v \in Workers : proc'[v] = IF v = w THEN "boot" ELSE proc[v]
      BY <1>0, <2>1
    <3> QED BY <2>1, <3>2, <3>3 DEF Born, Running
  <2> QED BY <1>2, <1>a, <2>1 DEF SpawnStart, SpawnWorker
<1>3. ASSUME NEW t \in Tasks, \/ Request(t) \/ SpawnTimeout(t) \/ SpawnClient(t) \/ OpenAlloc(t)
                              \/ WorkerOpen(t) \/ WorkerInsert(t) \/ WorkerUpsert(t)
                              \/ WorkerClose(t) \/ Resolve(t)
      PROVE  Goal
  BY <1>3, <1>a DEF Request, Spawn, OpenPane, ClosePane, Kill, GcStaleSessions, ListAllPanes,
     Report, SpawnTimeout, SpawnClient, OpenAlloc, WorkerOpen, WorkerInsert, WorkerUpsert,
     WorkerClose, Resolve
<1>4. ASSUME NEW h \in Shells,
             ReaderEof(h) \/ CloseDelete(h) \/ PaneClosed(h) \/ NotifyFails(h) \/ CloseCheck(h)
      PROVE  Goal
  BY <1>4, <1>a DEF ReaderEof, CloseDelete, PaneClosed, NotifyFails, CloseCheck
<1>5. ASSUME NEW w \in Workers, Recover(w) \/ Connect(w) PROVE Goal
  BY <1>5, <1>a, <1>b DEF Recover, Connect
<1>6. ASSUME NEW w \in Workers, Register(w) PROVE Goal
  BY <1>6, <1>a, <1>b DEF Register, Alive
<1>7. ASSUME NEW w \in Workers, Exit(w) \/ Crash(w) \/ Reap(w) PROVE Goal
  BY <1>7, <1>c DEF Exit, Crash, End, Reap, Alive
<1>8. CASE ReapFind \/ ReapCount \/ HeartbeatTimeout \/ UNCHANGED vars
  BY <1>a, <1>8 DEF ReapFind, ReapCount, HeartbeatTimeout, vars
<1> HIDE DEF Goal
<1> QED BY <1>2, <1>3, <1>4, <1>5, <1>6, <1>7, <1>8 DEF Remaining

LEMMA NamedStep ==
  ASSUME Before, Named, Remaining, [Next]_vars, Untouched'
  PROVE  Named'
<1>1. \A w \in Workers : Born(w)' => w \in linked'
  BY BornFate DEF Named
<1>2. ASSUME NEW h \in Shells, UsedShell(h)' PROVE proc'[shell'[h].w] # "none"
  <2>1. CASE \A t \in Tasks : ~WorkerOpen(t)
    <3>1. shell'[h].w = shell[h].w
      BY <2>1, ShellsStay DEF ShellsKept, Before
    <3>2. UsedShell(h) /\ shell[h].w \in Workers
      BY <1>2, <3>1, TaskFields DEF UsedShell, Before
    <3>3. \A w \in Workers : proc[w] # "none" => proc'[w] # "none"
      BY BornFate DEF Born
    <3> QED BY <3>1, <3>2, <3>3 DEF Named, Born
  <2>2. ASSUME NEW t \in Tasks, WorkerOpen(t)
        PROVE  proc'[shell'[h].w] # "none"
    <3>1. proc' = proc
      BY <2>2 DEF WorkerOpen
    <3>2. shell'[h] = shell[h] \/ (shell'[h].w = task[t].w /\ proc[task[t].w] = "up")
      BY <2>2, OpenEffect DEF Before, PaneMap
    <3>3. shell'[h] = shell[h] => UsedShell(h)
      BY <1>2 DEF UsedShell
    <3> QED BY <3>1, <3>2, <3>3 DEF Named, Born
  <2> QED BY <2>1, <2>2
<1> QED BY <1>1, <1>2 DEF Named, Born

\* Handlers: a spawn goes on to its open, an open to its insert.
LEMMA TaskFate ==
  ASSUME Before, Remaining, NEW u \in Tasks
  PROVE  /\ Spawning(u)' => Spawning(u) \/ Spawn(u)
         /\ Opening(u) => \/ Opening(u)' /\ task'[u].slot = task[u].slot
                          \/ "leaked" \in hist' \/ WorkerOpen(u)
         /\ At(u, "insert") => task'[u] = task[u] \/ WorkerInsert(u)
         /\ At(u, "insert")' => task'[u] = task[u] \/ WorkerOpen(u)
<1> USE DEF sup, wrk, past
<1>0. TypeOK
  BY DEF Before
<1> DEFINE Goal == /\ Spawning(u)' => Spawning(u) \/ Spawn(u)
                   /\ Opening(u) => \/ Opening(u)' /\ task'[u].slot = task[u].slot
                                    \/ "leaked" \in hist' \/ WorkerOpen(u)
                   /\ At(u, "insert") => task'[u] = task[u] \/ WorkerInsert(u)
                   /\ At(u, "insert")' => task'[u] = task[u] \/ WorkerOpen(u)
<1> SUFFICES Goal
  OBVIOUS
<1>a. ASSUME task'[u] = task[u] PROVE Goal
  BY <1>a DEF Spawning, Opening, At
<1>b. ASSUME task[u].pc \notin {"start", "await", "client", "open", "insert"},
             task'[u].pc \notin {"start", "await", "insert"}
      PROVE  Goal
  BY <1>b DEF Spawning, Opening, At
<1>c. ASSUME task[u].pc \in {"start", "await", "client"}, task'[u].pc \in {"await", "client", "open"},
             task'[u].pc = "await" => task[u].pc = "start", task'[u].slot = task[u].slot
      PROVE  Goal
  BY <1>c DEF Spawning, Opening, At
<1>d. ASSUME task[u].pc \in {"start", "await", "client"}, Return(u), Happened("leaked") PROVE Goal
  <2>1. task'[u].pc = "idle"
    BY <1>0, <1>d, ReturnStay
  <2> QED BY <1>d, <2>1 DEF Spawning, Opening, At, Happened
<1>1. ASSUME NEW t \in Tasks, NEW rpc, NEW r, Call(t, rpc, r),
             r.pc \notin {"start", "await", "insert"}
      PROVE  Goal
  <2>1. task[t].pc = "idle" /\ task'[t] = r /\ \A v \in Tasks : v # t => task'[v] = task[v]
    BY <1>0, <1>1, CallEffect
  <2> QED BY <1>1, <1>a, <1>b, <2>1
<1>2. ASSUME NEW t \in Tasks, Request(t) PROVE Goal
  <2>1. CASE Spawn(t)
    <3>1. Call(t, "spawn", [Idle EXCEPT !.pc = "start", !.slot = next])
      BY <2>1 DEF Spawn
    <3>2. /\ task[t].pc = "idle" /\ task'[t] = [Idle EXCEPT !.pc = "start", !.slot = next]
          /\ \A v \in Tasks : v # t => task'[v] = task[v]
      BY <1>0, <3>1, CallEffect
    <3>3. CASE u = t
      <4>1. task'[u].pc = "start"
        BY <3>2, <3>3 DEF Idle
      <4> QED BY <2>1, <3>2, <3>3, <4>1 DEF Opening, At
    <3> QED BY <1>a, <3>2, <3>3
  <2> HIDE DEF Goal
  <2>2. CASE OpenPane(t) \/ Kill(t) \/ GcStaleSessions(t)
    BY <1>1, <2>2 DEF OpenPane, Kill, GcStaleSessions, Idle
  <2>3. CASE ClosePane(t) \/ ListAllPanes(t) \/ Report(t)
    BY <1>1, <2>3 DEF ClosePane, ListAllPanes, Report, Idle
  <2> QED BY <1>2, <2>1, <2>2, <2>3 DEF Request
<1>3. ASSUME NEW t \in Tasks, OthersStay(t), u # t PROVE Goal
  BY <1>3, <1>a DEF OthersStay
<1>4. CASE SpawnStart(u) \/ SpawnTimeout(u)
  <2>1. CASE Return(u) /\ Happened("leaked")
    BY <1>4, <1>d, <2>1 DEF SpawnStart, SpawnTimeout, At
  <2>2. CASE Goto(u, "await") /\ At(u, "start")
    <3>1. task'[u].pc = "await" /\ task'[u].slot = task[u].slot
      BY <1>0, <2>2, GotoStay
    <3> QED BY <1>c, <2>2, <3>1 DEF At
  <2> QED BY <1>4, <2>1, <2>2 DEF SpawnStart, SpawnTimeout
<1>5. CASE SpawnClient(u)
  <2>1. CASE Return(u) /\ Happened("leaked")
    BY <1>5, <1>d, <2>1 DEF SpawnClient, At
  <2>2. CASE task' = [task EXCEPT ![u].pc = "open", ![u].w = handle]
    <3>1. task'[u].pc = "open" /\ task'[u].slot = task[u].slot
      BY <1>0, <2>2 DEF TypeOK, TaskStates
    <3> QED BY <1>5, <1>c, <3>1 DEF SpawnClient, At
  <2> QED BY <1>5, <2>1, <2>2 DEF SpawnClient
<1>6. CASE OpenAlloc(u)
  <2>1. task[u].pc = "alloc" /\ task'[u].pc = "open"
    BY <1>0, <1>6 DEF OpenAlloc, At, TypeOK, TaskStates
  <2> QED BY <1>b, <2>1
<1>7. CASE WorkerOpen(u)
  <2>1. task'[u].pc \in {"idle", "insert"} /\ task[u].pc = "open"
    BY <1>0, <1>7, OpenEffect, ReturnStay DEF Before, PaneMap, WorkerOpen, At
  <2> QED BY <1>7, <2>1 DEF Spawning, At
<1>8. CASE WorkerInsert(u)
  <2>1. task'[u].pc \in {"idle", "upsert"} /\ task[u].pc = "insert"
    BY <1>0, <1>8, GotoStay, ReturnStay DEF WorkerInsert, At
  <2> QED BY <1>8, <2>1 DEF Spawning, Opening, At
<1>9. CASE WorkerUpsert(u) \/ WorkerClose(u) \/ Resolve(u)
  <2>1. task'[u].pc \in {"idle", "track"} /\ task[u].pc \in {"upsert", "close", "resolve"}
    BY <1>0, <1>9, GotoStay, ReturnStay DEF WorkerUpsert, WorkerClose, Resolve, At
  <2> QED BY <1>b, <2>1
<1>10. ASSUME NEW t \in Tasks,
              \/ SpawnStart(t) \/ SpawnTimeout(t) \/ SpawnClient(t) \/ OpenAlloc(t) \/ WorkerOpen(t)
              \/ WorkerInsert(t) \/ WorkerUpsert(t) \/ WorkerClose(t) \/ Resolve(t)
       PROVE  Goal
  <2>1. OthersStay(t)
    <3>1. CASE SpawnClient(t) \/ OpenAlloc(t) \/ WorkerOpen(t)
      BY <1>0, <3>1, ReturnStay DEF SpawnClient, OpenAlloc, WorkerOpen, OthersStay, TypeOK
    <3>2. CASE Return(t) \/ \E pc : Goto(t, pc)
      BY <1>0, <3>2, ReturnStay, GotoStay
    <3> QED BY <1>10, <3>1, <3>2 DEF SpawnStart, SpawnTimeout, WorkerInsert, WorkerUpsert,
                                     WorkerClose, Resolve
  <2> HIDE DEF Goal
  <2> QED BY <1>3, <1>4, <1>5, <1>6, <1>7, <1>8, <1>9, <1>10, <2>1
<1>11. ASSUME NEW h \in Shells,
              ReaderEof(h) \/ CloseDelete(h) \/ PaneClosed(h) \/ NotifyFails(h) \/ CloseCheck(h)
       PROVE  Goal
  BY <1>a, <1>11 DEF ReaderEof, CloseDelete, PaneClosed, NotifyFails, CloseCheck
<1>12. ASSUME NEW w \in Workers, Register(w) PROVE Goal
  <2>1. /\ task'[u].slot = task[u].slot /\ task'[u].w = task[u].w
        /\ task'[u] = task[u] \/ (task[u].pc = "await" /\ task'[u].pc = "client")
    <3>1. /\ task'[u].slot = task[u].slot /\ task'[u].w = task[u].w
          /\ task'[u].pc = task[u].pc \/ (u = pending /\ task'[u].pc = "client")
      BY <1>0, <1>12, RegisterEffect
    <3>2. task'[u] = task[u] \/ u = pending
      BY <1>12 DEF Register
    <3>3. u = pending => task[u].pc = "await"
      BY <1>0, TaskFields DEF Before, PendingAwaits, At
    <3>4. CASE u = pending /\ task'[u] # task[u]
      <4>1. task'[u] = [task[u] EXCEPT !.pc = "client"] /\ task[u] \in TaskStates
        BY <1>0, <1>12, <3>4 DEF Register, TypeOK
      <4>2. task'[u].pc = "client"
        BY <4>1 DEF TaskStates
      <4> QED BY <3>1, <3>3, <3>4, <4>2
    <3> QED BY <3>1, <3>2, <3>4
  <2> QED BY <1>a, <1>c, <2>1
<1>13. ASSUME NEW w \in Workers, Recover(w) \/ Connect(w) \/ Exit(w) \/ Crash(w) \/ Reap(w) PROVE Goal
  BY <1>a, <1>13 DEF Recover, Connect, Exit, Crash, End, Reap
<1>14. CASE ReapFind \/ ReapCount \/ HeartbeatTimeout \/ UNCHANGED vars
  BY <1>a, <1>14 DEF ReapFind, ReapCount, HeartbeatTimeout, vars
<1> HIDE DEF Goal
<1> QED BY <1>2, <1>10, <1>11, <1>12, <1>13, <1>14 DEF Remaining

LEMMA SpawnFirstStep ==
  ASSUME Before, SpawnFirst, Remaining, [Next]_vars, Untouched'
  PROVE  SpawnFirst'
<1> USE DEF sup, wrk, past
<1>0. TypeOK
  BY DEF Before
<1> DEFINE Working == {"client", "alloc", "open", "insert", "upsert", "close"}
<1> SUFFICES ASSUME NEW t \in Tasks, Spawning(t)'
             PROVE  /\ handle' = None
                    /\ task'[t].pc = "await" => pending' = t
                    /\ task'[t].pc = "start" => joining' = {}
                    /\ \A u \in Tasks : (u # t => ~Spawning(u)') /\ task'[u].pc \notin Working
                    /\ \A h \in Shells : ~UsedShell(h)'
  BY DEF SpawnFirst, At
<1> DEFINE Goal == /\ handle' = None
                   /\ task'[t].pc = "await" => pending' = t
                   /\ task'[t].pc = "start" => joining' = {}
                   /\ \A u \in Tasks : (u # t => ~Spawning(u)') /\ task'[u].pc \notin Working
                   /\ \A h \in Shells : ~UsedShell(h)'
<1> SUFFICES Goal
  OBVIOUS
<1>1. CASE Spawn(t)
  <2>1. /\ handle = None /\ joining = {} /\ \A u \in Tasks : task[u].pc = "idle"
        /\ \A h \in Shells : ~UsedShell(h)
    BY <1>1 DEF Spawn, Before, Workplace, NothingYet, EmptyShard, Booting, Born, At
  <2>2. UNCHANGED <<handle, joining, shell>> /\ Call(t, "spawn", [Idle EXCEPT !.pc = "start", !.slot = next])
    BY <1>1 DEF Spawn
  <2>3. task'[t] = [Idle EXCEPT !.pc = "start", !.slot = next] /\ \A u \in Tasks : u # t => task'[u] = task[u]
    BY <1>0, <2>2, CallEffect
  <2>4. task'[t].pc = "start"
    BY <2>3 DEF Idle
  <2> QED BY <2>1, <2>2, <2>3, <2>4 DEF UsedShell, Spawning
<1>2. Spawning(t) \/ Spawn(t)
  BY TaskFate
<1>3. CASE Spawning(t)
  <2>0. /\ handle = None
        /\ task[t].pc = "await" => pending = t
        /\ task[t].pc = "start" => joining = {}
        /\ \A u \in Tasks : (u # t => ~Spawning(u)) /\ task[u].pc \notin Working
        /\ \A h \in Shells : ~UsedShell(h)
    BY <1>3 DEF SpawnFirst, At
  <2>1. ASSUME NEW u \in Tasks PROVE ~WorkerOpen(u)
    BY <2>0 DEF WorkerOpen, At
  <2>2. \A h \in Shells : ~UsedShell(h)'
    BY <2>0, <2>1, ShellsStay DEF ShellsKept, UsedShell, Before
  <2>a. ASSUME UNCHANGED <<handle, pending, joining, task>> PROVE Goal
    BY <2>0, <2>2, <2>a DEF Spawning
  <2>b. ASSUME UNCHANGED <<handle, pending, joining>>, NEW u \in Tasks, OthersStay(u), u # t,
               task'[u].pc \notin Working \cup {"start", "await"}
        PROVE  Goal
    BY <2>0, <2>2, <2>b DEF Spawning, OthersStay
  <2>3. ASSUME NEW u \in Tasks, Request(u) PROVE Goal
    <3>1. ~Spawn(u)
      BY <1>3 DEF Spawn, Before, Workplace, NothingYet, At, Spawning
    <3>2. ~OpenPane(u) /\ ~ClosePane(u) /\ ~GcStaleSessions(u) /\ ~ListAllPanes(u)
      BY <2>0 DEF OpenPane, ClosePane, GcStaleSessions, ListAllPanes
    <3>3. ~Report(u)
      <4>1. linked \subseteq Workers /\ None \notin Workers
        BY <1>0, TaskFields DEF TypeOK
      <4> QED BY <2>0, <4>1 DEF Report, UsedShell
    <3>4. CASE Kill(u)
      <4>1. UNCHANGED <<handle, pending, joining>> /\ Call(u, "kill", [Idle EXCEPT !.pc = "kill_index"])
        BY <3>4 DEF Kill
      <4>2. task[u] = Idle /\ task'[u] = [Idle EXCEPT !.pc = "kill_index"] /\ OthersStay(u)
        BY <1>0, <4>1, CallEffect DEF OthersStay
      <4>3. task[u].pc = "idle" /\ task'[u].pc = "kill_index"
        BY <4>2 DEF Idle
      <4>4. u # t
        BY <1>3, <4>3 DEF Spawning
      <4> QED BY <2>b, <4>1, <4>2, <4>3, <4>4
    <3> QED BY <2>3, <3>1, <3>2, <3>3, <3>4 DEF Request
  <2>4. ASSUME NEW u \in Tasks, SpawnStart(u) PROVE Goal
    <3>1. u = t
      BY <2>0, <2>4 DEF SpawnStart, At, Spawning
    <3>2. ~Return(t)
      BY <1>0, ReturnStay DEF Spawning
    <3>3. pending' = t /\ Goto(t, "await") /\ handle' = handle
      BY <2>4, <3>1, <3>2 DEF SpawnStart
    <3>4. OthersStay(t) /\ task'[t].pc = "await"
      BY <1>0, <3>3, GotoStay
    <3> QED BY <2>0, <2>2, <3>3, <3>4 DEF OthersStay, Spawning
  <2>5. ASSUME NEW u \in Tasks, SpawnTimeout(u) PROVE Goal
    <3>1. u = t
      BY <2>0, <2>5 DEF SpawnTimeout, At, Spawning
    <3> QED BY <1>0, <2>5, <3>1, ReturnStay DEF SpawnTimeout, Spawning
  <2>6. ASSUME NEW u \in Tasks,
               SpawnClient(u) \/ OpenAlloc(u) \/ WorkerInsert(u) \/ WorkerUpsert(u) \/ WorkerClose(u)
        PROVE  Goal
    BY <2>0, <2>6 DEF SpawnClient, OpenAlloc, WorkerInsert, WorkerUpsert, WorkerClose, At
  <2>7. ASSUME NEW u \in Tasks, Resolve(u) PROVE Goal
    <3>1. u # t /\ UNCHANGED <<handle, pending, joining>>
      BY <1>3, <2>7 DEF Resolve, At, Spawning
    <3>2. OthersStay(u) /\ task'[u].pc \in {"idle", "track"}
      BY <1>0, <2>7, ReturnStay, GotoStay DEF Resolve
    <3> QED BY <2>b, <3>1, <3>2
  <2>8. ASSUME NEW h \in Shells,
               ReaderEof(h) \/ CloseDelete(h) \/ PaneClosed(h) \/ NotifyFails(h) \/ CloseCheck(h)
        PROVE  Goal
    BY <2>a, <2>8 DEF ReaderEof, CloseDelete, PaneClosed, NotifyFails, CloseCheck
  <2>9. ASSUME NEW w \in Workers, Recover(w) \/ Exit(w) \/ Crash(w) \/ Reap(w) PROVE Goal
    BY <2>a, <2>9 DEF Recover, Exit, Crash, End, Reap
  <2>10. ASSUME NEW w \in Workers, Connect(w) PROVE Goal
    <3>1. proc[w] = "bound" /\ UNCHANGED <<handle, pending, task>>
      BY <2>10 DEF Connect
    <3>2. task[t].pc # "start"
      BY <3>1 DEF Before, Workplace, OneSpawn, At, Born
    <3> QED BY <1>3, <2>0, <2>2, <3>1, <3>2 DEF Spawning
  <2>11. ASSUME NEW w \in Workers, Register(w) PROVE Goal
    <3>1. task[t].pc = "await" /\ pending = t
      BY <1>3, <2>0, <2>11 DEF Register, Spawning
    <3>2. CASE UNCHANGED <<handle, task, pending>>
      BY <2>0, <2>2, <3>1, <3>2 DEF Spawning
    <3>3. CASE task' = [u \in Tasks |-> IF u = pending THEN [task[u] EXCEPT !.pc = "client"]
                                        ELSE task[u]]
      <4>1. task[t] \in TaskStates /\ task'[t] = [task[t] EXCEPT !.pc = "client"]
        BY <1>0, <3>1, <3>3 DEF TypeOK
      <4>2. task'[t].pc = "client"
        BY <4>1 DEF TaskStates
      <4> QED BY <4>2 DEF Spawning
    <3> QED BY <2>11, <3>2, <3>3 DEF Register
  <2>12. CASE ReapFind \/ ReapCount \/ HeartbeatTimeout \/ UNCHANGED vars
    BY <2>a, <2>12 DEF ReapFind, ReapCount, HeartbeatTimeout, vars
  <2> HIDE DEF Goal
  <2> QED BY <2>1, <2>3, <2>4, <2>5, <2>6, <2>7, <2>8, <2>9, <2>10, <2>11, <2>12 DEF Remaining
<1> QED BY <1>1, <1>2, <1>3

\* PaneIds: one is new with the slot of an open, one goes with pane_closed.
LEMMA IndexFate ==
  ASSUME Before, Remaining, NEW p \in Panes
  PROVE  /\ index'[p] # None => \/ index'[p] = index[p]
                                \/ \E t \in Tasks : Opening(t)' /\ task'[t].slot = index'[p]
         /\ index[p] # None => index'[p] = index[p] \/ \E h \in Shells : PaneClosed(h)
<1> USE DEF sup, wrk, past
<1>0. TypeOK /\ IndexInv
  BY DEF Before
<1> DEFINE Goal ==
      /\ index'[p] # None => \/ index'[p] = index[p]
                             \/ \E t \in Tasks : Opening(t)' /\ task'[t].slot = index'[p]
      /\ index[p] # None => index'[p] = index[p] \/ \E h \in Shells : PaneClosed(h)
<1> SUFFICES Goal
  OBVIOUS
<1>a. ASSUME index' = index PROVE Goal
  BY <1>a
<1>b. ASSUME AllocPane, NEW t \in Tasks, Opening(t)', task'[t].slot = next PROVE Goal
  <2>1. /\ index \in [Panes -> Slots \cup {None}] /\ drawn \in Nat /\ p \in Nat
        /\ index' = [index EXCEPT ![drawn + 1] = next]
    BY <1>0, <1>b, TaskFields DEF TypeOK, AllocPane
  <2>2. p = drawn + 1 => index[p] = None
    BY <1>0, <2>1 DEF IndexInv
  <2> QED BY <1>b, <2>1, <2>2
<1>1. ASSUME NEW t \in Tasks, Spawn(t) PROVE Goal
  <2>1. AllocPane /\ Call(t, "spawn", [Idle EXCEPT !.pc = "start", !.slot = next])
    BY <1>1 DEF Spawn
  <2>2. task'[t] = [Idle EXCEPT !.pc = "start", !.slot = next]
    BY <1>0, <2>1, CallEffect
  <2>3. Opening(t)' /\ task'[t].slot = next
    BY <2>2 DEF Idle, Opening
  <2> QED BY <1>b, <2>1, <2>3
<1>2. ASSUME NEW t \in Tasks, OpenAlloc(t) PROVE Goal
  <2>1. AllocPane /\ task'[t].pc = "open" /\ task'[t].slot = next
    BY <1>0, <1>2 DEF OpenAlloc, TypeOK, TaskStates
  <2> QED BY <1>b, <2>1 DEF Opening
<1>3. ASSUME NEW h \in Shells, PaneClosed(h) PROVE Goal
  BY <1>3 DEF PaneClosed, WithoutSlot
<1>4. ASSUME NEW t \in Tasks,
             \/ (Request(t) /\ ~Spawn(t)) \/ SpawnStart(t) \/ SpawnTimeout(t) \/ SpawnClient(t)
             \/ WorkerOpen(t) \/ WorkerInsert(t) \/ WorkerUpsert(t) \/ WorkerClose(t) \/ Resolve(t)
      PROVE  index' = index
  BY <1>4 DEF Request, OpenPane, ClosePane, Kill, GcStaleSessions, ListAllPanes, Report, SpawnStart,
     SpawnTimeout, SpawnClient, WorkerOpen, WorkerInsert, WorkerUpsert, WorkerClose, Resolve
<1>5. ASSUME NEW h \in Shells, ReaderEof(h) \/ CloseDelete(h) \/ NotifyFails(h) \/ CloseCheck(h)
      PROVE  index' = index
  BY <1>5 DEF ReaderEof, CloseDelete, NotifyFails, CloseCheck
<1>6. ASSUME NEW w \in Workers, \/ Recover(w) \/ Connect(w) \/ Register(w) \/ Exit(w) \/ Crash(w)
                                \/ Reap(w)
      PROVE  index' = index
  BY <1>6 DEF Recover, Connect, Register, Exit, Crash, End, Reap
<1>7. CASE ReapFind \/ ReapCount \/ HeartbeatTimeout \/ UNCHANGED vars
  BY <1>a, <1>7 DEF ReapFind, ReapCount, HeartbeatTimeout, vars
<1> HIDE DEF Goal
<1> QED BY <1>a, <1>1, <1>2, <1>3, <1>4, <1>5, <1>6, <1>7 DEF Remaining

\* A worker that was started and runs on is alive, and linked.
LEMMA InsertAlive ==
  ASSUME Before, Named, Running
  PROVE  /\ \A h \in Shells : UsedShell(h) => Alive(shell[h].w) /\ shell[h].w \in linked
         /\ \A t \in Tasks : WorkerInsert(t) => Alive(task[t].w) /\ task[t].h \in Shells
<1>0. TypeOK
  BY DEF Before
<1>1. ASSUME NEW h \in Shells, UsedShell(h) PROVE Alive(shell[h].w) /\ shell[h].w \in linked
  <2>1. shell[h].w \in Workers
    BY <1>0, <1>1, TaskFields DEF UsedShell
  <2> QED BY <1>0, <1>1, <2>1 DEF Named, Born, Running, Alive, TypeOK
<1>2. ASSUME NEW t \in Tasks, WorkerInsert(t) PROVE Alive(task[t].w) /\ task[t].h \in Shells
  <2>1. /\ task[t].h \in Shells /\ UsedShell(task[t].h) /\ shell[task[t].h].w = task[t].w
    BY <1>2 DEF Before, PaneMap, OpensKnow, Opened, WorkerInsert, At
  <2> QED BY <1>1, <2>1
<1> QED BY <1>1, <1>2

\* Shells of a worker that runs: one stands for its PaneId until pane_closed is
\* served, and no notification fails.
LEMMA ShellFate ==
  ASSUME Before, Named, ForkedInserts, Remaining, Running', NEW g \in Shells
  PROVE  /\ Stands(g) => Stands(g)' \/ PaneClosed(g)
         /\ shell[g].pc = "evict_index" => shell'[g].pc = "evict_index"
         /\ shell'[g].pc = "check" => shell[g].pc = "check" \/ PaneClosed(g)
         /\ shell'[g].pc = "forked" => shell[g].pc = "forked" \/ \E t \in Tasks : WorkerOpen(t)
         /\ shell[g].pc = "forked" =>
              shell'[g].pc = "forked" \/ \E t \in Tasks : WorkerInsert(t) /\ task[t].h = g
<1> USE DEF sup, wrk, past
<1>0. TypeOK /\ PaneMap /\ Running
  BY BornFate DEF Before
<1> DEFINE Goal ==
      /\ Stands(g) => Stands(g)' \/ PaneClosed(g)
      /\ shell[g].pc = "evict_index" => shell'[g].pc = "evict_index"
      /\ shell'[g].pc = "check" => shell[g].pc = "check" \/ PaneClosed(g)
      /\ shell'[g].pc = "forked" => shell[g].pc = "forked" \/ \E t \in Tasks : WorkerOpen(t)
      /\ shell[g].pc = "forked" =>
           shell'[g].pc = "forked" \/ \E t \in Tasks : WorkerInsert(t) /\ task[t].h = g
<1> SUFFICES Goal
  OBVIOUS
<1>a. ASSUME shell'[g].pc = shell[g].pc PROVE Goal
  BY <1>a DEF Stands
<1>b. ASSUME NEW w, NEW i, ShellsRemoved(w, i) PROVE Goal
  <2>1. shell'[g].pc = IF g \in InSlot(w, i) THEN "delete" ELSE shell[g].pc
    BY <1>b DEF ShellsRemoved
  <2>2. g \in InSlot(w, i) => shell[g].pc = "mapped"
    BY DEF InSlot, Mapped
  <2>3. CASE g \in InSlot(w, i)
    BY <2>1, <2>2, <2>3 DEF Stands
  <2> QED BY <1>a, <2>1, <2>3
<1>c. ASSUME NEW h \in Shells, NEW pc, shell' = [shell EXCEPT ![h].pc = pc]
      PROVE  (g # h /\ shell'[g].pc = shell[g].pc) \/ (g = h /\ shell'[g].pc = pc)
  <2>1. ShellTo(h, pc)
    BY <1>0, <1>c, ShellEffect
  <2> QED BY <2>1 DEF ShellTo
<1>1. ASSUME NEW t \in Tasks, WorkerInsert(t) PROVE Goal
  <2>1. Alive(task[t].w) /\ task[t].h \in Shells /\ UsedShell(task[t].h)
    BY <1>0, <1>1, InsertAlive DEF PaneMap, OpensKnow, Opened, WorkerInsert, At
  <2>2. shell'[g].pc = IF g = task[t].h THEN "mapped"
                       ELSE IF g \in InSlot(task[t].w, task[t].slot) THEN "dropped" ELSE shell[g].pc
    BY <1>0, <1>1, <2>1, InsertEffect
  <2>3. CASE g = task[t].h
    <3>1. shell[g].pc = "forked"
      BY <1>0, <1>1, <2>3 DEF ForkedInserts, WorkerInsert, At
    <3> QED BY <1>1, <2>2, <2>3, <3>1 DEF Stands
  <2>4. CASE g # task[t].h
    <3>1. shell[task[t].h].slot = task[t].slot
      BY <1>0, <1>1 DEF PaneMap, OpensKnow, Opened, WorkerInsert, At
    <3>2. ASSUME g \in InSlot(task[t].w, task[t].slot) PROVE FALSE
      <4>1. shell[g].pc = "mapped" /\ shell[g].slot = task[t].slot
        BY <3>2 DEF InSlot, Mapped
      <4>2. UsedShell(g)
        BY <1>0, <4>1 DEF PaneMap, ShellsInOrder
      <4> QED BY <1>0, <2>1, <2>4, <3>1, <4>1, <4>2 DEF PaneMap, OneShellPerSlot
    <3> QED BY <1>a, <2>2, <2>4, <3>2
  <2> QED BY <2>3, <2>4
<1>2. ASSUME NEW t \in Tasks, WorkerOpen(t) PROVE Goal
  <2>1. shell'[g].pc = shell[g].pc \/ (shell[g].pc = "none" /\ shell'[g].pc = "forked")
    <3>1. CASE shell' = shell
      BY <3>1
    <3>2. ASSUME NEW h \in Shells, \A k \in Shells : shell[k].pc # "none" <=> k < h,
                 \A k \in Shells : k # h => shell'[k] = shell[k], shell'[h].pc = "forked"
          PROVE  shell'[g].pc = shell[g].pc \/ (shell[g].pc = "none" /\ shell'[g].pc = "forked")
      <4>1. ~(h < h)
        BY <1>0, TaskFields
      <4> QED BY <3>2, <4>1
    <3> QED BY <1>0, <1>2, <3>1, <3>2, OpenEffect DEF PaneMap
  <2> QED BY <1>2, <1>a, <2>1 DEF Stands
<1>3. ASSUME NEW t \in Tasks, WorkerClose(t) PROVE Goal
  BY <1>0, <1>3, <1>a, <1>b, CloseEffect DEF WorkerClose
<1>4. ASSUME NEW h \in Shells, ReaderEof(h) PROVE Goal
  BY <1>0, <1>4, <1>b, EofEffect
<1>5. ASSUME NEW h \in Shells, CloseDelete(h) PROVE Goal
  <2>1. shell[h].pc = "delete" /\ ((g # h /\ shell'[g].pc = shell[g].pc) \/ (g = h /\ shell'[g].pc = "notify"))
    BY <1>5, <1>c DEF CloseDelete
  <2> QED BY <1>a, <2>1 DEF Stands
<1>6. ASSUME NEW h \in Shells, PaneClosed(h) PROVE Goal
  <2>1. /\ shell[h].pc = "notify"
        /\ \E pc \in {"evict_index", "check"} :
             (g # h /\ shell'[g].pc = shell[g].pc) \/ (g = h /\ shell'[g].pc = pc)
    BY <1>6, <1>c DEF PaneClosed
  <2> QED BY <1>6, <1>a, <2>1 DEF Stands
<1>7. ASSUME NEW h \in Shells, NotifyFails(h) PROVE FALSE
  <2>1. UsedShell(h)
    BY <1>0, <1>7 DEF NotifyFails, Notifying, PaneMap, ShellsInOrder
  <2> QED BY <1>0, <1>7, <2>1, InsertAlive DEF NotifyFails
<1>8. ASSUME NEW h \in Shells, CloseCheck(h) PROVE Goal
  <2>1. shell[h].pc = "check" /\ ((g # h /\ shell'[g].pc = shell[g].pc) \/ (g = h /\ shell'[g].pc = "done"))
    BY <1>8, <1>c DEF CloseCheck
  <2> QED BY <1>a, <2>1 DEF Stands
<1>9. ASSUME NEW w \in Workers, Exit(w) \/ Crash(w) PROVE FALSE
  <2>1. proc' = [proc EXCEPT ![w] = "exited"]
    BY <1>9 DEF Exit, Crash, End
  <2> QED BY <1>0, <2>1 DEF Running, TypeOK
<1>10. ASSUME NEW w \in Workers, Recover(w) PROVE Goal
  BY <1>0, <1>10, <1>a, RecoverNothing DEF Before, Workplace
<1>11. ASSUME NEW t \in Tasks, \/ Request(t) \/ SpawnStart(t) \/ SpawnTimeout(t) \/ SpawnClient(t)
                               \/ OpenAlloc(t) \/ WorkerUpsert(t) \/ Resolve(t)
       PROVE  Goal
  BY <1>a, <1>11 DEF Request, Spawn, OpenPane, ClosePane, Kill, GcStaleSessions, ListAllPanes,
     Report, SpawnStart, SpawnTimeout, SpawnClient, OpenAlloc, WorkerUpsert, Resolve
<1>12. ASSUME NEW w \in Workers, Connect(w) \/ Register(w) \/ Reap(w) PROVE Goal
  BY <1>a, <1>12 DEF Connect, Register, Reap
<1>13. CASE ReapFind \/ ReapCount \/ HeartbeatTimeout \/ UNCHANGED vars
  BY <1>a, <1>13 DEF ReapFind, ReapCount, HeartbeatTimeout, vars
<1> HIDE DEF Goal
<1> QED BY <1>1, <1>2, <1>3, <1>4, <1>5, <1>6, <1>7, <1>8, <1>9, <1>10, <1>11, <1>12, <1>13 DEF Remaining

LEMMA UsedStays ==
  ASSUME TypeOK, PaneMap, NEW t \in Tasks, WorkerOpen(t), NEW g \in Shells, shell[g].pc # "none"
  PROVE  shell'[g] = shell[g]
<1>1. CASE shell' = shell
  BY <1>1
<1>2. ASSUME NEW h \in Shells, \A k \in Shells : shell[k].pc # "none" <=> k < h,
             \A k \in Shells : k # h => shell'[k] = shell[k]
      PROVE  shell'[g] = shell[g]
  <2>1. ~(h < h)
    BY TaskFields
  <2> QED BY <1>2, <2>1
<1> QED BY <1>1, <1>2, OpenEffect DEF PaneMap

\* pane_closed leaves a pane behind, or begins the eviction.
LEMMA ClosedLast ==
  ASSUME TypeOK, NEW h \in Shells, PaneClosed(h)
  PROVE  (\E p \in Panes : index'[p] # None) \/ (\E g \in Shells : shell'[g].pc = "evict_index")
<1>1. CASE \E p \in Panes : WithoutSlot(shell[h].slot)[p] # None
  BY <1>1 DEF PaneClosed
<1>2. CASE \A p \in Panes : WithoutSlot(shell[h].slot)[p] = None
  <2>1. shell' = [shell EXCEPT ![h].pc = "evict_index"]
    BY <1>2 DEF PaneClosed
  <2>2. ShellTo(h, "evict_index")
    BY <2>1, ShellEffect
  <2> QED BY <2>2 DEF ShellTo
<1> QED BY <1>1, <1>2

LEMMA PaneIdsStandStep ==
  ASSUME Before, Named, ForkedInserts, PaneIdsStand, Remaining, [Next]_vars, Untouched'
  PROVE  PaneIdsStand'
<1> SUFFICES ASSUME Running', "leaked" \notin hist', NEW p \in Panes, index'[p] # None
             PROVE  \/ \E t \in Tasks : Opening(t)' /\ task'[t].slot = index'[p]
                    \/ \E h \in Shells : UsedShell(h)' /\ shell'[h].slot = index'[p] /\ Stands(h)'
  BY DEF PaneIdsStand
<1> DEFINE Goal == \/ \E t \in Tasks : Opening(t)' /\ task'[t].slot = index'[p]
                   \/ \E h \in Shells : UsedShell(h)' /\ shell'[h].slot = index'[p] /\ Stands(h)'
<1>1. CASE \E t \in Tasks : Opening(t)' /\ task'[t].slot = index'[p]
  BY <1>1
<1>2. CASE index'[p] = index[p]
  <2>1. Running /\ "leaked" \notin hist
    BY BornFate
  <2>2. \/ \E t \in Tasks : Opening(t) /\ task[t].slot = index[p]
        \/ \E h \in Shells : UsedShell(h) /\ shell[h].slot = index[p] /\ Stands(h)
    BY <1>2, <2>1 DEF PaneIdsStand
  <2>3. ASSUME NEW t \in Tasks, Opening(t), task[t].slot = index[p] PROVE Goal
    <3>1. CASE WorkerOpen(t)
      <4>1. PICK h \in Shells : /\ shell'[h].w = task[t].w /\ shell'[h].slot = task[t].slot
                                /\ shell'[h].pc = "forked"
        BY <3>1, OpenEffect DEF Before, PaneMap
      <4>2. task[t].w # None
        BY <3>1 DEF WorkerOpen, At, Before, PaneMap, OpensKnow
      <4> QED BY <1>2, <2>3, <4>1, <4>2 DEF UsedShell, Stands
    <3>2. CASE ~WorkerOpen(t)
      BY <1>2, <2>3, <3>2, TaskFate
    <3> QED BY <3>1, <3>2
  <2>4. ASSUME NEW h \in Shells, UsedShell(h), shell[h].slot = index[p], Stands(h) PROVE Goal
    <3>1. ~PaneClosed(h)
      BY <1>2, <2>4 DEF PaneClosed, WithoutSlot
    <3>2. Stands(h)'
      BY <2>4, <3>1, ShellFate
    <3>3. shell'[h].w = shell[h].w /\ shell'[h].slot = shell[h].slot
      <4>1. CASE \A t \in Tasks : ~WorkerOpen(t)
        BY <4>1, ShellsStay DEF ShellsKept, Before
      <4>2. ASSUME NEW t \in Tasks, WorkerOpen(t) PROVE shell'[h] = shell[h]
        <5>1. shell[h].pc # "none"
          BY <2>4 DEF Stands
        <5> QED BY <4>2, <5>1, UsedStays DEF Before
      <4> QED BY <4>1, <4>2
    <3> QED BY <1>2, <2>4, <3>2, <3>3 DEF UsedShell
  <2> QED BY <2>2, <2>3, <2>4
<1> QED BY <1>1, <1>2, IndexFate

LEMMA ForkedInsertsStep ==
  ASSUME Before, Named, ForkedInserts, Remaining
  PROVE  ForkedInserts'
<1> SUFFICES ASSUME Running'
             PROVE  /\ \A h \in Shells : shell'[h].pc = "forked" =>
                         \E t \in Tasks : task'[t].pc = "insert" /\ task'[t].h = h
                    /\ \A t \in Tasks : task'[t].pc = "insert" => shell'[task'[t].h].pc = "forked"
                    /\ \A t, u \in Tasks : /\ task'[t].pc = "insert" /\ task'[u].pc = "insert"
                                           /\ task'[t].h = task'[u].h
                                           => t = u
  BY DEF ForkedInserts, At
<1>0. TypeOK /\ Running /\ PaneMap
  BY BornFate DEF Before
<1>1. /\ \A h \in Shells : shell[h].pc = "forked" =>
           \E t \in Tasks : task[t].pc = "insert" /\ task[t].h = h
      /\ \A t \in Tasks : task[t].pc = "insert" => shell[task[t].h].pc = "forked" /\ task[t].h \in Shells
      /\ \A t, u \in Tasks : /\ task[t].pc = "insert" /\ task[u].pc = "insert"
                             /\ task[t].h = task[u].h
                             => t = u
  BY <1>0 DEF ForkedInserts, At, PaneMap, OpensKnow, Opened
<1>2. ASSUME NEW t \in Tasks, WorkerOpen(t), task'[t].pc = "insert"
      PROVE  /\ task'[t].h \in Shells /\ shell'[task'[t].h].pc = "forked"
             /\ shell[task'[t].h].pc = "none"
             /\ \A u \in Tasks : u # t => task'[u] = task[u]
             /\ \A g \in Shells : g # task'[t].h => shell'[g] = shell[g]
  <2>1. ~Return(t)
    BY <1>0, <1>2, ReturnStay
  <2>2. PICK h \in Shells :
              /\ \A g \in Shells : shell[g].pc # "none" <=> g < h
              /\ \A g \in Shells : g # h => shell'[g] = shell[g]
              /\ shell'[h].pc = "forked"
              /\ OthersStay(t) /\ task'[t].h = h
    BY <1>0, <1>2, <2>1, OpenEffect DEF PaneMap
  <2>3. ~(h < h)
    BY <1>0, TaskFields
  <2> QED BY <2>2, <2>3 DEF OthersStay
<1>3. ASSUME NEW h \in Shells, shell'[h].pc = "forked"
      PROVE  \E t \in Tasks : task'[t].pc = "insert" /\ task'[t].h = h
  <2>1. CASE shell[h].pc = "forked"
    <3>1. PICK t \in Tasks : task[t].pc = "insert" /\ task[t].h = h
      BY <1>1, <2>1
    <3>2. ~WorkerInsert(t)
      <4> SUFFICES ASSUME WorkerInsert(t) PROVE FALSE
        OBVIOUS
      <4>1. Alive(task[t].w)
        BY <1>0, InsertAlive
      <4>2. shell'[h].pc = "mapped"
        BY <1>0, <3>1, <4>1, InsertEffect
      <4> QED BY <1>3, <4>2
    <3>3. task'[t] = task[t]
      BY <3>1, <3>2, TaskFate DEF At
    <3> QED BY <3>1, <3>3
  <2>2. CASE shell[h].pc # "forked"
    <3>1. PICK t \in Tasks : WorkerOpen(t)
      BY <1>3, <2>2, ShellFate
    <3>2. CASE Return(t) /\ shell' = shell
      BY <1>3, <2>2, <3>2
    <3>3. CASE task'[t].pc = "insert"
      BY <1>2, <1>3, <2>2, <3>1, <3>3
    <3> QED BY <1>0, <3>1, <3>2, <3>3, OpenEffect DEF PaneMap
  <2> QED BY <2>1, <2>2
<1>4. ASSUME NEW t \in Tasks, task'[t].pc = "insert" PROVE shell'[task'[t].h].pc = "forked"
  <2>1. CASE WorkerOpen(t)
    BY <1>2, <1>4, <2>1
  <2>2. CASE ~WorkerOpen(t)
    <3>1. task'[t] = task[t]
      BY <1>4, <2>2, TaskFate DEF At
    <3>2. shell[task[t].h].pc = "forked" /\ task[t].h \in Shells
      BY <1>1, <1>4, <3>1
    <3>3. ASSUME NEW u \in Tasks, WorkerInsert(u), task[u].h = task[t].h PROVE FALSE
      <4>1. u = t
        BY <1>1, <1>4, <3>1, <3>3 DEF WorkerInsert, At
      <4>2. task'[t].pc \in {"idle", "upsert"}
        BY <1>0, <3>3, <4>1, GotoStay, ReturnStay DEF WorkerInsert
      <4> QED BY <1>4, <4>2
    <3> QED BY <3>1, <3>2, <3>3, ShellFate
  <2> QED BY <2>1, <2>2
<1>5. ASSUME NEW t \in Tasks, NEW u \in Tasks, task'[t].pc = "insert", task'[u].pc = "insert",
             task'[t].h = task'[u].h
      PROVE  t = u
  <2>1. ASSUME NEW x \in Tasks, NEW y \in Tasks, x # y, WorkerOpen(x), task'[x].pc = "insert",
               task'[y].pc = "insert", task'[x].h = task'[y].h
        PROVE  FALSE
    <3>1. task'[y] = task[y] /\ shell[task'[x].h].pc = "none"
      BY <1>2, <2>1
    <3> QED BY <1>1, <2>1, <3>1
  <2>2. CASE ~WorkerOpen(t) /\ ~WorkerOpen(u)
    BY <1>1, <1>5, <2>2, TaskFate DEF At
  <2> QED BY <1>5, <2>1, <2>2
<1> QED BY <1>3, <1>4, <1>5

\* While its worker runs on, a session that has a pane or is being evicted keeps to it.
LEMMA PaneOrEviction ==
  ASSUME Before, Named, ForkedInserts, Remaining, Running', SomePane \/ Evicting
  PROVE  SomePane' \/ Evicting'
<1>1. CASE Evicting
  BY <1>1, ShellFate DEF Evicting
<1>2. CASE SomePane
  <2>1. PICK p \in Panes : index[p] # None
    BY <1>2 DEF SomePane
  <2>2. CASE index'[p] = index[p]
    BY <2>1, <2>2 DEF SomePane
  <2>3. ASSUME NEW h \in Shells, PaneClosed(h) PROVE SomePane' \/ Evicting'
    BY <2>3, ClosedLast DEF Before, SomePane, Evicting
  <2> QED BY <2>1, <2>2, <2>3, IndexFate
<1> QED BY <1>1, <1>2

LEMMA FlagsToldStep ==
  ASSUME Before, Named, ForkedInserts, FlagsTold, NoKill, Remaining, [Next]_vars, Untouched', OneSpawn'
  PROVE  FlagsTold'
<1> USE DEF sup, wrk, past
<1>0. TypeOK /\ PaneMap /\ OneSpawn /\ NoRespawn
  BY DEF Before, Workplace
<1>a. ASSUME NEW w \in Workers, Alive(w) PROVE Running
  BY <1>0, <1>a DEF OneSpawn, Born, Alive, Running
<1>b. ASSUME NEW w \in Workers, Alive(w)' PROVE Running'
  BY <1>b DEF OneSpawn, Born, Alive, Running
<1>1. ASSUME NEW w \in Workers, flag'[w], ~flag[w]
      PROVE  \E h \in Shells : CloseCheck(h) /\ w = shell[h].w
  <2>1. CASE UNCHANGED flag
    BY <1>1, <2>1
  <2>2. ASSUME NEW v \in Workers, End(v) PROVE FALSE
    <3>1. flag \in [Workers -> BOOLEAN] /\ flag' = [flag EXCEPT ![v] = FALSE]
      BY <1>0, <2>2 DEF End, TypeOK
    <3> QED BY <1>1, <3>1
  <2>3. ASSUME NEW h \in Shells, CloseCheck(h) PROVE w = shell[h].w
    <3>1. flag \in [Workers -> BOOLEAN]
      BY <1>0 DEF TypeOK
    <3>2. flag' = [flag EXCEPT ![shell[h].w] = flag[shell[h].w] \/ Mapped(shell[h].w) = {}]
      BY <2>3 DEF CloseCheck
    <3>3. w # shell[h].w => flag'[w] = flag[w]
      BY <3>1, <3>2
    <3> QED BY <1>1, <3>3
  <2>4. UNCHANGED flag \/ (\E v \in Workers : End(v)) \/ \E h \in Shells : CloseCheck(h)
    BY DEF Remaining, Request, Spawn, OpenPane, ClosePane, Kill, GcStaleSessions, ListAllPanes,
       Report, SpawnStart, SpawnTimeout, SpawnClient, OpenAlloc, WorkerOpen, WorkerInsert,
       WorkerUpsert, WorkerClose, Resolve, ReaderEof, CloseDelete, PaneClosed, NotifyFails,
       Recover, Connect, Register, Exit, Crash, Reap, ReapFind, ReapCount, HeartbeatTimeout, vars
  <2> QED BY <2>1, <2>2, <2>3, <2>4
<1>2. ASSUME NEW w \in Workers, flag'[w]
      PROVE  Alive(w) /\ (\E h \in Shells : UsedShell(h)) /\ (SomePane \/ Evicting)
  <2>1. CASE flag[w]
    BY <2>1 DEF FlagsTold
  <2>2. CASE ~flag[w]
    <3>1. PICK h \in Shells : CloseCheck(h) /\ w = shell[h].w
      BY <1>1, <1>2, <2>2
    <3>2. Alive(w) /\ shell[h].pc = "check"
      BY <3>1 DEF CloseCheck
    <3>3. UsedShell(h)
      BY <1>0, <3>2 DEF PaneMap, ShellsInOrder
    <3>4. Running
      BY <1>a, <3>2
    <3> QED BY <3>2, <3>3, <3>4 DEF FlagsTold
  <2> QED BY <2>1, <2>2
<1>3. ASSUME NEW w \in Workers, flag'[w]
      PROVE  Alive(w)' /\ (\E h \in Shells : UsedShell(h)') /\ (SomePane' \/ Evicting')
  <2>1. ~Exit(w) /\ ~Crash(w)
    <3> SUFFICES ASSUME End(w) PROVE FALSE
      BY DEF Exit, Crash
    <3>1. flag \in [Workers -> BOOLEAN] /\ flag' = [flag EXCEPT ![w] = FALSE]
      BY <1>0 DEF End, TypeOK
    <3> QED BY <1>3, <3>1
  <2>2. Alive(w)'
    BY <1>0, <1>2, <1>3, <2>1, ProcsStay
  <2>3. PICK h \in Shells : UsedShell(h)
    BY <1>2, <1>3
  <2>4. UsedShell(h)'
    <3>1. CASE \A t \in Tasks : ~WorkerOpen(t)
      BY <2>3, <3>1, ShellsStay DEF ShellsKept, UsedShell, Before
    <3>2. ASSUME NEW t \in Tasks, WorkerOpen(t) PROVE shell'[h] = shell[h]
      <4>1. shell[h].pc # "none"
        BY <1>0, <2>3 DEF PaneMap, ShellsInOrder
      <4> QED BY <3>2, <4>1, UsedStays DEF Before
    <3> QED BY <2>3, <3>1, <3>2 DEF UsedShell
  <2>5. SomePane' \/ Evicting'
    BY <1>2, <1>3, <1>b, <2>2, PaneOrEviction
  <2> QED BY <2>2, <2>4, <2>5
<1>4. ASSUME NEW h \in Shells, Running', shell'[h].pc = "check" PROVE SomePane' \/ Evicting'
  <2>1. CASE shell[h].pc = "check"
    <3>1. Running
      BY <1>4, BornFate
    <3> QED BY <1>4, <2>1, <3>1, PaneOrEviction DEF FlagsTold
  <2>2. CASE PaneClosed(h)
    BY <2>2, ClosedLast DEF Before, SomePane, Evicting
  <2> QED BY <1>4, <2>1, <2>2, ShellFate
<1> QED BY <1>3, <1>4 DEF FlagsTold

LEMMA SettledLeakedStep ==
  ASSUME Before, EndState, Remaining
  PROVE  SettledLeaked'
<1> USE DEF sup, wrk, past
<1>0. TypeOK /\ PaneMap /\ OneSpawn
  BY DEF Before, Workplace
<1> SUFFICES ASSUME NEW w \in Workers, ended'[w] = "settled" PROVE "leaked" \in hist'
  BY DEF SettledLeaked
<1>1. CASE ended[w] = "settled"
  BY <1>1, BornFate DEF EndState, SettledLeaked
<1>2. CASE Exit(w) /\ Settled(w)
  <2> SUFFICES ASSUME "leaked" \notin hist PROVE FALSE
    BY BornFate
  <2>1. flag[w] /\ proc[w] = "up"
    BY <1>2 DEF Exit
  <2>2. Running
    BY <1>0, <2>1 DEF OneSpawn, Born, Running
  <2>3. (SomePane \/ Evicting) /\ \E h \in Shells : UsedShell(h)
    BY <2>1 DEF EndState, FlagsTold
  <2>4. ASSUME NEW h \in Shells, UsedShell(h) PROVE shell[h].w = w
    <3>1. shell[h].w \in Workers /\ Born(shell[h].w) /\ Born(w)
      BY <1>0, <2>1, <2>4, TaskFields DEF UsedShell, EndState, Named, Born
    <3> QED BY <1>0, <3>1 DEF OneSpawn
  <2>5. ASSUME NEW h \in Shells
        PROVE  shell[h].pc \notin {"mapped", "delete", "notify", "evict_index", "forked"}
    <3>1. shell[h].pc # "forked"
      BY <1>2, <2>2 DEF EndState, ForkedInserts, Settled, At
    <3>2. UsedShell(h) => h \notin Mapped(w) /\ h \notin Closing(w) /\ shell[h].w = w
      BY <1>2, <2>4 DEF Settled
    <3>3. shell[h].pc # "none" => UsedShell(h)
      BY <1>0 DEF PaneMap, ShellsInOrder
    <3> QED BY <3>1, <3>2, <3>3 DEF Mapped, Closing, ClosePcs
  <2>6. PICK p \in Panes : index[p] # None
    BY <2>3, <2>5 DEF SomePane, Evicting
  <2>7. CASE \E h \in Shells : Stands(h)
    BY <2>5, <2>7 DEF Stands
  <2>8. ASSUME NEW t \in Tasks, Opening(t) PROVE FALSE
    <3>1. Spawning(t)
      BY <1>2, <2>8 DEF Settled, Opening, Spawning
    <3> QED BY <2>3, <3>1 DEF EndState, SpawnFirst
  <2> QED BY <2>2, <2>6, <2>7, <2>8 DEF EndState, PaneIdsStand
<1>3. \/ ended' = ended
      \/ \E v \in Workers : (Exit(v) \/ Crash(v))
  BY DEF Remaining, Request, Spawn, OpenPane, ClosePane, Kill, GcStaleSessions, ListAllPanes,
     Report, SpawnStart, SpawnTimeout, SpawnClient, OpenAlloc, WorkerOpen, WorkerInsert,
     WorkerUpsert, WorkerClose, Resolve, ReaderEof, CloseDelete, PaneClosed, NotifyFails,
     CloseCheck, Recover, Connect, Register, Reap, ReapFind, ReapCount, HeartbeatTimeout, vars
<1>4. ASSUME NEW v \in Workers, Exit(v) \/ Crash(v), ended[w] # "settled" PROVE Exit(w) /\ Settled(w)
  <2>1. ended \in [Workers -> {"no", "settled", "busy", "crash"}]
    BY <1>0 DEF TypeOK
  <2>2. v = w /\ ~Crash(v)
    BY <1>4, <2>1 DEF Exit, Crash
  <2>3. Exit(w)
    BY <1>4, <2>2
  <2>4. ended'[w] = IF Settled(w) THEN "settled" ELSE "busy"
    BY <2>1, <2>3 DEF Exit
  <2> QED BY <2>3, <2>4
<1> QED BY <1>1, <1>2, <1>3, <1>4

LEMMA ReaperNamedStep ==
  ASSUME Before, ReaperNamed, Remaining
  PROVE  ReaperNamed'
<1> USE DEF sup, wrk, past
<1>1. bg \in [Background -> BgStates] /\ {"reaper", "monitor"} \subseteq Background
  BY DEF Before, TypeOK, Background
<1>2. bg["reaper"] \in BgStates
  BY <1>1
<1>3. ASSUME NEW w \in Workers, Reap(w) PROVE ReaperNamed'
  BY <1>1, <1>3 DEF Reap, Resting, ReaperNamed
<1>4. CASE ReapFind
  <2>1. bg["reaper"].w \in Workers
    BY <1>4 DEF ReapFind, ReaperNamed
  <2>2. bg'["reaper"] = Resting \/ bg'["reaper"] = [bg["reaper"] EXCEPT !.pc = "count"]
    BY <1>1, <1>4 DEF ReapFind
  <2>3. [bg["reaper"] EXCEPT !.pc = "count"].w = bg["reaper"].w /\ Resting.pc = "idle"
    BY <1>2 DEF BgStates, Resting
  <2> QED BY <2>1, <2>2, <2>3 DEF ReaperNamed
<1>5. CASE ReapCount
  <2>1. bg["reaper"].w \in Workers
    BY <1>5 DEF ReapCount, ReaperNamed
  <2>2. bg'["reaper"] = [bg["reaper"] EXCEPT !.pc = "rm_index", !.n = Count]
    BY <1>1, <1>5 DEF ReapCount
  <2>3. [bg["reaper"] EXCEPT !.pc = "rm_index", !.n = Count].w = bg["reaper"].w
    BY <1>2 DEF BgStates
  <2> QED BY <2>1, <2>2, <2>3 DEF ReaperNamed
<1>6. CASE HeartbeatTimeout
  BY <1>1, <1>6 DEF HeartbeatTimeout, ReaperNamed
<1>7. CASE bg' = bg
  BY <1>7 DEF ReaperNamed
<1>8. \/ bg' = bg \/ ReapFind \/ ReapCount \/ HeartbeatTimeout
      \/ \E w \in Workers : Reap(w)
  BY DEF Remaining, Request, Spawn, OpenPane, ClosePane, Kill, GcStaleSessions, ListAllPanes,
     Report, SpawnStart, SpawnTimeout, SpawnClient, OpenAlloc, WorkerOpen, WorkerInsert,
     WorkerUpsert, WorkerClose, Resolve, ReaderEof, CloseDelete, PaneClosed, NotifyFails,
     CloseCheck, Recover, Connect, Register, Exit, Crash, End, vars
<1> QED BY <1>3, <1>4, <1>5, <1>6, <1>7, <1>8

\* A worker that ended by itself, with nothing left open or closing, is not
\* respawned by the SIGCHLD handler: pane_closed has removed its session "before
\* the worker process actually exits", unless a spawn or an open that failed left
\* its slot in the index.
THEOREM CleanExit == Spec => []CleanExitNotRespawned
<1>1. Init => EndInv
  <2> SUFFICES ASSUME Init PROVE EndState
    BY DEF EndInv
  <2>1. \A h \in Shells : shell[h].w = None /\ shell[h].pc = "none"
    BY DEF Init, NoShell
  <2>2. \A t \in Tasks : task[t].pc = "idle"
    BY DEF Init, Idle
  <2>3. Named /\ NoKill
    BY <2>1, <2>2 DEF Init, Named, NoKill, Born, UsedShell, NoStop
  <2>4. SpawnFirst /\ PaneIdsStand /\ ForkedInserts
    BY <2>1, <2>2 DEF Init, SpawnFirst, PaneIdsStand, ForkedInserts, Spawning, At
  <2>5. FlagsTold /\ SettledLeaked
    BY <2>1 DEF Init, FlagsTold, SettledLeaked
  <2>6. ReaperNamed
    BY DEF Init, ReaperNamed, Resting, Background
  <2> QED BY <2>3, <2>4, <2>5, <2>6 DEF EndState
<1>2. TypeOK /\ SlotInv /\ PaneInv /\ PaneInv' /\ EndInv /\ [Next]_vars => EndInv'
  <2> SUFFICES ASSUME TypeOK, SlotInv, PaneInv, PaneInv', EndInv, [Next]_vars, Untouched'
               PROVE  EndState'
    BY DEF EndInv
  <2>1. Before /\ EndState /\ OneSpawn'
    BY UntouchedBefore DEF Before, SlotInv, PaneInv, EndInv, Workplace
  <2>2. Remaining
    BY <2>1, OnlyRemaining DEF EndState
  <2>3. Named' /\ NoKill' /\ SpawnFirst'
    BY <2>1, <2>2, NamedStep, NoKillStep, SpawnFirstStep DEF EndState
  <2>4. PaneIdsStand' /\ ForkedInserts'
    BY <2>1, <2>2, PaneIdsStandStep, ForkedInsertsStep DEF EndState
  <2>5. FlagsTold' /\ SettledLeaked'
    BY <2>1, <2>2, FlagsToldStep, SettledLeakedStep DEF EndState
  <2>6. ReaperNamed'
    BY <2>1, <2>2, ReaperNamedStep DEF EndState
  <2> QED BY <2>3, <2>4, <2>5, <2>6 DEF EndState
<1>3. TypeOK /\ PaneInv /\ EndInv => CleanExitNotRespawned
  <2> SUFFICES ASSUME TypeOK, PaneInv, EndInv, bg["reaper"].pc = "rm_index",
                      ended[bg["reaper"].w] = "settled", Untouched
               PROVE  "leaked" \in hist
    BY DEF CleanExitNotRespawned
  <2> QED BY DEF EndInv, EndState, SettledLeaked, ReaperNamed
<1>4. Spec => [](TypeOK /\ SlotInv /\ PaneInv)
  BY SlotInvariant, PaneInvariant, TypeCorrect, PTL
<1> QED BY <1>1, <1>2, <1>3, <1>4, PTL DEF Spec
=============================================================================
