------------------------------- MODULE Mirror -------------------------------
(***************************************************************************)
(* The mirror hubs of the supervisor: one connection to the worker for all *)
(* clients of a pane (PaneMirrorHub, PaneMirrorRegistry and                *)
(* proxy_stream_to_worker in supervisor.rs).                               *)
(*                                                                         *)
(* A hub bears the name of the client whose connection created it.  The    *)
(* frames of a hub are numbered as the worker writes them, its snapshot    *)
(* being the first; each counts as one unit of last_snapshot.  What the    *)
(* worker puts into the frames is the subject of Stream.                   *)
(***************************************************************************)
EXTENDS Naturals, Sequences

CONSTANTS
  Clients,
  SnapCap,     \* SNAPSHOT_CAP, in frames
  OutCap,      \* capacity of output_tx
  Loads,       \* scenarios: bounds on the frames of a hub and the keys of a client
  Nil

ASSUME MirrorCapAssumption == SnapCap \in Nat /\ OutCap \in Nat

VARIABLES
  load,        \* the scenario
  over,        \* the pane has ended, and with it the connections of its hubs
  reg,         \* the hub that the registry has for the pane
  hub,         \* every hub
  conn,        \* every client connection
  typed        \* the keys the shell was sent, in their order

mvars == <<load, over, reg, hub, conn, typed>>

NoHub  == [st |-> "none", kept |-> 0, sent |-> 0, keys |-> <<>>]
NoConn == [pc |-> "start", hub |-> Nil, pos |-> 0, lo |-> 1, hi |-> 0,
           got |-> {}, missed |-> FALSE, keys |-> 0]

At(c, p)   == conn[c].pc = p
Goto(c, p) == conn' = [conn EXCEPT ![c].pc = p]
Oldest(h)  == IF hub[h].kept > SnapCap THEN hub[h].kept - SnapCap + 1 ELSE 1

-----------------------------------------------------------------------------
(* proxy_stream_to_worker, up to the hub.  Every await is a step.          *)

\* lookup_pane and get_stream_sock find nothing once the pane is closed.
RefuseClient(c) ==
  /\ At(c, "start") /\ over
  /\ Goto(c, "gone")
  /\ UNCHANGED <<load, over, reg, hub, typed>>

\* mirror_registry.get.
GetHub(c) ==
  /\ At(c, "start")
  /\ conn' = [conn EXCEPT ![c].pc = IF reg = Nil THEN "connect" ELSE "subscribe",
                          ![c].hub = reg]
  /\ UNCHANGED <<load, over, reg, hub, typed>>

\* Connect to the worker and write the slot; either may fail.
ConnectWorker(c) ==
  /\ At(c, "connect")
  /\ \/ /\ hub' = [hub EXCEPT ![c].st = "open"]
        /\ Goto(c, "insert")
     \/ /\ Goto(c, "gone")
        /\ UNCHANGED hub
  /\ UNCHANGED <<load, over, reg, typed>>

\* Mutant: the hub's tasks are started before it is registered.
MutantInsertHub(c) ==
  /\ At(c, "insert")
  /\ \/ hub[c].st = "open" /\ hub' = [hub EXCEPT ![c].st = "running"] /\ UNCHANGED <<reg, conn>>
     \/ /\ hub[c].st # "open"
        /\ reg' = c
        /\ conn' = [conn EXCEPT ![c].pc = "subscribe", ![c].hub = c]
        /\ UNCHANGED hub
  /\ UNCHANGED <<load, over, typed>>

\* Register the hub, replacing one another client has registered meanwhile, and
\* start its tasks.
InsertHub(c) ==
  /\ At(c, "insert")
  /\ reg' = c
  /\ hub' = [hub EXCEPT ![c].st = "running"]
  /\ conn' = [conn EXCEPT ![c].pc = "subscribe", ![c].hub = c]
  /\ UNCHANGED <<load, over, typed>>

-----------------------------------------------------------------------------
(* The tasks of a hub *)

\* The reader task appends a frame of the worker to last_snapshot ...
Accumulate(h) ==
  /\ hub[h].st = "running"
  /\ hub[h].sent = hub[h].kept
  /\ hub[h].kept < load.frames
  /\ hub' = [hub EXCEPT ![h].kept = @ + 1]
  /\ UNCHANGED <<load, over, reg, conn, typed>>

\* ... and broadcasts it.
FanOut(h) ==
  /\ hub[h].st = "running"
  /\ hub[h].sent < hub[h].kept
  /\ hub' = [hub EXCEPT ![h].sent = hub[h].kept]
  /\ UNCHANGED <<load, over, reg, conn, typed>>

\* The worker has closed the connection, and its frames are read: the reader task removes the pane's
\* entry, whichever hub that is, and ends.
WorkerClosed(h) ==
  /\ over
  /\ hub[h].st = "running"
  /\ hub[h].sent = hub[h].kept
  /\ reg' = Nil
  /\ hub' = [hub EXCEPT ![h].st = "ended"]
  /\ UNCHANGED <<load, over, conn, typed>>

\* The input task writes the oldest key to the worker, until that fails.
DrainInput(h) ==
  /\ hub[h].keys # <<>>
  /\ typed' = IF over THEN typed ELSE Append(typed, Head(hub[h].keys))
  /\ hub' = [hub EXCEPT ![h].keys = IF over THEN <<>> ELSE Tail(@)]
  /\ UNCHANGED <<load, over, reg, conn>>

-----------------------------------------------------------------------------
(* proxy_stream_to_worker, after the hub *)

HubSubscribe(c) ==
  /\ At(c, "subscribe")
  /\ conn' = [conn EXCEPT ![c].pc = "snapshot", ![c].pos = hub[conn[c].hub].sent]
  /\ UNCHANGED <<load, over, reg, hub, typed>>

\* Mutant: the subscription follows the snapshot.
MutantSnapshot(c) ==
  /\ At(c, "snapshot")
  /\ LET h == conn[c].hub IN
     conn' = IF conn[c].got = {}
             THEN [conn EXCEPT ![c].lo = Oldest(h), ![c].hi = hub[h].kept,
                               ![c].got = Oldest(h) .. hub[h].kept]
             ELSE [conn EXCEPT ![c].pc = "live", ![c].pos = hub[h].sent]
  /\ UNCHANGED <<load, over, reg, hub, typed>>

\* last_snapshot, which the output task sends as the client's first frame.
HubSnapshot(c) ==
  /\ At(c, "snapshot")
  /\ LET h == conn[c].hub IN
     conn' = [conn EXCEPT ![c].pc = "live", ![c].lo = Oldest(h), ![c].hi = hub[h].kept,
                          ![c].got = Oldest(h) .. hub[h].kept]
  /\ UNCHANGED <<load, over, reg, hub, typed>>

\* The output task: one frame of the broadcast, or a gap that is only logged.
Forward(c) ==
  /\ At(c, "live")
  /\ LET sent == hub[conn[c].hub].sent IN
     \/ /\ conn[c].pos < sent /\ sent - conn[c].pos <= OutCap
        /\ conn' = [conn EXCEPT ![c].pos = @ + 1, ![c].got = @ \cup {conn[c].pos + 1}]
     \/ /\ sent - conn[c].pos > OutCap
        /\ conn' = [conn EXCEPT ![c].pos = sent - OutCap, ![c].missed = TRUE]
  /\ UNCHANGED <<load, over, reg, hub, typed>>

\* The input task of a client: its next key goes to the hub.
Type(c) ==
  /\ At(c, "live")
  /\ conn[c].keys < load.keys
  /\ conn' = [conn EXCEPT ![c].keys = @ + 1]
  /\ hub' = [hub EXCEPT ![conn[c].hub].keys = Append(@, <<c, conn[c].keys + 1>>)]
  /\ UNCHANGED <<load, over, reg, typed>>

\* The client leaves.  (The connection's task keeps the hub, and with it the
\* sender of the broadcast it receives from: its output task never sees the
\* channel closed and stays, as does one whose pane has ended.)
Leave(c) ==
  /\ At(c, "live")
  /\ conn' = [conn EXCEPT ![c] = [NoConn EXCEPT !.pc = "gone"]]
  /\ UNCHANGED <<load, over, reg, hub, typed>>

PaneEnds ==
  /\ ~over
  /\ over' = TRUE
  /\ UNCHANGED <<load, reg, hub, conn, typed>>

-----------------------------------------------------------------------------
MirrorInit ==
  /\ load \in Loads
  /\ over = FALSE
  /\ reg = Nil
  /\ hub = [h \in Clients |-> NoHub]
  /\ conn = [c \in Clients |-> NoConn]
  /\ typed = <<>>

HubStep(h)  == FanOut(h) \/ WorkerClosed(h) \/ DrainInput(h)
ConnStep(c) == GetHub(c) \/ ConnectWorker(c) \/ InsertHub(c) \/ HubSubscribe(c) \/ HubSnapshot(c) \/ Forward(c)
MirrorNext ==
  \/ \E c \in Clients : RefuseClient(c) \/ ConnStep(c) \/ Type(c) \/ Leave(c)
  \/ \E h \in Clients : Accumulate(h) \/ HubStep(h)
  \/ PaneEnds

MirrorSpec == MirrorInit /\ [][MirrorNext]_mvars

\* The supervisor's tasks run.
Fairness == WF_mvars(\E h \in Clients : HubStep(h)) /\ WF_mvars(\E c \in Clients : ConnStep(c))

-----------------------------------------------------------------------------
(* Properties *)

\* "Subscribe first (so we don't miss bytes), then read snapshot": whenever a
\* client attaches while frames come in, and however two hubs are created for
\* one pane, a client that has not lagged has got every frame of its hub from
\* the oldest of its snapshot on, or will.
MirrorNoGap ==
  \A c \in Clients : At(c, "live") /\ ~conn[c].missed =>
    \A n \in conn[c].lo .. hub[conn[c].hub].sent : n \in conn[c].got \/ n > conn[c].pos

\* "Remove the hub so the next client gets a fresh one": a hub whose worker
\* connection has closed does not stay in the registry, where later clients
\* would wait for output for ever.
DeadHubLeaves == []<>(reg # Nil => hub[reg].st # "ended")
=============================================================================
