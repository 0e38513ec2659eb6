----------------------------- MODULE Pane_proofs -----------------------------
(***************************************************************************)
(* Proofs about what becomes of the output of one pane: the stream that    *)
(* its connections read, the mirrors of a supervisor, the blocks that the  *)
(* shell's markers cut it into, the state that is told from it, and the    *)
(* buffer that keeps it for replay.                                        *)
(***************************************************************************)
EXTENDS Stream, Mirror, Blocks, PaneState, RingBuf, SequenceTheorems, WellFoundedInduction, TLAPS

-----------------------------------------------------------------------------
(* The output stream of a pane (Stream): for any number of connections
   and any capacity of the ring buffer and of the broadcast. *)

\* Where a connection can be.
Stages == {"start", "refused", "snapshot", "send_snapshot", "subscribe", "live",
               "done", "gone"}

\* The reader thread and the connections keep their types.
StreamTypeOK ==
  /\ owner \in {"single", "worker"}
  /\ pushed \in Nat /\ sent \in Nat
  /\ stage \in [Connections -> Stages]
  /\ pos \in [Connections -> Nat] /\ lo \in [Connections -> Nat] /\ hi \in [Connections -> Nat]
  /\ got \in [Connections -> SUBSET Nat]
  /\ missed \in [Connections -> Nat]

\* A chunk is in the ring buffer before it is broadcast, and no receiver is ahead
\* of the broadcast.
PushedBeforeSent == sent <= pushed
BehindBroadcast  == \A c \in Connections : pos[c] <= sent

\* Only the single daemon subscribes after the snapshot.  A worker's connection
\* subscribes first: its snapshot reaches at least as far as its receiver, and
\* what a receiver that has not lagged is past was delivered.
SnapshotCovers(c) == owner = "worker" /\ stage[c] = "send_snapshot" => pos[c] <= hi[c]
DeliveredUpToPos(c) ==
  owner = "worker" /\ stage[c] = "live" /\ missed[c] = 0 =>
    \A n \in Nat : lo[c] <= n /\ n <= pos[c] => n \in got[c]
SubscribesLate(c) == stage[c] = "subscribe" => owner = "single"
ReceiverOK(c) == SubscribesLate(c) /\ SnapshotCovers(c) /\ DeliveredUpToPos(c)

StreamInv ==
  StreamTypeOK /\ PushedBeforeSent /\ BehindBroadcast /\ \A c \in Connections : ReceiverOK(c)

\* The type invariant: lagging counts chunks up, never below zero.
LEMMA StreamType ==
  ASSUME StreamInv, [StreamNext]_svars
  PROVE  StreamTypeOK' /\ PushedBeforeSent' /\ BehindBroadcast'
<1> USE DEF StreamInv, StreamTypeOK, PushedBeforeSent, BehindBroadcast, pane, cvars
<1>1. CASE Pane
  BY <1>1 DEF Pane, ReaderPush, ReaderSend, ReaderEnd, CancelToken, Unlist
<1>2. ASSUME NEW c \in Connections, Connect(c) PROVE StreamTypeOK' /\ PushedBeforeSent' /\ BehindBroadcast'
  BY <1>2 DEF Connect, Stages
<1>3. ASSUME NEW c \in Connections, Refuse(c) \/ End(c) \/ Disconnect(c)
      PROVE  StreamTypeOK' /\ PushedBeforeSent' /\ BehindBroadcast'
  BY <1>3 DEF Refuse, End, Disconnect, Stages
<1>4. ASSUME NEW c \in Connections, Snapshot(c) PROVE StreamTypeOK' /\ PushedBeforeSent' /\ BehindBroadcast'
  <2>1. (IF pushed > RingCap THEN pushed - RingCap + 1 ELSE 1) \in Nat
    BY StreamCapAssumption
  <2> QED BY <1>4, <2>1 DEF Snapshot, Stages
<1>5. ASSUME NEW c \in Connections, SendSnapshot(c) PROVE StreamTypeOK' /\ PushedBeforeSent' /\ BehindBroadcast'
  <2>1. got[c] \cup (lo[c]..hi[c]) \in SUBSET Nat
    OBVIOUS
  <2>2. got' \in [Connections -> SUBSET Nat]
    BY <1>5, <2>1 DEF SendSnapshot
  <2> QED BY <1>5, <2>2 DEF SendSnapshot, Stages
<1>6. ASSUME NEW c \in Connections, Subscribe(c) PROVE StreamTypeOK' /\ PushedBeforeSent' /\ BehindBroadcast'
  BY <1>6 DEF Subscribe, Stages
<1>7. ASSUME NEW c \in Connections, Recv(c) PROVE StreamTypeOK' /\ PushedBeforeSent' /\ BehindBroadcast'
  <2>1. got[c] \cup {pos[c] + 1} \in SUBSET Nat
    OBVIOUS
  <2>2. got' \in [Connections -> SUBSET Nat]
    BY <1>7, <2>1 DEF Recv
  <2> QED BY <1>7, <2>2 DEF Recv
<1>8. ASSUME NEW c \in Connections, Lagged(c) PROVE StreamTypeOK' /\ PushedBeforeSent' /\ BehindBroadcast'
  <2>1. sent - BroadcastCap \in Nat /\ sent - BroadcastCap - pos[c] \in Nat /\ sent - BroadcastCap <= sent
    BY <1>8, StreamCapAssumption DEF Lagged, Lags
  <2> QED BY <1>8, <2>1 DEF Lagged
<1>9. CASE UNCHANGED svars
  BY <1>9 DEF svars
<1> QED BY <1>1, <1>2, <1>3, <1>4, <1>5, <1>6, <1>7, <1>8, <1>9 DEF StreamNext, Follow

\* Each connection stays in order, whichever connection or thread takes the step.
LEMMA StreamConn ==
  ASSUME StreamInv, [StreamNext]_svars, NEW d \in Connections
  PROVE  ReceiverOK(d)'
<1> USE DEF StreamInv, StreamTypeOK, ReceiverOK, SubscribesLate, SnapshotCovers, DeliveredUpToPos, pane, cvars
<1>1. CASE Pane
  BY <1>1 DEF Pane, ReaderPush, ReaderSend, ReaderEnd, CancelToken, Unlist
<1>2. ASSUME NEW c \in Connections, Connect(c) PROVE ReceiverOK(d)'
  BY <1>2 DEF Connect
<1>3. ASSUME NEW c \in Connections, Refuse(c) \/ End(c) \/ Disconnect(c) PROVE ReceiverOK(d)'
  BY <1>3 DEF Refuse, End, Disconnect
<1>4. ASSUME NEW c \in Connections, Snapshot(c) PROVE ReceiverOK(d)'
  BY <1>4 DEF Snapshot, PushedBeforeSent, BehindBroadcast
<1>5. ASSUME NEW c \in Connections, SendSnapshot(c) PROVE ReceiverOK(d)'
  BY <1>5 DEF SendSnapshot
<1>6. ASSUME NEW c \in Connections, Subscribe(c) PROVE ReceiverOK(d)'
  BY <1>6 DEF Subscribe
<1>7. ASSUME NEW c \in Connections, Recv(c) PROVE ReceiverOK(d)'
  BY <1>7 DEF Recv
<1>8. ASSUME NEW c \in Connections, Lagged(c) PROVE ReceiverOK(d)'
  BY <1>8, StreamCapAssumption DEF Lagged, Lags
<1>9. CASE UNCHANGED svars
  BY <1>9 DEF svars
<1> QED BY <1>1, <1>2, <1>3, <1>4, <1>5, <1>6, <1>7, <1>8, <1>9 DEF StreamNext, Follow

\* A worker's stream has no gap: with any number of connections attaching while
\* the reader thread pushes and broadcasts, a connection that has not lagged was
\* sent, or will be, every chunk from the oldest of its snapshot on.
THEOREM StreamComplete == StreamSpec => []NoGapInWorker
<1>1. StreamInit => StreamInv
  BY OwnerAssumption DEF StreamInit, StreamInv, StreamTypeOK, PushedBeforeSent, BehindBroadcast,
         ReceiverOK, SubscribesLate, SnapshotCovers, DeliveredUpToPos, Stages
<1>2. StreamInv /\ [StreamNext]_svars => StreamInv'
  BY StreamType, StreamConn DEF StreamInv
<1>3. StreamInv => NoGapInWorker
  BY DEF StreamInv, StreamTypeOK, ReceiverOK, DeliveredUpToPos, NoGapInWorker
<1> QED BY <1>1, <1>2, <1>3, PTL DEF StreamSpec

-----------------------------------------------------------------------------
(* The mirror hubs (Mirror): for any number of clients, any snapshot
   capacity and any capacity of the broadcast. *)

\* Where a connection of proxy_stream_to_worker can be.
ConnStates == {"start", "connect", "insert", "subscribe", "snapshot", "live", "gone"}

\* The hubs and the connections keep their types.
HubType  == [st : {"none", "open", "running", "ended"}, kept : Nat, sent : Nat,
             keys : Seq(Clients \X Nat)]
ConnType == [pc : ConnStates, hub : Clients \cup {Nil}, pos : Nat, lo : Nat, hi : Nat,
             got : SUBSET Nat, missed : BOOLEAN, keys : Nat]
MirrorTypeOK ==
  /\ reg \in Clients \cup {Nil}
  /\ hub \in [Clients -> HubType]
  /\ conn \in [Clients -> ConnType]

\* The reader task of a hub appends to last_snapshot before it broadcasts.
KeptBeforeSent == \A h \in Clients : hub[h].sent <= hub[h].kept

\* A connection that has its hub holds one that exists, its receiver is not ahead
\* of the broadcast, and what a receiver that has not lagged is past was
\* delivered, from the snapshot on.
ConnOK(c) ==
  /\ conn[c].pc \in {"subscribe", "snapshot", "live"} => conn[c].hub \in Clients
  /\ conn[c].pc \in {"snapshot", "live"} => conn[c].pos <= hub[conn[c].hub].sent
  /\ conn[c].pc = "live" /\ ~conn[c].missed =>
       \A n \in Nat : conn[c].lo <= n /\ n <= conn[c].pos => n \in conn[c].got

MirrorInv == MirrorTypeOK /\ KeptBeforeSent /\ \A c \in Clients : ConnOK(c)

\* The oldest frame of last_snapshot is a frame.
LEMMA OldestType ==
  ASSUME MirrorTypeOK, NEW h \in Clients
  PROVE  Oldest(h) \in Nat
BY MirrorCapAssumption DEF MirrorTypeOK, HubType, Oldest

\* A connection that takes no step stays in order while the broadcasts go on.
LEMMA ConnFrame ==
  ASSUME MirrorTypeOK, MirrorTypeOK', NEW d \in Clients, ConnOK(d),
         conn'[d] = conn[d], \A h \in Clients : hub[h].sent <= hub'[h].sent
  PROVE  ConnOK(d)'
<1>1. conn[d].hub \in Clients =>
        /\ hub[conn[d].hub].sent <= hub'[conn[d].hub].sent
        /\ hub[conn[d].hub].sent \in Nat /\ hub'[conn[d].hub].sent \in Nat
  BY DEF MirrorTypeOK, HubType
<1>2. conn[d].pos \in Nat
  BY DEF MirrorTypeOK, ConnType
<1> QED BY <1>1, <1>2 DEF ConnOK

\* A step of the connection of c alone.
LEMMA ConnStepOK ==
  ASSUME MirrorInv, MirrorTypeOK', NEW c \in Clients, NEW r,
         hub' = hub, conn' = [conn EXCEPT ![c] = r], ConnOK(c)'
  PROVE  MirrorInv'
<1>1. KeptBeforeSent'
  BY DEF MirrorInv, KeptBeforeSent
<1>2. ASSUME NEW d \in Clients PROVE ConnOK(d)'
  <2>1. CASE d = c
    BY <2>1
  <2>2. CASE d # c
    <3>1. conn'[d] = conn[d]
      BY <2>2 DEF MirrorInv, MirrorTypeOK
    <3>2. \A h \in Clients : hub[h].sent <= hub'[h].sent
      BY DEF MirrorInv, MirrorTypeOK, HubType
    <3> QED BY <3>1, <3>2, ConnFrame DEF MirrorInv
  <2> QED BY <2>1, <2>2
<1> QED BY <1>1, <1>2 DEF MirrorInv

\* A hub replaced by one that has kept and broadcast no less.
LEMMA HubUpdate ==
  ASSUME MirrorTypeOK, KeptBeforeSent, NEW h \in Clients, NEW q \in HubType,
         hub' = [hub EXCEPT ![h] = q], q.sent <= q.kept, hub[h].sent <= q.sent
  PROVE  /\ hub' \in [Clients -> HubType]
         /\ KeptBeforeSent'
         /\ \A g \in Clients : hub[g].sent <= hub'[g].sent
<1>1. hub' \in [Clients -> HubType]
  BY DEF MirrorTypeOK
<1>2. ASSUME NEW g \in Clients
      PROVE  hub'[g].sent <= hub'[g].kept /\ hub[g].sent <= hub'[g].sent
  <2>1. CASE g = h
    BY <2>1 DEF MirrorTypeOK
  <2>2. CASE g # h
    <3>1. hub'[g] = hub[g]
      BY <2>2 DEF MirrorTypeOK
    <3>2. hub[g].sent \in Nat
      BY DEF MirrorTypeOK, HubType
    <3> QED BY <3>1, <3>2 DEF KeptBeforeSent
  <2> QED BY <2>1, <2>2
<1> QED BY <1>1, <1>2 DEF KeptBeforeSent

\* A step of the tasks of a hub: the broadcast only grows.
LEMMA HubStepOK ==
  ASSUME MirrorInv, MirrorTypeOK', KeptBeforeSent', conn' = conn,
         \A h \in Clients : hub[h].sent <= hub'[h].sent
  PROVE  MirrorInv'
BY ConnFrame DEF MirrorInv

\* Each step of a client's connection, of a hub's tasks and of the pane keeps the
\* invariant.
LEMMA MirrorStep ==
  ASSUME MirrorInv, [MirrorNext]_mvars
  PROVE  MirrorInv'
<1>0. MirrorTypeOK /\ KeptBeforeSent /\ \A c \in Clients : ConnOK(c)
  BY DEF MirrorInv
<1> USE DEF MirrorTypeOK, HubType, ConnType, ConnStates, At, Goto
<1>1. ASSUME NEW c \in Clients, RefuseClient(c) PROVE MirrorInv'
  <2> DEFINE r == [conn[c] EXCEPT !.pc = "gone"]
  <2>1. conn' = [conn EXCEPT ![c] = r] /\ hub' = hub /\ reg' = reg
    BY <1>0, <1>1 DEF RefuseClient
  <2>2. r \in ConnType /\ r.pc = "gone"
    BY <1>0
  <2> HIDE DEF r
  <2>3. MirrorTypeOK'
    BY <1>0, <2>1, <2>2
  <2>4. ConnOK(c)'
    BY <1>0, <2>1, <2>2 DEF ConnOK
  <2> QED BY <2>1, <2>3, <2>4, ConnStepOK
<1>2. ASSUME NEW c \in Clients, GetHub(c) PROVE MirrorInv'
  <2> DEFINE r == [conn[c] EXCEPT !.pc = IF reg = Nil THEN "connect" ELSE "subscribe",
                                  !.hub = reg]
  <2>1. conn' = [conn EXCEPT ![c] = r] /\ hub' = hub /\ reg' = reg
    BY <1>0, <1>2 DEF GetHub
  <2>2. r \in ConnType /\ r.hub = reg /\ r.pc = IF reg = Nil THEN "connect" ELSE "subscribe"
    BY <1>0
  <2> HIDE DEF r
  <2>3. MirrorTypeOK'
    BY <1>0, <2>1, <2>2
  <2>4. ConnOK(c)'
    BY <1>0, <2>1, <2>2 DEF ConnOK
  <2> QED BY <2>1, <2>3, <2>4, ConnStepOK
<1>3. ASSUME NEW c \in Clients, ConnectWorker(c) PROVE MirrorInv'
  <2>1. PICK p \in {"insert", "gone"} :
          /\ conn' = [conn EXCEPT ![c].pc = p]
          /\ hub' = hub \/ hub' = [hub EXCEPT ![c].st = "open"]
          /\ reg' = reg
    BY <1>3 DEF ConnectWorker
  <2>a. hub[c] \in HubType /\ conn[c] \in ConnType
    BY <1>0 DEF MirrorTypeOK
  <2>b. conn' \in [Clients -> ConnType]
    <3> DEFINE r == [conn[c] EXCEPT !.pc = p]
    <3>1. r \in ConnType
      BY <2>a
    <3>2. conn' = [conn EXCEPT ![c] = r]
      BY <1>0, <2>1
    <3> HIDE DEF r, ConnType
    <3> QED BY <1>0, <3>1, <3>2
  <2>2. /\ hub' \in [Clients -> HubType]
        /\ KeptBeforeSent'
        /\ \A h \in Clients : hub[h].sent <= hub'[h].sent
    <3>1. CASE hub' = hub
      BY <1>0, <3>1 DEF KeptBeforeSent
    <3>2. CASE hub' = [hub EXCEPT ![c].st = "open"]
      <4> DEFINE q == [hub[c] EXCEPT !.st = "open"]
      <4>1. q \in HubType /\ q.sent = hub[c].sent /\ q.kept = hub[c].kept
        BY <2>a
      <4>2. hub' = [hub EXCEPT ![c] = q]
        BY <1>0, <3>2
      <4> HIDE DEF q
      <4>3. q.sent <= q.kept /\ hub[c].sent <= q.sent
        BY <1>0, <2>a, <4>1 DEF KeptBeforeSent
      <4> QED BY <1>0, <4>1, <4>2, <4>3, HubUpdate
    <3> QED BY <2>1, <3>1, <3>2
  <2>3. MirrorTypeOK'
    BY <1>0, <2>1, <2>2, <2>b DEF MirrorTypeOK
  <2>4. ASSUME NEW d \in Clients PROVE ConnOK(d)'
    <3>1. CASE d = c
      BY <1>0, <2>1, <3>1 DEF ConnOK
    <3>2. CASE d # c
      <4>1. conn'[d] = conn[d]
        BY <1>0, <2>1, <3>2
      <4> QED BY <1>0, <2>2, <2>3, <4>1, ConnFrame
    <3> QED BY <3>1, <3>2
  <2> QED BY <2>2, <2>3, <2>4 DEF MirrorInv
<1>4. ASSUME NEW c \in Clients, InsertHub(c) PROVE MirrorInv'
  <2> DEFINE q == [hub[c] EXCEPT !.st = "running"]
  <2>a. hub[c] \in HubType
    BY <1>0 DEF MirrorTypeOK
  <2>b. q \in HubType /\ q.sent = hub[c].sent /\ q.kept = hub[c].kept
    BY <2>a
  <2>c. hub' = [hub EXCEPT ![c] = q]
    BY <1>0, <1>4 DEF InsertHub
  <2> HIDE DEF q
  <2>d. q.sent <= q.kept /\ hub[c].sent <= q.sent
    BY <1>0, <2>a, <2>b DEF KeptBeforeSent
  <2>2. /\ hub' \in [Clients -> HubType]
        /\ KeptBeforeSent'
        /\ \A h \in Clients : hub[h].sent <= hub'[h].sent
    BY <1>0, <2>b, <2>c, <2>d, HubUpdate
  <2>1. MirrorTypeOK'
    <3> DEFINE r == [conn[c] EXCEPT !.pc = "subscribe", !.hub = c]
    <3>1. conn[c] \in ConnType
      BY <1>0
    <3>2. r \in ConnType
      BY <3>1
    <3>3. conn' = [conn EXCEPT ![c] = r] /\ reg' = c
      BY <1>0, <1>4 DEF InsertHub
    <3> HIDE DEF r, ConnType
    <3> QED BY <1>0, <2>2, <3>2, <3>3
  <2>3. ASSUME NEW d \in Clients PROVE ConnOK(d)'
    <3>1. CASE d = c
      BY <1>0, <1>4, <3>1 DEF InsertHub, ConnOK
    <3>2. CASE d # c
      <4>1. conn'[d] = conn[d]
        BY <1>0, <1>4, <3>2 DEF InsertHub
      <4> QED BY <1>0, <2>1, <2>2, <4>1, ConnFrame
    <3> QED BY <3>1, <3>2
  <2> QED BY <2>1, <2>2, <2>3 DEF MirrorInv
<1>5. ASSUME NEW c \in Clients, HubSubscribe(c) PROVE MirrorInv'
  <2> DEFINE r == [conn[c] EXCEPT !.pc = "snapshot", !.pos = hub[conn[c].hub].sent]
  <2>1. conn' = [conn EXCEPT ![c] = r] /\ hub' = hub /\ reg' = reg
    BY <1>0, <1>5 DEF HubSubscribe
  <2>2. conn[c].hub \in Clients
    BY <1>0, <1>5 DEF HubSubscribe, ConnOK
  <2>3. /\ r \in ConnType
        /\ r.hub = conn[c].hub /\ r.pos = hub[conn[c].hub].sent /\ r.pc = "snapshot"
    <3>1. conn[c] \in ConnType /\ hub[conn[c].hub].sent \in Nat
      BY <1>0, <2>2
    <3> QED BY <3>1
  <2> HIDE DEF r
  <2>4. MirrorTypeOK'
    BY <1>0, <2>1, <2>3
  <2>5. ConnOK(c)'
    BY SMTT(20), <1>0, <2>1, <2>2, <2>3 DEF ConnOK
  <2> QED BY <2>1, <2>4, <2>5, ConnStepOK
<1>6. ASSUME NEW c \in Clients, HubSnapshot(c) PROVE MirrorInv'
  <2> DEFINE h == conn[c].hub
             r == [conn[c] EXCEPT !.pc = "live", !.lo = Oldest(h), !.hi = hub[h].kept,
                                  !.got = Oldest(h) .. hub[h].kept]
  <2>1. conn' = [conn EXCEPT ![c] = r] /\ hub' = hub /\ reg' = reg
    BY <1>0, <1>6 DEF HubSnapshot
  <2>2. /\ h \in Clients /\ Oldest(h) \in Nat /\ hub[h].kept \in Nat /\ hub[h].sent \in Nat
        /\ conn[c].pos <= hub[h].sent /\ hub[h].sent <= hub[h].kept
    BY <1>0, <1>6, OldestType DEF HubSnapshot, ConnOK, KeptBeforeSent
  <2>3. Oldest(h) .. hub[h].kept \subseteq Nat
    BY <2>2
  <2>4. /\ r \in ConnType
        /\ r.hub = h /\ r.pos = conn[c].pos /\ r.pc = "live"
        /\ r.lo = Oldest(h) /\ r.got = Oldest(h) .. hub[h].kept
    BY ZenonT(40), <1>0, <2>2, <2>3
  <2> HIDE DEF r
  <2>5. MirrorTypeOK'
    BY <1>0, <2>1, <2>4
  <2>6. ConnOK(c)'
    BY <1>0, <2>1, <2>2, <2>4 DEF ConnOK
  <2> QED BY <2>1, <2>5, <2>6, ConnStepOK
<1>7. ASSUME NEW c \in Clients, Forward(c) PROVE MirrorInv'
  <2> DEFINE bcast == hub[conn[c].hub].sent
  <2>1. /\ conn[c].hub \in Clients /\ bcast \in Nat /\ conn[c].pos \in Nat /\ conn[c].pos <= bcast
        /\ conn[c].pc = "live" /\ OutCap \in Nat /\ hub' = hub /\ reg' = reg
    BY <1>0, <1>7, MirrorCapAssumption DEF Forward, ConnOK
  <2>2. CASE conn[c].pos < bcast
             /\ conn' = [conn EXCEPT ![c].pos = @ + 1, ![c].got = @ \cup {conn[c].pos + 1}]
    <3> DEFINE r == [conn[c] EXCEPT !.pos = conn[c].pos + 1,
                                    !.got = conn[c].got \cup {conn[c].pos + 1}]
    <3>1. conn' = [conn EXCEPT ![c] = r]
      BY <1>0, <2>2
    <3>2. conn[c].got \cup {conn[c].pos + 1} \in SUBSET Nat
      BY <1>0, <2>1
    <3>3. /\ r \in ConnType
          /\ r.hub = conn[c].hub /\ r.pos = conn[c].pos + 1 /\ r.pc = "live"
          /\ r.lo = conn[c].lo /\ r.got = conn[c].got \cup {conn[c].pos + 1}
          /\ r.missed = conn[c].missed
      BY <1>0, <2>1, <3>2
    <3> HIDE DEF r
    <3>4. MirrorTypeOK'
      BY <1>0, <2>1, <3>1, <3>3
    <3>5. conn'[c] = r
      BY <1>0, <3>1
    <3>6. ConnOK(c)'
      <4>1. ASSUME ~r.missed, NEW n \in Nat, r.lo <= n, n <= r.pos PROVE n \in r.got
        <5>1. n <= conn[c].pos => n \in conn[c].got
          BY <1>0, <2>1, <3>3, <4>1 DEF ConnOK
        <5>2. n <= conn[c].pos \/ n = conn[c].pos + 1
          BY <2>1, <3>3, <4>1
        <5> QED BY <3>3, <5>1, <5>2
      <4>2. r.hub \in Clients /\ r.pos <= hub'[r.hub].sent
        BY <2>1, <2>2, <3>3
      <4> QED BY <3>3, <3>5, <4>1, <4>2 DEF ConnOK
    <3> QED BY <2>1, <3>1, <3>4, <3>6, ConnStepOK
  <2>3. CASE bcast - conn[c].pos > OutCap
             /\ conn' = [conn EXCEPT ![c].pos = bcast - OutCap, ![c].missed = TRUE]
    <3> DEFINE r == [conn[c] EXCEPT !.pos = bcast - OutCap, !.missed = TRUE]
    <3>1. conn' = [conn EXCEPT ![c] = r]
      BY <1>0, <2>3
    <3>2. bcast - OutCap \in Nat /\ bcast - OutCap <= bcast
      BY <2>1, <2>3
    <3>3. r \in ConnType /\ r.hub = conn[c].hub /\ r.pos = bcast - OutCap /\ r.missed
      BY <1>0, <2>1, <3>2
    <3> HIDE DEF r
    <3>4. MirrorTypeOK'
      BY <1>0, <2>1, <3>1, <3>3
    <3>5. ConnOK(c)'
      BY <1>0, <2>1, <3>1, <3>2, <3>3 DEF ConnOK
    <3> QED BY <2>1, <3>1, <3>4, <3>5, ConnStepOK
  <2> QED BY <1>7, <2>2, <2>3 DEF Forward
<1>8. ASSUME NEW c \in Clients, Type(c) PROVE MirrorInv'
  <2>1. conn[c].hub \in Clients /\ conn[c].keys \in Nat /\ reg' = reg
    BY <1>0, <1>8 DEF Type, ConnOK
  <2> DEFINE r == [conn[c] EXCEPT !.keys = conn[c].keys + 1]
             g == conn[c].hub
             k == Append(hub[g].keys, <<c, conn[c].keys + 1>>)
             q == [hub[g] EXCEPT !.keys = k]
  <2>2. conn' = [conn EXCEPT ![c] = r] /\ hub' = [hub EXCEPT ![g] = q]
    BY <1>0, <1>8, <2>1 DEF Type
  <2>3. k \in Seq(Clients \X Nat)
    BY SMTT(20), <1>0, <2>1
  <2> HIDE DEF k
  <2>a. hub[g] \in HubType /\ conn[c] \in ConnType
    BY <1>0, <2>1 DEF MirrorTypeOK
  <2>4. q \in HubType /\ q.sent = hub[g].sent /\ q.kept = hub[g].kept
    BY <2>3, <2>a
  <2>b. conn[c].keys + 1 \in Nat
    BY <2>1
  <2>5. /\ r \in ConnType /\ r.pc = conn[c].pc /\ r.hub = conn[c].hub /\ r.pos = conn[c].pos
        /\ r.lo = conn[c].lo /\ r.got = conn[c].got /\ r.missed = conn[c].missed
    BY <2>a, <2>b, Zenon
  <2> HIDE DEF r, q
  <2>6. MirrorTypeOK'
    BY <1>0, <2>1, <2>2, <2>4, <2>5
  <2>7. \A h \in Clients : hub'[h].sent = hub[h].sent /\ hub'[h].kept = hub[h].kept
    BY <1>0, <2>1, <2>2, <2>4
  <2>8. KeptBeforeSent'
    BY <1>0, <2>7 DEF KeptBeforeSent
  <2>9. ASSUME NEW d \in Clients PROVE ConnOK(d)'
    <3>1. CASE d = c
      <4>1. conn'[c] = r /\ hub'[conn[c].hub].sent = hub[conn[c].hub].sent
        BY <1>0, <2>1, <2>2, <2>7
      <4> QED BY <1>0, <2>1, <2>5, <3>1, <4>1 DEF ConnOK
    <3>2. CASE d # c
      <4>1. conn'[d] = conn[d]
        BY <1>0, <2>2, <3>2
      <4>2. \A h \in Clients : hub[h].sent <= hub'[h].sent
        BY <1>0, <2>7
      <4> QED BY <1>0, <2>6, <4>1, <4>2, ConnFrame
    <3> QED BY <3>1, <3>2
  <2> QED BY <2>6, <2>8, <2>9 DEF MirrorInv
<1>9. ASSUME NEW c \in Clients, Leave(c) PROVE MirrorInv'
  <2> DEFINE r == [NoConn EXCEPT !.pc = "gone"]
  <2>1. conn' = [conn EXCEPT ![c] = r] /\ hub' = hub /\ reg' = reg
    BY <1>9 DEF Leave
  <2>2. r \in ConnType /\ r.pc = "gone"
    BY DEF NoConn
  <2> HIDE DEF r
  <2>3. MirrorTypeOK'
    BY <1>0, <2>1, <2>2
  <2>4. ConnOK(c)'
    BY <1>0, <2>1, <2>2 DEF ConnOK
  <2> QED BY <2>1, <2>3, <2>4, ConnStepOK
<1>10. ASSUME NEW h \in Clients, Accumulate(h) \/ FanOut(h) PROVE MirrorInv'
  <2>a. hub[h] \in HubType
    BY <1>0 DEF MirrorTypeOK
  <2>b. PICK q \in HubType : /\ hub' = [hub EXCEPT ![h] = q]
                             /\ q.sent <= q.kept /\ hub[h].sent <= q.sent
    <3>1. CASE Accumulate(h)
      <4> DEFINE q == [hub[h] EXCEPT !.kept = hub[h].kept + 1]
      <4>1. q \in HubType /\ q.sent = hub[h].sent /\ q.kept = hub[h].kept + 1
        BY <2>a
      <4>2. hub' = [hub EXCEPT ![h] = q]
        BY <1>0, <3>1 DEF Accumulate
      <4> HIDE DEF q
      <4>3. q.sent <= q.kept /\ hub[h].sent <= q.sent
        BY <1>0, <2>a, <4>1 DEF KeptBeforeSent
      <4> QED BY <4>1, <4>2, <4>3
    <3>2. CASE FanOut(h)
      <4> DEFINE q == [hub[h] EXCEPT !.sent = hub[h].kept]
      <4>1. q \in HubType /\ q.sent = hub[h].kept /\ q.kept = hub[h].kept
        BY <2>a
      <4>2. hub' = [hub EXCEPT ![h] = q]
        BY <1>0, <3>2 DEF FanOut
      <4> HIDE DEF q
      <4>3. q.sent <= q.kept /\ hub[h].sent <= q.sent
        BY <1>0, <2>a, <4>1 DEF KeptBeforeSent
      <4> QED BY <4>1, <4>2, <4>3
    <3> QED BY <1>10, <3>1, <3>2
  <2>c. conn' = conn /\ reg' = reg
    BY <1>10 DEF Accumulate, FanOut
  <2>1. /\ hub' \in [Clients -> HubType]
        /\ KeptBeforeSent'
        /\ \A g \in Clients : hub[g].sent <= hub'[g].sent
    BY <1>0, <2>b, HubUpdate
  <2>2. MirrorTypeOK'
    BY <1>0, <2>1, <2>c DEF MirrorTypeOK
  <2> QED BY <2>1, <2>2, <2>c, HubStepOK
<1>11. ASSUME NEW h \in Clients, WorkerClosed(h) PROVE MirrorInv'
  <2>1. MirrorTypeOK' /\ KeptBeforeSent' /\ conn' = conn
    BY ZenonT(40), <1>0, <1>11 DEF WorkerClosed, KeptBeforeSent
  <2>2. \A g \in Clients : hub[g].sent <= hub'[g].sent
    BY <1>0, <1>11 DEF WorkerClosed
  <2> QED BY <2>1, <2>2, HubStepOK
<1>12. ASSUME NEW h \in Clients, DrainInput(h) PROVE MirrorInv'
  <2> DEFINE k == IF over THEN <<>> ELSE Tail(hub[h].keys)
             q == [hub[h] EXCEPT !.keys = k]
  <2>1. hub' = [hub EXCEPT ![h] = q] /\ conn' = conn /\ reg' = reg
    BY <1>0, <1>12 DEF DrainInput
  <2>2. k \in Seq(Clients \X Nat)
    BY <1>0, <1>12 DEF DrainInput
  <2> HIDE DEF k
  <2>3. q \in HubType /\ q.sent = hub[h].sent /\ q.kept = hub[h].kept
    BY <1>0, <2>2
  <2> HIDE DEF q
  <2>4. MirrorTypeOK' /\ KeptBeforeSent'
    BY <1>0, <2>1, <2>3 DEF KeptBeforeSent
  <2>5. \A g \in Clients : hub[g].sent <= hub'[g].sent
    BY <1>0, <2>1, <2>3
  <2> QED BY <2>1, <2>4, <2>5, HubStepOK
<1>13. CASE PaneEnds \/ UNCHANGED mvars
  <2>1. conn' = conn /\ hub' = hub /\ reg' = reg
    BY <1>13 DEF PaneEnds, mvars
  <2> QED BY <1>0, <2>1 DEF MirrorInv, KeptBeforeSent, ConnOK
<1> QED
  BY <1>1, <1>2, <1>3, <1>4, <1>5, <1>6, <1>7, <1>8, <1>9, <1>10, <1>11, <1>12, <1>13
  DEF MirrorNext, ConnStep, HubStep

\* Nothing is lost between the snapshot of a hub and what it mirrors: with any
\* number of clients attaching to one pane, through one hub or through several
\* created at once, a client that has not lagged has got every frame of its hub
\* from the oldest of its snapshot on, or will.
THEOREM MirrorComplete == MirrorSpec => []MirrorNoGap
<1>1. MirrorInit => MirrorInv
  BY DEF MirrorInit, NoHub, NoConn, MirrorInv, MirrorTypeOK, KeptBeforeSent, ConnOK, HubType,
         ConnType, ConnStates
<1>2. MirrorInv /\ [MirrorNext]_mvars => MirrorInv'
  BY MirrorStep
<1>3. MirrorInv => MirrorNoGap
  <2> SUFFICES ASSUME MirrorInv, NEW c \in Clients, At(c, "live"), ~conn[c].missed,
                      NEW n \in conn[c].lo .. hub[conn[c].hub].sent
               PROVE  n \in conn[c].got \/ n > conn[c].pos
    BY DEF MirrorNoGap
  <2>1. ConnOK(c) /\ conn[c].hub \in Clients
    BY DEF MirrorInv, ConnOK, At
  <2>2. hub[conn[c].hub].sent \in Nat /\ conn[c].lo \in Nat /\ conn[c].pos \in Nat
    BY <2>1 DEF MirrorInv, MirrorTypeOK, HubType, ConnType
  <2> QED BY <2>1, <2>2 DEF ConnOK, At
<1> QED BY <1>1, <1>2, <1>3, PTL DEF MirrorSpec

-----------------------------------------------------------------------------
(* The block pipeline (Blocks), in both modes: for tapes, reorderings and
   failures of the store of any number. *)

TapeItems == [k : {"A", "C", "D", "e", "o"}, cmd : Nat]
Rows      == [cmd : Nat, st : {"none", "running", "ended"}, blob : Seq(Nat)]
Places    == 1 .. Len(tape)
Numbers   == 1 .. Len(row)

\* What is on its way is on the tape, and what the pipeline holds is in the table.
SourceTypeOK ==
  /\ mode \in {"single", "worker"}
  /\ tape \in Seq(TapeItems)
  /\ shell \in [cmd : Nat, n : Nat, over : BOOLEAN]
  /\ flying \subseteq Places
  /\ queue \in Seq(Places)
  /\ batch \in [pc : {"select", "flush", "finalize"}, held : Seq(Places)]

TableTypeOK ==
  /\ row \in Seq(Rows)
  /\ pipe \in [cur : {0} \cup Numbers, known : BOOLEAN, meta : SUBSET Numbers, writers : SUBSET Numbers]
  /\ failed \in Seq({"create", "open", "write", "finalize"})

Running(b) == row[b].st = "running"

\* A running block is one of block_meta; in the single daemon it has a blob file.
RunningIsOpen ==
  \A b \in Numbers : Running(b) => b \in pipe.meta \/ Failed("finalize")
RunningHasWriter ==
  mode = "single" => \A b \in Numbers : Running(b) => b \in pipe.writers \/ Failed("finalize") \/ Failed("open")

\* Once the slot is dead, what block_meta holds is finalized yet, or came late.
ClosedIsFinalized ==
  dead => final \/ batch.pc = "finalize" \/ Failed("finalize") \/ pipe.meta \subseteq late

\* Only a worker's events are batched.
BatchesInWorker == batch.pc # "select" \/ dead => mode = "worker"

TableInv == RunningIsOpen /\ RunningHasWriter /\ ClosedIsFinalized /\ BatchesInWorker
BlocksInv == SourceTypeOK /\ TableTypeOK /\ TableInv

-----------------------------------------------------------------------------
LEMMA FailedGrows ==
  ASSUME TableTypeOK, NEW f \in {"create", "open", "write", "finalize"}, May(f)
  PROVE  /\ failed' \in Seq({"create", "open", "write", "finalize"})
         /\ Failed(f)'
         /\ \A g : Failed(g) => Failed(g)'
<1>1. failed' = Append(failed, f)
  BY DEF May
<1>2. /\ DOMAIN failed = 1 .. Len(failed) /\ DOMAIN failed' = 1 .. Len(failed) + 1
      /\ \A i \in 1 .. Len(failed) : failed'[i] = failed[i]
      /\ failed'[Len(failed) + 1] = f /\ Len(failed) \in Nat
  BY <1>1 DEF TableTypeOK
<1> QED BY <1>1, <1>2 DEF TableTypeOK, Failed, Range

\* What the shell writes.
LEMMA ItemsTyped ==
  ASSUME SourceTypeOK, NEW x \in Items
  PROVE  x \in TapeItems
BY DEF SourceTypeOK, Items, TapeItems

LEMMA SourceStep ==
  ASSUME SourceTypeOK, [BlocksNext]_bvars
  PROVE  SourceTypeOK'
<1> USE DEF SourceTypeOK, src
<1>1. ASSUME NEW x \in Items, Write(x) PROVE SourceTypeOK'
  <2>1. x \in TapeItems
    BY ItemsTyped
  <2>2. /\ tape' \in Seq(TapeItems) /\ Len(tape') = Len(tape) + 1 /\ Places \subseteq Places'
        /\ Len(tape') \in Places'
    BY <1>1, <2>1 DEF Write, Places
  <2>3. shell' \in [cmd : Nat, n : Nat, over : BOOLEAN]
    BY <1>1, <2>1 DEF Write, TapeItems
  <2>4. queue \in Seq(Places') /\ batch.held \in Seq(Places')
    BY <2>2
  <2>5. flying' \subseteq Places' /\ queue' \in Seq(Places')
    <3>1. CASE mode = "single"
      <4>1. queue' = Append(queue, Len(tape')) /\ flying' = flying
        BY <1>1, <3>1 DEF Write
      <4> QED BY <2>2, <2>4, <4>1
    <3>2. CASE mode # "single"
      BY <1>1, <2>2, <2>4, <3>2 DEF Write
    <3> QED BY <3>1, <3>2
  <2>6. batch' \in [pc : {"select", "flush", "finalize"}, held : Seq(Places')]
    BY <1>1, <2>4 DEF Write
  <2> QED BY <1>1, <2>2, <2>3, <2>5, <2>6 DEF Write
<1>2. CASE ShellEnds \/ Drain \/ PaneClosed
  BY <1>2 DEF ShellEnds, Drain, PaneClosed, Places
<1>3. CASE Parse
  BY <1>3 DEF Parse, Places
<1>4. ASSUME NEW i \in flying, Deliver(i) PROVE SourceTypeOK'
  BY <1>4 DEF Deliver, Places
<1>5. CASE Receive
  <2>1. Head(queue) \in Places /\ Tail(queue) \in Seq(Places)
    BY <1>5 DEF Receive
  <2>2. Append(batch.held, Head(queue)) \in Seq(Places)
    BY <2>1
  <2>3. batch' = [batch EXCEPT !.held = Append(batch.held, Head(queue))]
    BY <1>5 DEF Receive
  <2>4. batch' \in [pc : {"select", "flush", "finalize"}, held : Seq(Places)]
    BY <2>2, <2>3
  <2>5. Places' = Places /\ queue' \in Seq(Places)
    BY <1>5, <2>1 DEF Receive, Places
  <2> QED BY <1>5, <2>4, <2>5 DEF Receive
<1>6. CASE Tick \/ Finalize \/ Flushed \/ FinalizePane
  BY <1>6 DEF Tick, Finalize, Flushed, FinalizePane, Places
<1>7. CASE ProcessRawEvent
  <2>1. Tail(batch.held) \in Seq(Places)
    BY <1>7 DEF ProcessRawEvent
  <2> QED BY <1>7, <2>1 DEF ProcessRawEvent, Places
<1>8. CASE UNCHANGED bvars
  BY <1>8 DEF bvars, Places
<1> QED BY <1>1, <1>2, <1>3, <1>4, <1>5, <1>6, <1>7, <1>8 DEF BlocksNext, Batcher

-----------------------------------------------------------------------------
(* What an event of the parser does to the table *)

\* The part of the state that no event of the parser changes.
Held == mode' = mode /\ dead' = dead /\ final' = final /\ batch'.pc = batch.pc

\* A block begins: one more row, which block_meta has if it is running.
LEMMA CommandStartStep ==
  ASSUME TableTypeOK, TableInv, Held, NEW x \in TapeItems, CommandStart(x)
  PROVE  TableTypeOK' /\ TableInv'
<1>0. PICK n \in Nat : n = Len(row) + 1
  BY DEF TableTypeOK
<1>1. Numbers = 1 .. Len(row) /\ Len(row) \in Nat
  BY DEF TableTypeOK, Numbers
<1>2. /\ pipe'.cur = n /\ pipe'.known = pipe.known
      /\ \/ pipe'.meta = pipe.meta \cup {n} /\ pipe'.writers = pipe.writers \cup {n}
         \/ pipe'.meta = pipe.meta /\ pipe'.writers = pipe.writers
         \/ Failed("open")' /\ pipe'.meta = pipe.meta \cup {n} /\ pipe'.writers = pipe.writers
      /\ pipe' = [cur |-> pipe'.cur, known |-> pipe'.known, meta |-> pipe'.meta, writers |-> pipe'.writers]
  BY <1>0, FailedGrows DEF CommandStart, TableTypeOK
<1>3. /\ failed' \in Seq({"create", "open", "write", "finalize"})
      /\ \A g : Failed(g) => Failed(g)'
  BY FailedGrows DEF CommandStart, Fine, TableTypeOK, Failed, Range
<1>4. PICK r \in Rows : row' = Append(row, r) /\ (r.st = "running" => n \in pipe'.meta)
  <2>1. CreateBlock(x, n \in pipe'.meta) \in Rows
    BY DEF CreateBlock, Rows, TapeItems
  <2> QED BY <1>0, <2>1 DEF CommandStart, CreateBlock
<1>5. /\ row' \in Seq(Rows) /\ Len(row') = n /\ Numbers' = Numbers \cup {n} /\ n \notin Numbers
      /\ \A b \in Numbers : Running(b)' <=> Running(b)
      /\ Running(n)' => n \in pipe'.meta
  BY <1>0, <1>1, <1>4 DEF TableTypeOK, Numbers, Running
<1>6. TableTypeOK'
  BY <1>2, <1>3, <1>5 DEF TableTypeOK
<1>7. pipe.meta \subseteq pipe'.meta /\ pipe.writers \subseteq pipe'.writers
  BY <1>2
<1>8. RunningIsOpen'
  BY <1>3, <1>5, <1>7 DEF TableInv, RunningIsOpen
<1>9. RunningHasWriter'
  <2>1. n \in pipe'.meta => n \in pipe'.writers \/ Failed("open")'
    BY <1>1, <1>2, <1>5 DEF TableTypeOK
  <2> QED BY <1>3, <1>5, <1>7, <2>1 DEF TableInv, RunningHasWriter, Held
<1>10. ClosedIsFinalized' /\ BatchesInWorker'
  <2>1. late' = IF dead THEN late \cup {n} ELSE late
    BY <1>0 DEF CommandStart
  <2> QED BY <1>2, <1>3, <2>1 DEF TableInv, ClosedIsFinalized, BatchesInWorker, Held
<1> QED BY <1>6, <1>8, <1>9, <1>10 DEF TableInv

\* Output: a blob grows, or its file is closed.
LEMMA OutputChunkStep ==
  ASSUME TableTypeOK, TableInv, Held, NEW i \in Nat, OutputChunk(i)
  PROVE  TableTypeOK' /\ TableInv'
<1>1. /\ failed' \in Seq({"create", "open", "write", "finalize"})
      /\ \A g : Failed(g) => Failed(g)'
  BY FailedGrows DEF OutputChunk, Fine, TableTypeOK, Failed, Range
<1>2. /\ pipe' \in [cur : {0} \cup Numbers, known : BOOLEAN, meta : SUBSET Numbers, writers : SUBSET Numbers]
      /\ pipe'.meta = pipe.meta
      /\ mode = "single" => pipe'.writers = pipe.writers
  BY DEF OutputChunk, TableTypeOK
<1>3. row' \in Seq(Rows) /\ Len(row') = Len(row) /\ \A b \in Numbers : Running(b)' <=> Running(b)
  <2>1. CASE row' = row
    BY <2>1 DEF TableTypeOK, Running
  <2>2. CASE /\ pipe.cur \in pipe.writers
             /\ row' = [row EXCEPT ![pipe.cur] = BlobWrite(row[pipe.cur], i)]
    <3>1. pipe.cur \in Numbers /\ row[pipe.cur] \in Rows
      BY <2>2 DEF TableTypeOK, Numbers
    <3>2. /\ BlobWrite(row[pipe.cur], i) \in Rows
          /\ BlobWrite(row[pipe.cur], i).st = row[pipe.cur].st
      <4>1. Append(row[pipe.cur].blob, i) \in Seq(Nat)
        BY <3>1 DEF Rows
      <4>2. BlobWrite(row[pipe.cur], i) = [row[pipe.cur] EXCEPT !.blob = Append(row[pipe.cur].blob, i)]
        BY DEF BlobWrite
      <4> QED BY <3>1, <4>1, <4>2 DEF Rows
    <3> QED BY <2>2, <3>1, <3>2 DEF TableTypeOK, Numbers, Running
  <2> QED BY <2>1, <2>2 DEF OutputChunk
<1>4. Numbers' = Numbers
  BY <1>3 DEF Numbers
<1>5. late' = late
  BY DEF OutputChunk
<1>6. TableTypeOK'
  BY <1>1, <1>2, <1>3, <1>4 DEF TableTypeOK
<1> QED
  BY <1>1, <1>2, <1>3, <1>4, <1>5, <1>6
  DEF TableInv, RunningIsOpen, RunningHasWriter, ClosedIsFinalized, BatchesInWorker, Held

\* A block's row after finalize_block.
LEMMA EndedRow ==
  ASSUME NEW r \in Rows
  PROVE  Ended(r) \in Rows /\ Ended(r).st # "running"
BY DEF Ended, Rows

\* The end of a command takes its block out of block_meta, with its row.
LEMMA BlockEndStep ==
  ASSUME TableTypeOK, TableInv, Held, BlockEnd
  PROVE  TableTypeOK' /\ TableInv'
<1>1. CASE pipe.cur = 0
  BY <1>1 DEF BlockEnd, Fine, Held, TableTypeOK, Numbers, TableInv, RunningIsOpen, RunningHasWriter,
              ClosedIsFinalized, BatchesInWorker, Running, Failed, Range
<1>2. CASE pipe.cur # 0
  <2>1. PICK b \in Numbers : b = pipe.cur
    BY <1>2 DEF TableTypeOK
  <2>2. /\ failed' \in Seq({"create", "open", "write", "finalize"})
        /\ \A g : Failed(g) => Failed(g)'
    BY FailedGrows DEF BlockEnd, Fine, TableTypeOK, Failed, Range
  <2>3. /\ pipe'.meta = pipe.meta \ {b} /\ pipe'.writers = pipe.writers \ {b}
        /\ pipe' \in [cur : {0} \cup Numbers, known : BOOLEAN, meta : SUBSET Numbers, writers : SUBSET Numbers]
    BY <1>2, <2>1 DEF BlockEnd, TableTypeOK
  <2>4. \/ row' = [row EXCEPT ![b] = Ended(row[b])]
        \/ row' = row /\ Failed("finalize")'
    BY <1>2, <2>1, FailedGrows DEF BlockEnd
  <2>5. row[b] \in Rows
    BY <2>1 DEF TableTypeOK, Numbers
  <2>6. /\ row' \in Seq(Rows) /\ Len(row') = Len(row) /\ Numbers' = Numbers
        /\ \A c \in Numbers : Running(c)' => Running(c)
        /\ Running(b)' => Failed("finalize")'
    BY <2>1, <2>4, <2>5, EndedRow DEF TableTypeOK, Numbers, Running
  <2>7. late' = late
    BY DEF BlockEnd
  <2>8. TableTypeOK'
    BY <2>2, <2>3, <2>6 DEF TableTypeOK
  <2> QED
    BY <2>2, <2>3, <2>6, <2>7, <2>8
    DEF TableInv, RunningIsOpen, RunningHasWriter, ClosedIsFinalized, BatchesInWorker, Held
<1> QED BY <1>1, <1>2

LEMMA FeedStep ==
  ASSUME SourceTypeOK, TableTypeOK, TableInv, Held, NEW i \in Places, Feed(i)
  PROVE  TableTypeOK' /\ TableInv'
<1>1. tape[i] \in TapeItems /\ i \in Nat
  BY DEF SourceTypeOK, Places
<1>2. CASE tape[i].k = "A"
  <2>1. /\ pipe' = [pipe EXCEPT !.cur = 0] /\ row' = row /\ late' = late /\ failed' = failed
    BY <1>2 DEF Feed, Prompt, Fine
  <2> QED
    BY <2>1 DEF Held, TableTypeOK, Numbers, TableInv, RunningIsOpen, RunningHasWriter,
                ClosedIsFinalized, BatchesInWorker, Running, Failed, Range
<1>3. CASE tape[i].k = "C"
  BY <1>1, <1>3, CommandStartStep DEF Feed
<1>4. CASE tape[i].k = "o"
  BY <1>1, <1>4, OutputChunkStep DEF Feed
<1>5. CASE tape[i].k = "D"
  BY <1>5, BlockEndStep DEF Feed
<1>6. CASE tape[i].k = "e"
  BY <1>6 DEF Feed, Escape, Fine, Held, TableTypeOK, Numbers, TableInv, RunningIsOpen, RunningHasWriter,
              ClosedIsFinalized, BatchesInWorker, Running, Failed, Range
<1> QED BY <1>1, <1>2, <1>3, <1>4, <1>5, <1>6 DEF TapeItems

\* Every row of a set of blocks ends.
LEMMA EndAll ==
  ASSUME TableTypeOK, NEW bs \in SUBSET Numbers,
         row' = [b \in DOMAIN row |-> IF b \in bs THEN Ended(row[b]) ELSE row[b]]
  PROVE  /\ row' \in Seq(Rows) /\ Len(row') = Len(row) /\ Numbers' = Numbers
         /\ \A c \in Numbers : Running(c)' => Running(c) /\ c \notin bs
<1>1. DOMAIN row = Numbers /\ Len(row) \in Nat /\ \A b \in Numbers : row[b] \in Rows
  BY DEF TableTypeOK, Numbers
<1>2. row' \in [1 .. Len(row) -> Rows]
  BY <1>1, EndedRow DEF Numbers
<1>3. row' \in Seq(Rows) /\ Len(row') = Len(row)
  BY <1>1, <1>2
<1> QED BY <1>1, <1>3, EndedRow DEF Numbers, Running

-----------------------------------------------------------------------------
LEMMA TableStep ==
  ASSUME BlocksInv, [BlocksNext]_bvars
  PROVE  TableTypeOK' /\ TableInv'
<1> USE DEF BlocksInv, src
<1>1. CASE Parse
  <2>1. Head(queue) \in Places /\ Held /\ Feed(Head(queue))
    BY <1>1 DEF SourceTypeOK, Parse, Held
  <2> QED BY <2>1, FeedStep
<1>2. CASE ProcessRawEvent
  <2>1. Head(batch.held) \in Places /\ Held
    BY <1>2 DEF SourceTypeOK, ProcessRawEvent, Held
  <2>2. CASE pipe.known
    BY <1>2, <2>1, <2>2, FeedStep DEF ProcessRawEvent
  <2>3. CASE ~pipe.known
    <3>1. /\ pipe' = [pipe EXCEPT !.known = ~marked] /\ row' = row /\ late' = late /\ failed' = failed
      BY <1>2, <2>3 DEF ProcessRawEvent
    <3> QED
      BY <2>1, <3>1 DEF Held, TableTypeOK, Numbers, TableInv, RunningIsOpen, RunningHasWriter,
                  ClosedIsFinalized, BatchesInWorker, Running, Failed, Range
  <2> QED BY <2>2, <2>3
<1>3. CASE Drain
  <2>1. PICK lost \in SUBSET pipe.writers :
          /\ IF lost = {} THEN Fine ELSE May("finalize")
          /\ row' = [b \in DOMAIN row |-> IF b \in pipe.writers \ lost THEN Ended(row[b]) ELSE row[b]]
    BY <1>3 DEF Drain
  <2>2. pipe.writers \ lost \in SUBSET Numbers
    BY DEF TableTypeOK
  <2>3. /\ row' \in Seq(Rows) /\ Len(row') = Len(row) /\ Numbers' = Numbers
        /\ \A c \in Numbers : Running(c)' => Running(c) /\ c \notin pipe.writers \ lost
    BY <2>1, <2>2, EndAll
  <2>4. /\ pipe' \in [cur : {0} \cup Numbers, known : BOOLEAN, meta : SUBSET Numbers, writers : SUBSET Numbers]
        /\ pipe'.meta = pipe.meta
        /\ late' = late /\ dead' = dead /\ final' = final /\ batch' = batch /\ mode' = mode
    BY <1>3 DEF Drain, TableTypeOK
  <2>5. /\ failed' \in Seq({"create", "open", "write", "finalize"})
        /\ \A g : Failed(g) => Failed(g)'
        /\ lost = {} \/ Failed("finalize")'
    BY <2>1, FailedGrows DEF Fine, TableTypeOK, Failed, Range
  <2>6. TableTypeOK'
    BY <2>3, <2>4, <2>5 DEF TableTypeOK
  <2> QED BY <2>3, <2>4, <2>5, <2>6 DEF TableInv, RunningIsOpen, RunningHasWriter, ClosedIsFinalized,
                                        BatchesInWorker
<1>4. CASE FinalizePane
  <2>1. pipe.meta \in SUBSET Numbers
    BY DEF TableTypeOK
  <2>2. /\ failed' \in Seq({"create", "open", "write", "finalize"})
        /\ \A g : Failed(g) => Failed(g)'
    BY <1>4, FailedGrows DEF FinalizePane, Fine, TableTypeOK, Failed, Range
  <2>3. \/ row' = [b \in DOMAIN row |-> IF b \in pipe.meta THEN Ended(row[b]) ELSE row[b]]
        \/ row' = row /\ Failed("finalize")'
    BY <1>4, FailedGrows DEF FinalizePane, OpenBlocks
  <2>4. /\ row' \in Seq(Rows) /\ Len(row') = Len(row) /\ Numbers' = Numbers
        /\ \A c \in Numbers : Running(c)' => Failed("finalize")' \/ (Running(c) /\ c \notin pipe.meta)
    <3>1. CASE row' = row /\ Failed("finalize")'
      BY <3>1 DEF TableTypeOK, Numbers
    <3>2. CASE row' = [b \in DOMAIN row |-> IF b \in pipe.meta THEN Ended(row[b]) ELSE row[b]]
      BY <2>1, <3>2, EndAll
    <3> QED BY <2>3, <3>1, <3>2
  <2>5. /\ pipe' \in [cur : {0} \cup Numbers, known : BOOLEAN, meta : SUBSET Numbers, writers : SUBSET Numbers]
        /\ pipe'.meta = {} /\ late' = late /\ dead' = dead /\ final' = final /\ mode' = mode
        /\ mode = "worker" /\ batch'.pc = "select"
    BY <1>4 DEF FinalizePane, TableTypeOK, TableInv, BatchesInWorker, SourceTypeOK
  <2>6. TableTypeOK'
    BY <2>2, <2>4, <2>5 DEF TableTypeOK
  <2> QED BY <2>2, <2>4, <2>5, <2>6 DEF TableInv, RunningIsOpen, RunningHasWriter,
                                        ClosedIsFinalized, BatchesInWorker
<1>5. CASE PaneClosed
  <2>1. /\ failed' \in Seq({"create", "open", "write", "finalize"})
        /\ \A g : Failed(g) => Failed(g)'
        /\ final' \/ Failed("finalize")'
    BY <1>5, FailedGrows DEF PaneClosed, Fine, TableTypeOK, Failed, Range
  <2> QED BY <1>5, <2>1 DEF PaneClosed, TableTypeOK, Numbers, TableInv, RunningIsOpen,
                  RunningHasWriter, ClosedIsFinalized, BatchesInWorker, Running
<1>6. ASSUME UNCHANGED <<mode, dead, pipe, row, failed, late>>,
             batch'.pc = batch.pc \/ mode = "worker",
             final' \/ batch'.pc = "finalize" \/ (~final /\ batch.pc # "finalize")
      PROVE  TableTypeOK' /\ TableInv'
  BY <1>6 DEF TableTypeOK, Numbers, TableInv, RunningIsOpen, RunningHasWriter, ClosedIsFinalized,
              BatchesInWorker, Running, Failed, Range
<1>7. CASE Tick \/ Finalize \/ Flushed \/ Receive
  BY <1>6, <1>7 DEF Tick, Finalize, Flushed, Receive, Select, SourceTypeOK, TableInv, BatchesInWorker
<1>8. CASE \/ ShellEnds \/ \E x \in Items : Write(x)
           \/ \E i \in flying : Deliver(i)
           \/ UNCHANGED bvars
  <2>1. UNCHANGED <<mode, dead, pipe, row, failed, late, final, batch>>
    BY <1>8 DEF ShellEnds, Write, Deliver, bvars
  <2> QED BY <2>1 DEF TableTypeOK, Numbers, TableInv, RunningIsOpen, RunningHasWriter,
              ClosedIsFinalized, BatchesInWorker, Running, Failed, Range
<1> QED BY <1>1, <1>2, <1>3, <1>4, <1>5, <1>7, <1>8 DEF BlocksNext, Batcher

\* The blocks table is sound: what the batcher and the parser hold is in the
\* table, and every running block is known to whoever has to finalize it.
THEOREM TableSound == BlocksSpec => []BlocksInv
<1>1. BlocksInit => BlocksInv
  <2> SUFFICES ASSUME BlocksInit PROVE BlocksInv
    OBVIOUS
  <2>1. SourceTypeOK
    BY ModesAssumption DEF BlocksInit, SourceTypeOK, Places
  <2>2. TableTypeOK
    BY DEF BlocksInit, TableTypeOK, Numbers
  <2>3. TableInv
    BY DEF BlocksInit, TableInv, RunningIsOpen, RunningHasWriter, ClosedIsFinalized, BatchesInWorker, Numbers
  <2> QED BY <2>1, <2>2, <2>3 DEF BlocksInv
<1>2. BlocksInv /\ [BlocksNext]_bvars => BlocksInv'
  BY SourceStep, TableStep DEF BlocksInv
<1> QED BY <1>1, <1>2, PTL DEF BlocksSpec

\* finalize_one_pane_state and the drain of the parser task: a closed pane leaves
\* no running block behind, whatever the order the events came in, unless the
\* store failed to finalize or the block began after pane_closed.
THEOREM NoGhost == BlocksSpec => []NoGhostBlock
<1>1. BlocksInv => NoGhostBlock
  <2> SUFFICES ASSUME BlocksInv, Quiet, ~Failed("finalize"), mode = "single" => ~Failed("open"),
                      NEW b \in DOMAIN row, row[b].st = "running"
               PROVE  b \in late
    BY DEF NoGhostBlock
  <2>1. b \in Numbers /\ Running(b)
    BY DEF BlocksInv, TableTypeOK, Numbers, Running
  <2>2. mode # "single"
    BY <2>1 DEF BlocksInv, TableInv, RunningHasWriter, Quiet
  <2>3. dead /\ ~final /\ batch.pc = "select"
    BY <2>2 DEF Quiet
  <2> QED BY <2>1, <2>3 DEF BlocksInv, TableInv, RunningIsOpen, ClosedIsFinalized
<1> QED BY <1>1, TableSound, PTL

-----------------------------------------------------------------------------
(* The blobs of the single daemon: for tapes of any length *)

Starts(i) == tape[i].k = "C"

\* The command that runs after the first n items.
After(n) == IF n # 0 /\ tape[n].k \in {"C", "e", "o"} THEN tape[n].cmd ELSE 0

\* Commands are numbered as they start, and what is written is of the command
\* that runs.
TapeInv ==
  /\ shell.cmd = After(Len(tape))
  /\ \A i \in Places : IF Starts(i) THEN tape[i].cmd # 0 ELSE tape[i].cmd = After(i - 1)
  /\ \A i \in Places : tape[i].cmd <= shell.n
  /\ \A c \in 1 .. shell.n : \E i \in Places : Starts(i) /\ tape[i].cmd = c
  /\ \A i, j \in Places : i < j /\ Starts(j) => tape[i].cmd < tape[j].cmd

\* The parse channel has the rest of the tape, in its order, and nothing else is
\* on its way.
Parsed  == Len(tape) - Len(queue)
InOrder == flying = {} /\ Len(queue) <= Len(tape) /\ \A i \in 1 .. Len(queue) : queue[i] = Parsed + i

\* What the parser has done with the part it had: the block of a command has its
\* number, and its blob all of its text so far.
Wrote(n, b) == {i \in 1 .. n : tape[i].k = "o" /\ tape[i].cmd = b}
Blobs(n) == \A b \in Numbers :
              Ascending(row[b].blob) /\ Range(row[b].blob) = Wrote(n, b)
ParsedInv ==
  /\ Len(row) <= shell.n /\ \A b \in Numbers : row[b].cmd = b
  /\ \A i \in 1 .. Parsed : tape[i].cmd <= Len(row)
  /\ \A i \in Places : i > Parsed /\ Starts(i) => tape[i].cmd > Len(row)
  /\ pipe.cur = After(Parsed)
  /\ queue # <<>> \/ ~shell.over => pipe.cur \in {0} \cup pipe.writers
  /\ Blobs(Parsed)

BlobInv == TapeInv /\ (mode = "single" => InOrder /\ (failed = <<>> => ParsedInv))

LEMMA TapeStep ==
  ASSUME SourceTypeOK, TapeInv, [BlocksNext]_bvars
  PROVE  TapeInv'
<1>1. ASSUME NEW x \in Items, Write(x) PROVE TapeInv'
  <2>n. PICK n \in Nat : n = Len(tape)
    BY DEF SourceTypeOK
  <2>0. /\ tape \in Seq(TapeItems) /\ x \in TapeItems /\ tape' = Append(tape, x)
        /\ shell.n \in Nat /\ shell.cmd \in Nat /\ DOMAIN shell = {"cmd", "n", "over"}
    BY <1>1, ItemsTyped DEF Write, SourceTypeOK
  <2>1. /\ Len(tape) = n /\ Len(tape') = n + 1 /\ tape'[n + 1] = x
        /\ \A i \in 1 .. n : tape'[i] = tape[i] /\ tape[i] \in TapeItems
    BY <2>n, <2>0
  <2>a. \A y \in TapeItems : y.cmd \in Nat /\ y.k \in {"A", "C", "D", "e", "o"}
    BY DEF TapeItems
  <2>2. /\ \A i \in 0 .. n : After(i)' = After(i)
        /\ After(n + 1)' = IF x.k \in {"C", "e", "o"} THEN x.cmd ELSE 0
        /\ \A i \in 1 .. n : Starts(i)' <=> Starts(i)
        /\ Starts(n + 1)' <=> x.k = "C"
    BY <2>1 DEF After, Starts
  <2>3. CASE x.k = "C"
    <3>1. shell.cmd = 0 /\ x.cmd = shell.n + 1
      BY <2>3 DEF Items
    <3>2. shell' = [shell EXCEPT !.cmd = x.cmd, !.n = x.cmd]
      BY <1>1, <2>3 DEF Write
    <3>3. shell'.cmd = shell.n + 1 /\ shell'.n = shell.n + 1
      BY <2>0, <3>1, <3>2
    <3>4. \A i \in 1 .. n + 1 : IF Starts(i)' THEN tape'[i].cmd # 0 ELSE tape'[i].cmd = After(i - 1)'
      BY <2>0, <2>1, <2>2, <2>3, <3>1 DEF TapeInv, Places
    <3>5. \A i \in 1 .. n + 1 : tape'[i].cmd <= shell.n + 1
      BY <2>0, <2>1, <2>a, <3>1 DEF TapeInv, Places
    <3>6. \A c \in 1 .. shell.n + 1 : \E i \in 1 .. n + 1 : Starts(i)' /\ tape'[i].cmd = c
      <4> SUFFICES ASSUME NEW c \in 1 .. shell.n + 1
                   PROVE  \E i \in 1 .. n + 1 : Starts(i)' /\ tape'[i].cmd = c
        OBVIOUS
      <4>1. CASE c = shell.n + 1
        BY <2>1, <2>2, <2>3, <3>1, <4>1
      <4>2. CASE c \in 1 .. shell.n
        BY <2>1, <2>2, <4>2 DEF TapeInv, Places
      <4>3. shell.n \in Nat
        BY <2>0
      <4> QED BY <4>1, <4>2, <4>3
    <3>7. ASSUME NEW i \in 1 .. n + 1, NEW j \in 1 .. n + 1, i < j, Starts(j)'
          PROVE  tape'[i].cmd < tape'[j].cmd
      <4>1. i \in 1 .. n /\ shell.n \in Nat /\ tape[i].cmd \in Nat /\ tape'[i] = tape[i]
        BY <2>0, <2>1, <2>a, <3>7
      <4>2. CASE j = n + 1
        BY <2>1, <3>1, <4>1, <4>2 DEF TapeInv, Places
      <4>3. CASE j \in 1 .. n
        <5>1. i \in Places /\ j \in Places /\ i < j /\ Starts(j) /\ tape'[j] = tape[j]
          BY <2>1, <2>2, <3>7, <4>1, <4>3 DEF Places
        <5> QED BY <4>1, <5>1 DEF TapeInv
      <4> QED BY <4>2, <4>3
    <3> QED BY <2>1, <2>2, <2>3, <3>1, <3>3, <3>4, <3>5, <3>6, <3>7 DEF TapeInv, Places
  <2>4. CASE x.k # "C"
    <3>1. /\ x.cmd = shell.cmd /\ shell'.n = shell.n
          /\ shell'.cmd = IF x.k \in {"e", "o"} THEN shell.cmd ELSE 0
      <4>1. x.cmd = shell.cmd
        BY <2>4 DEF Items
      <4>2. shell' = IF x.k \in {"e", "o"} THEN shell ELSE [shell EXCEPT !.cmd = 0]
        BY <1>1, <2>0, <2>4, <2>a DEF Write
      <4> QED BY <2>0, <4>1, <4>2
    <3>2. shell.cmd <= shell.n
      BY <2>0, <2>1 DEF TapeInv, After, Places
    <3>3. shell'.cmd = After(n + 1)'
      BY <2>0, <2>2, <2>4, <2>a, <3>1
    <3>4. \A i \in 1 .. n + 1 : IF Starts(i)' THEN tape'[i].cmd # 0 ELSE tape'[i].cmd = After(i - 1)'
      BY <2>0, <2>1, <2>2, <2>4, <3>1 DEF TapeInv, Places
    <3>5. \A i \in 1 .. n + 1 : tape'[i].cmd <= shell.n
      BY <2>0, <2>1, <3>1, <3>2 DEF TapeInv, Places
    <3>6. \A c \in 1 .. shell.n : \E i \in 1 .. n + 1 : Starts(i)' /\ tape'[i].cmd = c
      BY <2>1, <2>2 DEF TapeInv, Places
    <3>7. \A i, j \in 1 .. n + 1 : i < j /\ Starts(j)' => tape'[i].cmd < tape'[j].cmd
      <4>1. \A j \in 1 .. n + 1 : Starts(j)' => j \in 1 .. n /\ Starts(j)
        BY <2>2, <2>4
      <4>2. \A i, j \in 1 .. n : i < j /\ Starts(j) => tape[i].cmd < tape[j].cmd
        BY <2>1 DEF TapeInv, Places
      <4>3. ASSUME NEW i \in 1 .. n + 1, NEW j \in 1 .. n + 1, i < j, Starts(j)'
            PROVE  tape'[i].cmd < tape'[j].cmd
        <5>1. j \in 1 .. n /\ Starts(j)
          BY <4>1, <4>3
        <5>2. i \in 1 .. n
          BY <4>3, <5>1
        <5> QED BY <2>1, <4>2, <4>3, <5>1, <5>2
      <4> QED BY <4>3
    <3> QED BY <2>1, <3>1, <3>3, <3>4, <3>5, <3>6, <3>7 DEF TapeInv, Places
  <2> QED BY <2>3, <2>4
<1>2. CASE tape' = tape /\ shell'.cmd = shell.cmd /\ shell'.n = shell.n
  BY <1>2 DEF TapeInv, Places, After, Starts
<1>3. CASE ShellEnds
  <2>1. DOMAIN shell = {"cmd", "n", "over"}
    BY DEF SourceTypeOK
  <2> QED BY <1>2, <1>3, <2>1 DEF ShellEnds
<1>4. CASE \/ Parse \/ Drain \/ PaneClosed \/ Batcher \/ UNCHANGED bvars
           \/ \E i \in flying : Deliver(i)
  BY <1>2, <1>4 DEF Parse, Drain, PaneClosed, Batcher, Receive, Tick, Finalize, ProcessRawEvent, Flushed,
                    FinalizePane, Deliver, bvars, src
<1> QED BY <1>1, <1>3, <1>4 DEF BlocksNext

\* The shell writes: the parser has had no more than before.
LEMMA WriteKeepsBlobs ==
  ASSUME SourceTypeOK, TableTypeOK, TapeInv, mode = "single", InOrder, failed = <<>> => ParsedInv,
         NEW x \in Items, Write(x)
  PROVE  InOrder' /\ (failed' = <<>> => ParsedInv')
<1>n. PICK n \in Nat : n = Len(tape)
  BY DEF SourceTypeOK
<1>0. /\ tape \in Seq(TapeItems) /\ x \in TapeItems /\ tape' = Append(tape, x)
      /\ queue \in Seq(Places) /\ queue' = Append(queue, Len(tape'))
      /\ failed' = failed /\ row' = row /\ pipe' = pipe /\ ~shell.over /\ Len(row) \in Nat
      /\ flying' = flying
  BY ItemsTyped DEF Write, SourceTypeOK, TableTypeOK
<1>1. /\ Len(tape) = n /\ Len(tape') = n + 1 /\ tape'[n + 1] = x
      /\ \A i \in 1 .. n : tape'[i] = tape[i]
  BY <1>n, <1>0
<1>a. /\ Len(queue) \in Nat /\ Len(queue') = Len(queue) + 1
      /\ queue'[Len(queue) + 1] = n + 1 /\ \A i \in 1 .. Len(queue) : queue'[i] = queue[i]
  BY <1>0, <1>1
<1>b. /\ shell.n \in Nat /\ shell'.n \in Nat /\ shell'.n >= shell.n
  <2>1. shell \in [cmd : Nat, n : Nat, over : BOOLEAN]
    BY DEF SourceTypeOK
  <2>2. \/ shell' = shell \/ shell' = [shell EXCEPT !.cmd = 0]
        \/ shell' = [shell EXCEPT !.cmd = x.cmd, !.n = x.cmd] /\ x.cmd = shell.n + 1
    BY DEF Write, Items
  <2>3. shell.n \in Nat /\ DOMAIN shell = {"cmd", "n", "over"}
    BY <2>1
  <2>4. shell'.n = shell.n \/ shell'.n = shell.n + 1
    BY <2>2, <2>3
  <2> QED BY <2>3, <2>4
<1>2. Parsed \in 0 .. n /\ Parsed' = Parsed /\ InOrder'
  <2>1. /\ Parsed = n - Len(queue) /\ Parsed' = n + 1 - (Len(queue) + 1) /\ Len(queue) <= n
        /\ flying = {} /\ flying' = {} /\ \A i \in 1 .. Len(queue) : queue[i] = Parsed + i
    BY <1>0, <1>1, <1>a DEF InOrder, Parsed
  <2>2. Parsed \in 0 .. n /\ Parsed' = Parsed
    BY <1>a, <2>1
  <2> QED BY <1>1, <1>a, <2>1, <2>2 DEF InOrder
<1>3. ASSUME ParsedInv PROVE ParsedInv'
  <2>1. /\ After(Parsed)' = After(Parsed) /\ Len(row) \in Nat
        /\ \A i \in 1 .. n : Starts(i)' <=> Starts(i)
        /\ Starts(n + 1)' <=> x.k = "C"
    BY <1>0, <1>1, <1>2 DEF After, Starts
  <2>2. x.k = "C" => x.cmd > Len(row)
    <3> SUFFICES ASSUME x.k = "C" PROVE x.cmd > Len(row)
      OBVIOUS
    <3>1. x.cmd = shell.n + 1
      BY DEF Items
    <3>2. Len(row) <= shell.n
      BY <1>3 DEF ParsedInv
    <3> QED BY <1>b, <2>1, <3>1, <3>2
  <2>3. Blobs(Parsed)'
    <3>1. \A i \in 1 .. Parsed : tape'[i] = tape[i]
      BY <1>1, <1>2
    <3>2. \A b : Wrote(Parsed, b)' = Wrote(Parsed, b)
      BY <1>2, <3>1 DEF Wrote
    <3> QED BY <1>0, <1>2, <1>3, <3>2 DEF ParsedInv, Blobs, Numbers
  <2>4. \A i \in 1 .. Parsed : tape'[i].cmd <= Len(row)
    BY <1>1, <1>2, <1>3 DEF ParsedInv
  <2>5. \A i \in 1 .. n + 1 : i > Parsed /\ Starts(i)' => tape'[i].cmd > Len(row)
    BY <1>1, <1>2, <1>3, <2>1, <2>2 DEF ParsedInv, Places
  <2>6. Len(row) <= shell'.n /\ pipe.cur \in {0} \cup pipe.writers
    BY <1>0, <1>b, <1>3, <2>1 DEF ParsedInv
  <2> QED BY <1>0, <1>1, <1>2, <1>3, <2>1, <2>3, <2>4, <2>5, <2>6 DEF ParsedInv, Places, Numbers
<1> QED BY <1>0, <1>2, <1>3

\* A later item of the tape at the end of a blob.
LEMMA AppendBlob ==
  ASSUME NEW s \in Seq(Nat), NEW d \in Nat, Ascending(s), Range(s) \subseteq 1 .. d
  PROVE  Ascending(Append(s, d + 1)) /\ Range(Append(s, d + 1)) = Range(s) \cup {d + 1}
<1> DEFINE t == Append(s, d + 1)
<1>1. /\ DOMAIN s = 1 .. Len(s) /\ DOMAIN t = 1 .. Len(s) + 1 /\ Len(s) \in Nat
      /\ t[Len(s) + 1] = d + 1 /\ \A i \in 1 .. Len(s) : t[i] = s[i]
  OBVIOUS
<1> HIDE DEF t
<1>2. \A i \in 1 .. Len(s) : s[i] \in 1 .. d
  BY <1>1 DEF Range
<1>3. Ascending(t)
  BY <1>1, <1>2 DEF Ascending
<1>4. Range(t) = Range(s) \cup {d + 1}
  BY <1>1 DEF Range
<1> QED BY <1>3, <1>4 DEF t

\* The next item goes through the parser.
LEMMA ParseKeepsBlobs ==
  ASSUME SourceTypeOK, TableTypeOK, TapeInv, mode = "single", InOrder, failed = <<>> => ParsedInv, Parse
  PROVE  InOrder' /\ (failed' = <<>> => ParsedInv')
<1>0. /\ queue \in Seq(Places) /\ queue # <<>> /\ queue' = Tail(queue)
      /\ tape' = tape /\ shell' = shell /\ tape \in Seq(TapeItems) /\ flying' = flying
  BY DEF Parse, src, SourceTypeOK
<1>1. /\ Len(queue) \in Nat /\ Len(queue) >= 1 /\ Head(queue) = queue[1]
      /\ Len(queue') = Len(queue) - 1 /\ Len(tape) \in Nat
      /\ \A i \in 1 .. Len(queue') : queue'[i] = queue[i + 1]
  BY <1>0
<1>2. PICK d \in 0 .. Len(tape) - 1 : Parsed = d /\ Head(queue) = d + 1 /\ Parsed' = d + 1 /\ InOrder'
  <2>1. /\ Parsed = Len(tape) - Len(queue) /\ Parsed' = Len(tape) - (Len(queue) - 1)
        /\ Len(queue) <= Len(tape) /\ queue[1] = Parsed + 1
    BY <1>0, <1>1 DEF InOrder, Parsed
  <2>2. Parsed \in 0 .. Len(tape) - 1 /\ Parsed' = Parsed + 1
    BY <1>1, <2>1
  <2>3. InOrder'
    BY <1>0, <1>1, <2>1, <2>2 DEF InOrder
  <2> QED BY <1>1, <2>1, <2>2, <2>3
<1>x. PICK x \in TapeItems : x = tape[d + 1]
  BY <1>0, <1>1, <1>2
<1>3. d + 1 \in Places /\ Feed(d + 1)
  BY <1>1, <1>2 DEF Parse, Places
<1>4. /\ Places' = Places /\ \A i : (Starts(i)' <=> Starts(i)) /\ After(i)' = After(i)
  BY <1>0 DEF Places, Starts, After
<1>a. /\ shell.n \in Nat /\ Len(row) \in Nat /\ row \in Seq(Rows)
      /\ \A i \in Places : tape[i].cmd \in Nat
  <2>1. \A y \in TapeItems : y.cmd \in Nat
    BY DEF TapeItems
  <2>2. \A i \in Places : tape[i] \in TapeItems
    BY <1>0 DEF Places
  <2> QED BY <2>1, <2>2 DEF SourceTypeOK, TableTypeOK
<1>5. ASSUME failed' = <<>> PROVE ParsedInv'
  <2>1. failed = <<>> /\ ParsedInv
    <3>1. failed' = failed \/ \E f \in {"create", "open", "write", "finalize"} : May(f)
      <4>1. CommandStart(x) \/ OutputChunk(d + 1) \/ BlockEnd \/ Fine
        BY <1>3, <1>x DEF Feed, Escape, TapeItems
      <4> QED BY <4>1 DEF CommandStart, OutputChunk, BlockEnd, Fine
    <3>2. ASSUME NEW f \in {"create", "open", "write", "finalize"}, May(f) PROVE FALSE
      BY <1>5, <3>2, FailedGrows DEF Failed, Range
    <3> QED BY <1>5, <3>1, <3>2
  <2>2. \A f \in {"create", "open", "write", "finalize"} : ~May(f)
    BY <1>5, FailedGrows DEF Failed, Range
  <2>3. /\ d \in Nat /\ pipe.cur = After(d) /\ pipe.cur \in {0} \cup Numbers /\ DOMAIN pipe = {"cur", "known", "meta", "writers"}
        /\ pipe.cur \in {0} \cup pipe.writers /\ pipe.writers \subseteq Numbers
    BY <1>0, <1>2, <2>1 DEF ParsedInv, TableTypeOK
  <2>4. /\ \A i \in 1 .. d : tape[i].cmd <= Len(row)
        /\ \A i \in Places : i > d /\ Starts(i) => tape[i].cmd > Len(row)
        /\ Blobs(d) /\ \A b \in Numbers : row[b].cmd = b
        /\ Len(row) <= shell.n
    BY <1>2, <2>1 DEF ParsedInv
  <2>5. x.k # "C" => x.cmd = After(d)
    BY <1>2, <1>3, <1>x, <2>3 DEF TapeInv, Starts
  <2>6. After(d + 1) = IF x.k \in {"C", "e", "o"} THEN x.cmd ELSE 0
    BY <1>x, <2>3 DEF After
  <2>7. ASSUME \/ x.k \in {"A", "D"} /\ pipe'.cur = 0
               \/ x.k = "e" /\ pipe' = pipe,
               Len(row') = Len(row),
               \A b \in Numbers : row'[b].cmd = row[b].cmd /\ row'[b].blob = row[b].blob
        PROVE  ParsedInv'
    <3>1. tape[d + 1].cmd <= Len(row)
      BY <1>a, <1>x, <2>3, <2>5, <2>7 DEF Numbers
    <3>2. \A i \in 1 .. d + 1 : tape[i].cmd <= Len(row)
      BY <2>3, <2>4, <3>1
    <3>3. Blobs(d + 1)'
      <4>1. Blobs(d + 1)
        <5>1. \A b : Wrote(d + 1, b) = Wrote(d, b)
          BY <1>x, <2>3, <2>7 DEF Wrote
        <5> QED BY <2>4, <5>1 DEF Blobs
      <4>2. Numbers' = Numbers /\ \A b \in Numbers : row'[b].blob = row[b].blob
        BY <2>7 DEF Numbers
      <4>3. \A b : Wrote(d + 1, b)' = Wrote(d + 1, b)
        BY <1>0 DEF Wrote
      <4> QED BY <4>1, <4>2, <4>3 DEF Blobs
    <3>4. /\ pipe'.cur = After(d + 1)
          /\ queue' # <<>> \/ ~shell.over => pipe'.cur \in {0} \cup pipe'.writers
      BY <2>3, <2>5, <2>6, <2>7
    <3>5. \A i \in Places : i > d + 1 /\ Starts(i) => tape[i].cmd > Len(row)
      BY <2>3, <2>4 DEF Places
    <3> QED BY <1>0, <1>2, <1>4, <2>4, <2>7, <3>2, <3>3, <3>4, <3>5 DEF ParsedInv, Numbers
  <2>8. CASE x.k = "A"
    <3>1. pipe' = Prompt(pipe) /\ row' = row
      BY <1>3, <1>x, <2>8 DEF Feed
    <3> QED BY <2>3, <2>7, <2>8, <3>1 DEF Prompt
  <2>e. CASE x.k = "e"
    <3>1. pipe' = pipe /\ row' = row
      BY <1>3, <1>x, <2>e DEF Feed, Escape
    <3> QED BY <2>7, <2>e, <3>1
  <2>9. CASE x.k = "D"
    <3>1. BlockEnd
      BY <1>3, <1>x, <2>9 DEF Feed
    <3>2. CASE pipe.cur = 0
      BY <2>7, <2>9, <3>1, <3>2 DEF BlockEnd
    <3>3. CASE pipe.cur # 0
      <4>1. /\ pipe' = [pipe EXCEPT !.cur = 0, !.meta = @ \ {pipe.cur}, !.writers = @ \ {pipe.cur}]
            /\ row' = [row EXCEPT ![pipe.cur] = Ended(row[pipe.cur])]
        BY <2>2, <3>1, <3>3 DEF BlockEnd
      <4>2. \A r \in Rows : Ended(r) \in Rows /\ Ended(r).cmd = r.cmd /\ Ended(r).blob = r.blob
        BY DEF Ended, Rows
      <4>3. pipe.cur \in 1 .. Len(row) /\ row[pipe.cur] \in Rows
        BY <1>a, <2>3, <3>3 DEF Numbers
      <4>4. Len(row') = Len(row) /\ \A b \in Numbers : row'[b].cmd = row[b].cmd /\ row'[b].blob = row[b].blob
        BY <1>a, <4>1, <4>2, <4>3 DEF Numbers
      <4>5. pipe'.cur = 0
        BY <2>3, <4>1
      <4> QED BY <2>7, <2>9, <4>4, <4>5
    <3> QED BY <3>2, <3>3
  <2>10. CASE x.k = "C"
    <3> DEFINE new == CreateBlock(x, Len(row) + 1 \in pipe'.meta)
    <3>1. /\ pipe' = [pipe EXCEPT !.cur = Len(row) + 1, !.meta = @ \cup {Len(row) + 1}, !.writers = @ \cup {Len(row) + 1}]
          /\ row' = Append(row, new)
      BY <1>3, <1>x, <2>2, <2>10 DEF Feed, CommandStart
    <3>2. new.cmd = x.cmd /\ new.blob = <<>>
      BY DEF CreateBlock
    <3> HIDE DEF new
    <3>3. pipe'.cur = Len(row) + 1 /\ pipe'.cur \in pipe'.writers
      BY <2>3, <3>1
    <3>4. /\ Len(row') = Len(row) + 1 /\ row'[Len(row) + 1] = new
          /\ \A b \in 1 .. Len(row) : row'[b] = row[b]
      BY <1>a, <3>1
    <3>5. x.cmd = Len(row) + 1 /\ x.cmd <= shell.n
      <4>1. x.cmd > Len(row) /\ x.cmd <= shell.n /\ x.cmd \in Nat
        BY <1>3, <1>a, <1>x, <2>3, <2>4, <2>10 DEF TapeInv, Starts
      <4>2. ASSUME x.cmd > Len(row) + 1 PROVE FALSE
        <5>1. x.cmd - 1 \in 1 .. shell.n
          BY <1>a, <4>1, <4>2
        <5>2. PICK j \in Places : Starts(j) /\ tape[j].cmd = x.cmd - 1
          BY <5>1 DEF TapeInv
        <5>3. j > d
          BY <1>a, <2>3, <2>4, <4>1, <4>2, <5>2 DEF Places
        <5>4. j # d + 1
          BY <1>x, <4>1, <5>2
        <5>5. d + 1 < j
          BY <2>3, <5>3, <5>4 DEF Places
        <5>6. tape[d + 1].cmd < tape[j].cmd
          BY <1>3, <5>2, <5>5 DEF TapeInv
        <5> QED BY <1>x, <4>1, <5>2, <5>6
      <4> QED BY <1>a, <4>1, <4>2
    <3>6. \A i \in 1 .. d + 1 : tape[i].cmd <= Len(row) + 1
      <4>1. \A i \in 1 .. d : i \in Places
        BY <1>1, <1>2, <2>3 DEF Places
      <4> QED BY <1>a, <1>x, <2>3, <2>4, <3>5, <4>1
    <3>7. \A i \in Places : i > d + 1 /\ Starts(i) => tape[i].cmd > Len(row) + 1
      BY <1>3, <1>x, <3>5 DEF TapeInv
    <3>8. Blobs(d + 1)'
      <4> SUFFICES ASSUME NEW b \in 1 .. Len(row) + 1
                   PROVE  /\ Ascending(row'[b].blob)
                          /\ Range(row'[b].blob) = {i \in 1 .. d + 1 : tape[i].k = "o" /\ tape[i].cmd = b}
        BY <1>0, <3>4 DEF Blobs, Wrote, Numbers
      <4>1. CASE b \in 1 .. Len(row)
        <5>1. /\ row'[b] = row[b] /\ Ascending(row[b].blob)
              /\ Range(row[b].blob) = {i \in 1 .. d : tape[i].k = "o" /\ tape[i].cmd = b}
          BY <2>4, <3>4, <4>1 DEF Blobs, Wrote, Numbers
        <5>2. tape[d + 1].k # "o"
          BY <1>x, <2>10
        <5> QED BY <2>3, <5>1, <5>2
      <4>2. CASE b = Len(row) + 1
        <5>1. row'[b].blob = <<>>
          BY <3>2, <3>4, <4>2
        <5>2. Ascending(<<>>) /\ Range(<<>>) = {}
          BY DEF Ascending, Range
        <5>3. ~\E i \in 1 .. d + 1 : tape[i].k = "o" /\ tape[i].cmd = b
          <6>1. \A i \in 1 .. d : tape[i].cmd # b
            <7>1. \A i \in 1 .. d : tape[i].cmd \in Nat
              BY <1>1, <1>2, <1>a DEF Places
            <7> QED BY <1>a, <2>4, <4>2, <7>1
          <6> QED BY <1>x, <2>3, <2>10, <6>1
        <5> QED BY <5>1, <5>2, <5>3
      <4> QED BY <1>a, <4>1, <4>2
    <3>9. \A b \in 1 .. Len(row) + 1 : row'[b].cmd = b
      BY <1>a, <2>4, <3>2, <3>4, <3>5 DEF Numbers
    <3>10. pipe'.cur = After(d + 1)
      BY <2>6, <2>10, <3>3, <3>5
    <3> QED BY <1>0, <1>2, <1>4, <1>a, <3>3, <3>4, <3>5, <3>6, <3>7, <3>8, <3>9, <3>10 DEF ParsedInv, Numbers
  <2>11. CASE x.k = "o"
    <3>1. OutputChunk(d + 1)
      BY <1>3, <1>x, <2>11 DEF Feed
    <3>2. x.cmd = pipe.cur /\ After(d + 1) = pipe.cur
      BY <2>3, <2>5, <2>6, <2>11
    <3>3. pipe' = pipe
      BY <2>2, <3>1 DEF OutputChunk
    <3>4. \A i \in 1 .. d + 1 : tape[i].cmd <= Len(row)
      <4>1. tape[d + 1].cmd <= Len(row)
        BY <1>a, <1>x, <2>3, <3>2 DEF Numbers
      <4> QED BY <2>3, <2>4, <4>1
    <3>5. \A i \in Places : i > d + 1 /\ Starts(i) => tape[i].cmd > Len(row)
      BY <2>3, <2>4 DEF Places
    <3>6. Len(row') = Len(row) /\ (\A b \in Numbers : row'[b].cmd = row[b].cmd) /\ Blobs(d + 1)'
      <4>1. CASE pipe.cur = 0
        <5>1. row' = row
          BY <2>3, <3>1, <4>1 DEF OutputChunk, Numbers
        <5>2. Blobs(d + 1)
          <6>1. \A b \in Numbers : Wrote(d + 1, b) = Wrote(d, b)
            BY <1>x, <2>3, <3>2, <4>1 DEF Wrote, Numbers
          <6> QED BY <2>4, <6>1 DEF Blobs
        <5>3. \A b : Wrote(d + 1, b)' = Wrote(d + 1, b)
          BY <1>0 DEF Wrote
        <5> QED BY <5>1, <5>2, <5>3 DEF Blobs, Numbers
      <4>2. CASE pipe.cur # 0
        <5> DEFINE c == pipe.cur
                   new == [row[c] EXCEPT !.blob = Append(row[c].blob, d + 1)]
        <5>1. c \in Numbers /\ c \in pipe.writers /\ row[c] \in Rows
          BY <1>a, <2>3, <4>2 DEF Numbers
        <5>2. row' = [row EXCEPT ![c] = new]
          BY <2>2, <3>1, <5>1 DEF OutputChunk, BlobWrite
        <5>3. new \in Rows /\ new.cmd = row[c].cmd /\ new.blob = Append(row[c].blob, d + 1) /\ row[c].blob \in Seq(Nat)
          <6>1. Append(row[c].blob, d + 1) \in Seq(Nat) /\ row[c].blob \in Seq(Nat)
            BY <2>3, <5>1 DEF Rows
          <6> QED BY <5>1, <6>1 DEF Rows
        <5> HIDE DEF new
        <5>4. /\ Len(row') = Len(row) /\ row'[c] = new
              /\ \A b \in Numbers \ {c} : row'[b] = row[b]
          BY <1>a, <5>1, <5>2, <5>3 DEF Numbers
        <5> HIDE DEF c
        <5>5. /\ Ascending(row[c].blob)
              /\ Range(row[c].blob) = Wrote(d, c)
          BY <2>4, <5>1 DEF Blobs
        <5>6. Ascending(new.blob) /\ Range(new.blob) = Range(row[c].blob) \cup {d + 1}
          <6>1. Wrote(d, c) \subseteq 1 .. d
            BY DEF Wrote
          <6> QED BY <2>3, <5>3, <5>5, <6>1, AppendBlob
        <5>7. Range(new.blob) = Wrote(d + 1, c)
          <6>1. Wrote(d + 1, c) = Wrote(d, c) \cup {d + 1}
            BY <1>x, <2>3, <2>11, <3>2 DEF Wrote, c
          <6> QED BY <5>5, <5>6, <6>1
        <5>8. \A b \in Numbers \ {c} : Ascending(row[b].blob) /\ Range(row[b].blob) = Wrote(d + 1, b)
          <6>1. \A b \in Numbers \ {c} : Wrote(d + 1, b) = Wrote(d, b)
            BY <1>x, <2>3, <3>2 DEF Wrote, c
          <6> QED BY <2>4, <6>1 DEF Blobs
        <5>9. Blobs(d + 1)'
          <6>1. \A b : Wrote(d + 1, b)' = Wrote(d + 1, b)
            BY <1>0 DEF Wrote
          <6> QED BY <1>0, <5>4, <5>6, <5>7, <5>8, <6>1 DEF Blobs, Numbers
        <5> QED BY <5>3, <5>4, <5>9
      <4> QED BY <4>1, <4>2
    <3> QED BY <1>0, <1>2, <1>4, <2>3, <2>4, <3>2, <3>3, <3>4, <3>5, <3>6 DEF ParsedInv, Numbers
  <2> QED BY <2>8, <2>e, <2>9, <2>10, <2>11 DEF TapeItems
<1> QED BY <1>2, <1>5

\* The parser knows the blocks by the numbers of their commands, and every blob is
\* all the text that its command wrote up to there.
THEOREM BlobsSound == BlocksSpec => []BlobInv
<1>1. BlocksInit => BlobInv
  <2> SUFFICES ASSUME BlocksInit PROVE BlobInv
    OBVIOUS
  <2>1. /\ tape = <<>> /\ queue = <<>> /\ row = <<>> /\ Len(tape) = 0 /\ Len(queue) = 0 /\ Len(row) = 0
        /\ shell.n = 0 /\ shell.cmd = 0 /\ pipe.cur = 0 /\ flying = {}
    BY DEF BlocksInit
  <2>2. After(0) = 0 /\ Parsed = 0
    BY <2>1 DEF After, Parsed
  <2>3. TapeInv
    BY <2>1, <2>2 DEF TapeInv, Places
  <2> QED BY <2>1, <2>2, <2>3 DEF BlobInv, InOrder, ParsedInv, Blobs, Numbers, Places
<1>2. BlocksInv /\ BlobInv /\ [BlocksNext]_bvars => BlobInv'
  <2> SUFFICES ASSUME BlocksInv, BlobInv, [BlocksNext]_bvars PROVE BlobInv'
    OBVIOUS
  <2>a. ASSUME \/ (\E x \in Items : Write(x)) \/ (\E i \in flying : Deliver(i))
               \/ ShellEnds \/ Parse \/ Drain
        PROVE  mode' = mode
    BY <2>a DEF Write, ShellEnds, Parse, Drain, Deliver, src
  <2>b. ASSUME PaneClosed \/ Batcher \/ UNCHANGED bvars PROVE mode' = mode
    BY <2>b DEF PaneClosed, Batcher, Receive, Tick, Finalize, ProcessRawEvent, Flushed, FinalizePane, bvars, src
  <2>c. mode' = mode /\ TapeInv'
    BY <2>a, <2>b, TapeStep DEF BlocksNext, BlocksInv, BlobInv
  <2> SUFFICES ASSUME mode = "single" PROVE InOrder' /\ (failed' = <<>> => ParsedInv')
    BY <2>c DEF BlobInv
  <2>1. InOrder /\ (failed = <<>> => ParsedInv) /\ TapeInv /\ SourceTypeOK /\ TableTypeOK
    BY DEF BlobInv, BlocksInv
  <2>2. ASSUME NEW x \in Items, Write(x) PROVE InOrder' /\ (failed' = <<>> => ParsedInv')
    BY <2>1, <2>2, WriteKeepsBlobs
  <2>3. CASE Parse
    BY <2>1, <2>3, ParseKeepsBlobs
  <2>4. CASE ShellEnds
    <3>1. /\ UNCHANGED <<tape, queue, row, pipe, failed, flying>> /\ shell' = [shell EXCEPT !.over = TRUE]
          /\ ~shell.over /\ DOMAIN shell = {"cmd", "n", "over"}
      BY <2>1, <2>4 DEF ShellEnds, SourceTypeOK
    <3>2. shell'.n = shell.n
      BY <3>1
    <3> QED BY <2>1, <3>1, <3>2 DEF InOrder, ParsedInv, Parsed, After, Blobs, Wrote, Numbers, Places, Starts
  <2>5. CASE Drain
    <3>0. PICK lost \in SUBSET pipe.writers :
            /\ IF lost = {} THEN Fine ELSE May("finalize")
            /\ row' = [b \in DOMAIN row |-> IF b \in pipe.writers \ lost THEN Ended(row[b]) ELSE row[b]]
      BY <2>5 DEF Drain
    <3>1. /\ UNCHANGED <<tape, queue, flying, shell>> /\ shell.over /\ queue = <<>>
          /\ pipe' = [pipe EXCEPT !.writers = {}]
      BY <2>5 DEF Drain, src
    <3>2. pipe'.cur = pipe.cur /\ row \in Seq(Rows)
      BY <2>1, <3>1 DEF TableTypeOK
    <3>3. \A r \in Rows : Ended(r) \in Rows /\ Ended(r).cmd = r.cmd /\ Ended(r).blob = r.blob
      BY DEF Ended, Rows
    <3>4. /\ Len(row) \in Nat /\ DOMAIN row = 1 .. Len(row) /\ \A b \in 1 .. Len(row) : row[b] \in Rows
      BY <3>2
    <3>5. row' \in Seq(Rows) /\ Len(row') = Len(row)
      BY <3>0, <3>3, <3>4
    <3>6. Numbers' = Numbers /\ \A b \in Numbers : row'[b].cmd = row[b].cmd /\ row'[b].blob = row[b].blob
      BY <3>0, <3>3, <3>4, <3>5 DEF Numbers
    <3>7. InOrder'
      BY <2>1, <3>1 DEF InOrder, Parsed
    <3>8. ASSUME ParsedInv PROVE ParsedInv'
      <4>1. /\ Parsed' = Parsed /\ Places' = Places /\ After(Parsed)' = After(Parsed)
            /\ \A i : Starts(i)' <=> Starts(i)
        BY <3>1 DEF Parsed, Places, After, Starts
      <4>2. Blobs(Parsed)'
        BY <3>1, <3>6, <3>8, <4>1 DEF ParsedInv, Blobs, Wrote
      <4> QED BY <3>1, <3>2, <3>5, <3>6, <3>8, <4>1, <4>2 DEF ParsedInv
    <3>9. failed' = <<>> => failed = <<>>
      BY <2>1, <3>0, FailedGrows DEF Fine, Failed, Range
    <3> QED BY <2>1, <3>7, <3>8, <3>9
  <2>6. CASE UNCHANGED bvars
    BY <2>1, <2>6 DEF bvars, InOrder, ParsedInv, Parsed, After, Blobs, Wrote, Numbers, Places, Starts
  <2>7. ASSUME NEW i \in flying, Deliver(i) PROVE FALSE
    BY <2>1, <2>7 DEF InOrder
  <2>8. ~PaneClosed /\ ~Batcher
    BY DEF PaneClosed, Batcher, Receive, Tick, Finalize, Select, ProcessRawEvent, Flushed, FinalizePane,
           BlocksInv, TableInv, BatchesInWorker
  <2> QED BY <2>2, <2>3, <2>4, <2>5, <2>6, <2>7, <2>8 DEF BlocksNext
<1> QED BY <1>1, <1>2, TableSound, PTL DEF BlocksSpec

\* The blob of a block is the text of its command, in its order and complete up to
\* what waits in the parse channel, without the escape sequences (BlockMachine and
\* the parser task of pty.rs).
THEOREM BlobsComplete == BlocksSpec => []BlobIsOutput
<1>1. BlocksInv /\ BlobInv => BlobIsOutput
  <2> SUFFICES ASSUME BlocksInv, BlobInv, mode = "single", failed = <<>>, NEW b \in DOMAIN row
               PROVE  Ascending(row[b].blob) /\ Range(row[b].blob) = Printed(row[b].cmd) \ Range(queue)
    BY DEF BlobIsOutput
  <2>1. /\ tape \in Seq(TapeItems) /\ queue \in Seq(Places) /\ InOrder /\ ParsedInv /\ b \in Numbers
    BY DEF BlocksInv, BlobInv, SourceTypeOK, TableTypeOK, Numbers
  <2>2. row[b].cmd = b /\ Ascending(row[b].blob)
        /\ Range(row[b].blob) = {i \in 1 .. Parsed : tape[i].k = "o" /\ tape[i].cmd = b}
    BY <2>1 DEF ParsedInv, Blobs, Wrote
  <2>3. /\ Len(tape) \in Nat /\ Len(queue) \in Nat /\ DOMAIN queue = 1 .. Len(queue)
        /\ DOMAIN tape = 1 .. Len(tape) /\ \A i \in 1 .. Len(tape) : tape[i] \in TapeItems
    BY <2>1
  <2>4. Parsed \in 0 .. Len(tape) /\ Parsed + Len(queue) = Len(tape)
    BY <2>1, <2>3 DEF InOrder, Parsed
  <2>5. \A i \in 1 .. Len(tape) : i \in Range(queue) <=> i > Parsed
    <3> SUFFICES ASSUME NEW i \in 1 .. Len(tape) PROVE i \in Range(queue) <=> i > Parsed
      OBVIOUS
    <3>1. ASSUME i > Parsed PROVE i \in Range(queue)
      <4>1. i - Parsed \in 1 .. Len(queue)
        BY <2>3, <2>4, <3>1
      <4>2. queue[i - Parsed] = i
        BY <2>1, <2>3, <2>4, <4>1 DEF InOrder
      <4> QED BY <2>3, <4>1, <4>2 DEF Range
    <3>2. ASSUME i \in Range(queue) PROVE i > Parsed
      BY <2>1, <2>3, <2>4, <3>2 DEF InOrder, Range
    <3> QED BY <3>1, <3>2
  <2>6. \A y \in TapeItems : y = [k |-> "o", cmd |-> b] <=> y.k = "o" /\ y.cmd = b
    BY DEF TapeItems
  <2>7. Printed(b) \ Range(queue) = {i \in 1 .. Parsed : tape[i].k = "o" /\ tape[i].cmd = b}
    BY <2>3, <2>4, <2>5, <2>6 DEF Printed
  <2> QED BY <2>2, <2>7
<1> QED BY <1>1, TableSound, BlobsSound, PTL

-----------------------------------------------------------------------------
(* The state tracker of the single daemon (PaneState): for any idle
   thresholds with the order that state.rs gives them. *)

\* The states a tracker can have, what it knows of the foreground, and a report.
States  == Reports \cup {"Running", "WaitingInput", "Idle", "Interactive", "Done", "Crashed"}
Fgs     == Foregrounds \cup {"shell"}
Report  == [state : Reports, left : Nat]

\* The process, the channel and the tracker keep their types; an age stops where
\* no rule distinguishes it any more.
TrackerType ==
  [state : States, seen : BOOLEAN, out : Nat, dAge : Nat \cup {Nothing}, after : BOOLEAN,
   marker : Reads \cup {Nothing}, fg : Fgs \cup {Nothing}, agent : Fgs \cup {Nothing},
   over : Report \cup {Nothing}]
StateTypeOK ==
  /\ proc \in [alive : BOOLEAN, fg : Fgs]
  /\ quiet \in Nat
  /\ inHand \in Reads \cup {Nothing}
  /\ parseq \in Seq(Reads)
  /\ trk \in TrackerType

\* last_output_at is the time of the last output: the reader thread of the single
\* daemon touches the tracker with every read, before the parser has the bytes.
OutputIsCurrent == trk.out = quiet

\* A block end that no later output has overtaken is at most the grace period
\* older than the last output, however late the parser task pushed the marker.
BlockEndIsRecent ==
  trk.dAge # Nothing => /\ trk.dAge <= BlockIdle + 1
                        /\ ~trk.after => trk.dAge <= quiet + Grace

StateInv ==
  host = "single" /\ StateTypeOK /\ OutputIsCurrent /\ BlockEndIsRecent

\* What the operators of the tracker return.
LEMMA ApplyType ==
  ASSUME NEW t \in TrackerType, NEW k \in States
  PROVE  /\ Apply(t, k) \in TrackerType
         /\ Apply(t, k).state = k /\ Apply(t, k).over = t.over
         /\ Apply(t, k).out = t.out /\ Apply(t, k).dAge = t.dAge
         /\ Apply(t, k).after = t.after
BY DEF Apply, TrackerType

LEMMA HeuristicType ==
  ASSUME StateTypeOK, NEW t \in TrackerType
  PROVE  Heuristic(t) \in States
BY DEF Heuristic, States, StateTypeOK

LEMMA EvaluateType ==
  ASSUME StateTypeOK, NEW t \in TrackerType
  PROVE  /\ Evaluate(t) \in TrackerType
         /\ Evaluate(t).out = t.out /\ Evaluate(t).dAge = t.dAge /\ Evaluate(t).after = t.after
<1> DEFINE u == [t EXCEPT !.over = Nothing]
<1>1. u \in TrackerType /\ u.out = t.out /\ u.dAge = t.dAge /\ u.after = t.after
  BY DEF TrackerType
<1> HIDE DEF u
<1>2. CASE t.over # Nothing /\ t.over.left > 0
  <2>1. t.over.state \in States
    BY <1>2 DEF TrackerType, Report, States
  <2> QED BY <1>2, <2>1, ApplyType DEF Evaluate
<1>3. CASE ~(t.over # Nothing /\ t.over.left > 0)
  <2>1. Evaluate(t) = Apply(u, Heuristic(u))
    BY <1>3 DEF Evaluate, u
  <2>2. Heuristic(u) \in States
    BY <1>1, HeuristicType
  <2>3. u.out = t.out /\ u.dAge = t.dAge /\ u.after = t.after /\ u \in TrackerType
    BY <1>1
  <2> QED BY <2>1, <2>2, <2>3, ApplyType
<1> QED BY <1>2, <1>3

LEMMA InspectType ==
  ASSUME StateTypeOK
  PROVE  /\ Inspect(trk) \in TrackerType
         /\ Inspect(trk).out = trk.out /\ Inspect(trk).dAge = trk.dAge
         /\ Inspect(trk).after = trk.after
BY DEF Inspect, StateTypeOK, TrackerType

\* Every step of the threads, the engine, the clients and the clock keeps the
\* invariant.
LEMMA StateStep ==
  ASSUME StateInv, [StateNext]_pvars
  PROVE  StateInv'
<1>0. host = "single" /\ StateTypeOK /\ OutputIsCurrent /\ BlockEndIsRecent
  BY DEF StateInv
<1>a. trk \in TrackerType /\ quiet \in Nat /\ parseq \in Seq(Reads)
  BY <1>0 DEF StateTypeOK
<1>b. /\ {ShellIdle, AgentIdle, BlockIdle, Grace, Window} \subseteq Nat
      /\ ShellIdle + Grace < BlockIdle /\ BlockIdle < AgentIdle
  BY TimeAssumption
<1>1. ASSUME NEW c \in Reads, Read(c) PROVE StateInv'
  <2>1. /\ quiet' = 0 /\ host' = host /\ inHand' = c /\ proc' = proc /\ parseq' = parseq
        /\ trk' = TouchOutput(trk)
    BY <1>0, <1>1 DEF Read
  <2>2. /\ trk' \in TrackerType
        /\ trk'.out = 0 /\ trk'.dAge = trk.dAge
        /\ trk.dAge # Nothing /\ ~trk'.after => ~(trk.dAge >= Grace)
    BY <1>a, <2>1 DEF TouchOutput, TrackerType
  <2>3. StateTypeOK'
    BY <1>0, <2>1, <2>2 DEF StateTypeOK
  <2>4. trk.dAge \in Nat \cup {Nothing}
    BY <1>a DEF TrackerType
  <2>5. BlockEndIsRecent'
    BY <1>0, <1>b, <2>1, <2>2, <2>4 DEF BlockEndIsRecent
  <2> QED BY <1>0, <2>1, <2>2, <2>3, <2>5 DEF StateInv, OutputIsCurrent
<1>2. CASE Send
  BY <1>0, <1>2 DEF Send, StateInv, StateTypeOK, OutputIsCurrent, BlockEndIsRecent
<1>3. CASE ParseMarker
  <2>1. /\ Head(parseq) \in Reads /\ parseq' \in Seq(Reads)
        /\ UNCHANGED <<host, proc, quiet, inHand>>
    BY <1>a, <1>3 DEF ParseMarker
  <2>2. CASE trk' = trk
    BY <1>0, <2>1, <2>2 DEF StateInv, StateTypeOK, OutputIsCurrent, BlockEndIsRecent
  <2>3. CASE trk' = PushMarker(trk, Head(parseq))
    <3>1. CASE Head(parseq) \in {"D0", "D1"}
      <4>1. trk' \in TrackerType /\ trk'.out = trk.out /\ trk'.dAge = 0 /\ trk'.after = FALSE
        BY <1>a, <2>1, <2>3, <3>1 DEF PushMarker, TrackerType
      <4> QED BY <1>0, <1>a, <1>b, <2>1, <4>1
              DEF StateInv, StateTypeOK, OutputIsCurrent, BlockEndIsRecent
    <3>2. CASE Head(parseq) \notin {"D0", "D1"}
      <4>1. /\ trk' \in TrackerType /\ trk'.out = trk.out /\ trk'.dAge = trk.dAge
            /\ trk'.after = trk.after
        BY <1>a, <2>1, <2>3, <3>2 DEF PushMarker, TrackerType
      <4> QED BY <1>0, <2>1, <4>1 DEF StateInv, StateTypeOK, OutputIsCurrent, BlockEndIsRecent
    <3> QED BY <3>1, <3>2
  <2> QED BY <1>3, <2>2, <2>3 DEF ParseMarker
<1>4. ASSUME NEW f \in Foregrounds, Foreground(f) PROVE StateInv'
  BY <1>0, <1>4 DEF Foreground, Fgs, StateInv, StateTypeOK, OutputIsCurrent, BlockEndIsRecent
<1>5. CASE Exit
  BY <1>0, <1>5 DEF Exit, StateInv, StateTypeOK, OutputIsCurrent, BlockEndIsRecent
<1>6. ASSUME NEW k \in Reports, SetPaneState(k) PROVE StateInv'
  <2>1. [state |-> k, left |-> Window] \in Report
    BY <1>b DEF Report
  <2>2. /\ trk' \in TrackerType /\ trk'.out = trk.out /\ trk'.dAge = trk.dAge
        /\ trk'.after = trk.after
    BY <1>a, <1>6, <2>1 DEF SetPaneState, TrackerType
  <2> QED BY <1>0, <1>6, <2>2
          DEF SetPaneState, StateInv, StateTypeOK, OutputIsCurrent, BlockEndIsRecent
<1>7. CASE MarkPaneSeen
  <2>1. /\ trk' \in TrackerType /\ trk'.out = trk.out /\ trk'.dAge = trk.dAge
        /\ trk'.after = trk.after
    BY <1>a, <1>7 DEF MarkPaneSeen, TrackerType
  <2> QED BY <1>0, <1>7, <2>1
          DEF MarkPaneSeen, StateInv, StateTypeOK, OutputIsCurrent, BlockEndIsRecent
<1>8. CASE EngineTick
  <2>1. /\ trk' \in TrackerType /\ trk'.out = trk.out /\ trk'.dAge = trk.dAge
        /\ trk'.after = trk.after
    BY <1>0, <1>8, InspectType, EvaluateType DEF EngineTick
  <2> QED BY <1>0, <1>8, <2>1 DEF EngineTick, StateInv, StateTypeOK, OutputIsCurrent, BlockEndIsRecent
<1>9. CASE Second
  <2> DEFINE o == Expire(trk.over)
             d == IF trk.dAge = Nothing THEN Nothing ELSE Later(trk.dAge, BlockIdle + 1)
  <2>1. o \in Report \cup {Nothing}
    <3>1. trk.over \in Report \cup {Nothing}
      BY <1>a DEF TrackerType
    <3> QED BY <3>1 DEF Report, Expire
  <2>2. d \in Nat \cup {Nothing} /\ Later(trk.out, AgentIdle + 1) \in Nat
    BY <1>a, <1>b DEF TrackerType, Later
  <2>3. trk' = [trk EXCEPT !.out = Later(trk.out, AgentIdle + 1), !.dAge = d, !.over = o]
    BY <1>a, <1>9 DEF Second, TrackerType
  <2> HIDE DEF o, d
  <2>4. /\ trk' \in TrackerType /\ trk'.out = Later(trk.out, AgentIdle + 1)
        /\ trk'.dAge = d /\ trk'.after = trk.after
    BY <1>a, <2>1, <2>2, <2>3 DEF TrackerType
  <2>5. quiet' = Later(quiet, AgentIdle + 1) /\ quiet' \in Nat
        /\ UNCHANGED <<host, proc, inHand, parseq>>
    BY <1>a, <1>b, <1>9 DEF Second, Later
  <2>6. BlockEndIsRecent'
    BY SMTT(20), <1>0, <1>a, <1>b, <2>4, <2>5 DEF d, BlockEndIsRecent, Later, TrackerType
  <2> QED BY <1>0, <2>4, <2>5, <2>6 DEF StateInv, StateTypeOK, OutputIsCurrent
<1>10. CASE UNCHANGED pvars
  BY <1>0, <1>10 DEF pvars, StateInv, StateTypeOK, OutputIsCurrent, BlockEndIsRecent
<1> QED BY <1>1, <1>2, <1>3, <1>4, <1>5, <1>6, <1>7, <1>8, <1>9, <1>10 DEF StateNext

\* A tick finds what the rules say of the last output and the last block end: a
\* pane that wrote within ShellIdle is neither waiting nor idle.
LEMMA TickOnActive ==
  ASSUME StateInv, EngineTick, quiet <= ShellIdle, trk'.over = Nothing
  PROVE  trk'.state \notin {"WaitingInput", "Idle"}
<1> DEFINE t == Inspect(trk)
           u == [t EXCEPT !.over = Nothing]
<1>0. StateTypeOK /\ OutputIsCurrent /\ BlockEndIsRecent /\ quiet \in Nat /\ trk \in TrackerType
  BY DEF StateInv, StateTypeOK
<1>1. t \in TrackerType /\ t.out = trk.out /\ t.dAge = trk.dAge /\ t.after = trk.after
  BY <1>0, InspectType
<1> HIDE DEF t
<1>2. u \in TrackerType /\ u.out = trk.out /\ u.dAge = trk.dAge /\ u.after = trk.after
  BY <1>1 DEF TrackerType
<1> HIDE DEF u
<1>3. ~(t.over # Nothing /\ t.over.left > 0)
  <2> SUFFICES ASSUME t.over # Nothing, t.over.left > 0 PROVE FALSE
    OBVIOUS
  <2>1. t.over.state \in States
    BY <1>1 DEF TrackerType, Report, States
  <2>2. trk' = Apply(t, t.over.state)
    BY DEF EngineTick, Evaluate, t
  <2> QED BY <1>1, <2>1, <2>2, ApplyType
<1>4. trk' = Apply(u, Heuristic(u))
  BY <1>3 DEF EngineTick, Evaluate, t, u
<1>5. trk'.state = Heuristic(u)
  BY <1>0, <1>2, <1>4, ApplyType, HeuristicType
<1>6. /\ ~(u.out > ShellIdle) /\ ~(u.out > AgentIdle)
      /\ ~(u.dAge # Nothing /\ u.dAge > BlockIdle /\ ~u.after)
  BY <1>0, <1>2, TimeAssumption DEF OutputIsCurrent, BlockEndIsRecent, TrackerType
<1> QED BY <1>0, <1>5, <1>6 DEF Heuristic, StateTypeOK

\* The engine of the single daemon never finds a pane waiting or idle that wrote
\* something within the shell's idle threshold, unless its client said so:
\* whatever the pane writes, however long the parse channel is and whatever
\* thresholds are configured in the order of state.rs.
THEOREM ActiveIsRunning == StateSpec /\ host = "single" => ActiveNotWaiting
<1>1. StateInit /\ host = "single" => StateInv
  BY DEF StateInit, StateInv, StateTypeOK, TrackerType, States, Fgs, OutputIsCurrent, BlockEndIsRecent
<1>2. StateInv /\ [StateNext]_pvars => StateInv'
  BY StateStep
<1>3. StateInv /\ [StateNext]_pvars =>
        [EngineTick /\ quiet <= ShellIdle /\ trk'.over = Nothing
           => trk'.state \notin {"WaitingInput", "Idle"}]_pvars
  BY TickOnActive
<1> QED BY <1>1, <1>2, <1>3, PTL DEF StateSpec, ActiveNotWaiting

-----------------------------------------------------------------------------
(* The replay buffer (RingBuf): for any capacity and any pushes. *)

\* The states of the buffer, and where its i-th byte is, counted from the oldest.
Rings == {r \in [buf : [0 .. Cap - 1 -> Byte], head : Nat, len : Nat] :
            r.len <= Cap /\ (Cap # 0 => r.head < Cap) /\ (Cap = 0 => r.head = 0)}
Place(r, i) == IF r.head + i < Cap THEN r.head + i ELSE r.head + i - Cap

\* An index that went around at most once.
LEMMA ModOnce ==
  ASSUME NEW a \in Nat, NEW b \in Nat \ {0}, a < 2 * b
  PROVE  a % b = IF a < b THEN a ELSE a - b
OBVIOUS

\* The bytes in use are in the buffer.
LEMMA RingFacts ==
  ASSUME NEW r \in Rings
  PROVE  /\ r \in [buf : [0 .. Cap - 1 -> Byte], head : Nat, len : Nat]
         /\ Cap \in Nat /\ r.head \in Nat /\ r.len \in 0 .. Cap /\ r.buf \in [0 .. Cap - 1 -> Byte]
         /\ (Cap # 0 => r.head \in 0 .. Cap - 1) /\ (Cap = 0 => r.head = 0)
         /\ \A i \in 1 .. r.len : Place(r, i - 1) \in 0 .. Cap - 1 /\ r.buf[Place(r, i - 1)] \in Byte
<1>1. /\ r \in [buf : [0 .. Cap - 1 -> Byte], head : Nat, len : Nat]
      /\ r.len <= Cap /\ (Cap # 0 => r.head < Cap) /\ (Cap = 0 => r.head = 0) /\ Cap \in Nat
  BY RingAssumption DEF Rings
<1>2. r.head \in Nat /\ r.len \in Nat /\ r.buf \in [0 .. Cap - 1 -> Byte]
  BY <1>1
<1>3. ASSUME NEW i \in 1 .. r.len PROVE Place(r, i - 1) \in 0 .. Cap - 1
  BY <1>1, <1>2, <1>3 DEF Place
<1> QED BY <1>1, <1>2, <1>3

\* A function on 1 .. n is a sequence.
LEMMA SeqIsFun ==
  ASSUME NEW S, NEW n \in Nat, NEW f, f = [i \in 1 .. n |-> f[i]], \A i \in 1 .. n : f[i] \in S
  PROVE  f \in Seq(S) /\ Len(f) = n
<1>1. f \in [1 .. n -> S]
  OBVIOUS
<1> QED BY <1>1

\* The elements of x \o y, where the length of x is n.
LEMMA Joined ==
  ASSUME NEW S, NEW x \in Seq(S), NEW y \in Seq(S), NEW n, Len(x) = n
  PROVE  /\ x \o y \in Seq(S) /\ Len(x \o y) = n + Len(y)
         /\ \A i \in 1 .. n + Len(y) : (x \o y)[i] = IF i <= n THEN x[i] ELSE y[i - n]
BY ConcatProperties

\* snapshot: the bytes in use, oldest first, whether or not they wrap.
LEMMA SnapshotSeq ==
  ASSUME NEW r \in Rings
  PROVE  /\ RingSnapshot(r) \in Seq(Byte) /\ Len(RingSnapshot(r)) = r.len
         /\ \A i \in 1 .. r.len : RingSnapshot(r)[i] = r.buf[Place(r, i - 1)]
<1> DEFINE h == r.head
           n == r.len
<1>1. h \in Nat /\ n \in 0 .. Cap /\ Cap \in Nat /\ (Cap # 0 => h \in 0 .. Cap - 1) /\ (Cap = 0 => h = 0)
  BY RingFacts
<1>0. \A i \in 1 .. n : r.buf[Place(r, i - 1)] \in Byte
  BY RingFacts
<1>2. CASE h + n <= Cap
  <2> DEFINE A == [i \in 1 .. (h + n) - h |-> r.buf[h + i - 1]]
  <2>1. RingSnapshot(r) = A
    BY <1>2 DEF RingSnapshot, Slice
  <2>2. (h + n) - h = n
    BY <1>1
  <2>3. \A i \in 1 .. n : Place(r, i - 1) = h + i - 1
    BY <1>1, <1>2 DEF Place
  <2> HIDE DEF h, n
  <2>4. A = [i \in 1 .. n |-> A[i]] /\ \A i \in 1 .. n : A[i] = r.buf[h + i - 1]
    BY <2>2
  <2> HIDE DEF A
  <2>5. \A i \in 1 .. n : A[i] = r.buf[Place(r, i - 1)] /\ A[i] \in Byte
    BY <1>0, <2>3, <2>4
  <2>6. A \in Seq(Byte) /\ Len(A) = n
    BY <1>1, <2>4, <2>5, SeqIsFun
  <2> QED BY <2>1, <2>5, <2>6 DEF n
<1>3. CASE h + n > Cap
  <2> DEFINE A == [i \in 1 .. Cap - h |-> r.buf[h + i - 1]]
             m == n - (Cap - h)
             B == [i \in 1 .. m - 0 |-> r.buf[0 + i - 1]]
  <2>0. ~(h + n <= Cap)
    BY <1>1, <1>3
  <2>1. RingSnapshot(r) = A \o B
    BY <2>0 DEF RingSnapshot, Slice
  <2>2. Cap - h \in Nat /\ m \in Nat /\ m - 0 = m /\ (Cap - h) + m = n
    BY <1>1, <1>3
  <2>3. \A i \in 1 .. n : Place(r, i - 1) = IF i <= Cap - h THEN h + i - 1 ELSE 0 + (i - (Cap - h)) - 1
    BY <1>1, <1>3 DEF Place
  <2> DEFINE k == Cap - h
  <2>a. k \in Nat /\ m \in Nat /\ k + m = n
    BY <2>2
  <2>4. /\ A = [i \in 1 .. k |-> A[i]] /\ \A i \in 1 .. k : A[i] = r.buf[h + i - 1]
        /\ B = [i \in 1 .. m |-> B[i]] /\ \A i \in 1 .. m : B[i] = r.buf[0 + i - 1]
    <3> HIDE DEF h, n, m
    <3> QED BY <2>2
  <2> HIDE DEF A, B, h, n, m, k
  <2>5. \A i \in 1 .. k : A[i] = r.buf[Place(r, i - 1)] /\ A[i] \in Byte
    <3>1. \A i \in 1 .. k : i \in 1 .. n /\ Place(r, i - 1) = h + i - 1
      BY <2>a, <2>3 DEF k
    <3> QED BY <1>0, <2>4, <3>1
  <2>6. \A i \in 1 .. m : k + i \in 1 .. n /\ B[i] = r.buf[Place(r, (k + i) - 1)] /\ B[i] \in Byte
    <3>1. ASSUME NEW i \in 1 .. m
          PROVE  k + i \in 1 .. n /\ Place(r, (k + i) - 1) = 0 + i - 1
      <4>1. k + i \in 1 .. n /\ ~(k + i <= k) /\ (k + i) - k = i
        BY <2>a
      <4> QED BY <4>1, <2>3 DEF k
    <3> QED BY <1>0, <2>4, <3>1
  <2>7. A \in Seq(Byte) /\ Len(A) = k /\ B \in Seq(Byte) /\ Len(B) = m
    BY <2>a, <2>4, <2>5, <2>6, SeqIsFun
  <2>8. /\ A \o B \in Seq(Byte) /\ Len(A \o B) = n
        /\ \A i \in 1 .. n : (A \o B)[i] = IF i <= k THEN A[i] ELSE B[i - k]
    BY <2>a, <2>7, ConcatProperties
  <2>9. ASSUME NEW i \in 1 .. n PROVE (A \o B)[i] = r.buf[Place(r, i - 1)]
    <3>1. CASE i <= k
      <4>1. i \in 1 .. k
        BY <2>a, <3>1
      <4> QED BY <2>5, <2>8, <3>1, <4>1
    <3>2. CASE ~(i <= k)
      <4>1. i - k \in 1 .. m /\ k + (i - k) = i
        BY <2>a, <3>2
      <4> QED BY <2>6, <2>8, <3>2, <4>1
    <3> QED BY <3>1, <3>2
  <2> QED BY <2>1, <2>8, <2>9 DEF n
<1> QED BY <1>1, <1>2, <1>3

\* A function with one value replaced.
LEMMA Written ==
  ASSUME NEW D, NEW S, NEW f \in [D -> S], NEW d, NEW e \in S
  PROVE  [f EXCEPT ![d] = e] \in [D -> S]
OBVIOUS

\* One byte more: it goes behind the last one; a full buffer gives up its oldest.
LEMMA PushByteIs ==
  ASSUME Cap # 0, NEW r \in Rings, NEW b \in Byte
  PROVE  /\ PushByte(r, b) \in Rings
         /\ PushByte(r, b).len = IF r.len < Cap THEN r.len + 1 ELSE r.len
         /\ PushByte(r, b).head = IF r.len < Cap THEN r.head ELSE Place(r, 1)
         /\ PushByte(r, b).buf = [r.buf EXCEPT ![Place(r, r.len)] = b]
<1> DEFINE w == (r.head + r.len) % Cap
           h == (r.head + 1) % Cap
<1>1. /\ r \in [buf : [0 .. Cap - 1 -> Byte], head : Nat, len : Nat] /\ r.head \in 0 .. Cap - 1
      /\ r.len \in 0 .. Cap /\ Cap \in Nat \ {0} /\ r.buf \in [0 .. Cap - 1 -> Byte]
  BY RingFacts
<1>2. w = Place(r, r.len) /\ w \in 0 .. Cap - 1
  <2> DEFINE a == r.head + r.len
  <2>1. a \in Nat /\ a < 2 * Cap /\ Cap \in Nat \ {0}
    BY <1>1
  <2>2. w = IF a < Cap THEN a ELSE a - Cap
    <3> HIDE DEF a
    <3>1. a % Cap = IF a < Cap THEN a ELSE a - Cap
      BY <2>1, ModOnce
    <3> QED BY <3>1 DEF a
  <2>3. r.head \in Int /\ 0 <= r.head /\ r.head < Cap /\ r.len \in Int /\ 0 <= r.len /\ r.len <= Cap /\ Cap \in Int
    BY <1>1
  <2> HIDE DEF w, h
  <2> QED BY <2>2, <2>3 DEF Place
<1>3. h = Place(r, 1) /\ h \in 0 .. Cap - 1
  <2> DEFINE a == r.head + 1
  <2>1. a \in Nat /\ a < 2 * Cap /\ Cap \in Nat \ {0}
    BY <1>1
  <2>2. h = IF a < Cap THEN a ELSE a - Cap
    <3> HIDE DEF a
    <3>1. a % Cap = IF a < Cap THEN a ELSE a - Cap
      BY <2>1, ModOnce
    <3> QED BY <3>1 DEF a
  <2>3. r.head \in Int /\ 0 <= r.head /\ r.head < Cap /\ r.len \in Int /\ 0 <= r.len /\ r.len <= Cap /\ Cap \in Int
    BY <1>1
  <2> HIDE DEF w, h
  <2> QED BY <2>2, <2>3 DEF Place
<1>4. PushByte(r, b) = IF r.len < Cap THEN [[r EXCEPT !.buf[w] = b] EXCEPT !.len = @ + 1]
                                      ELSE [[r EXCEPT !.buf[w] = b] EXCEPT !.head = h]
  BY <1>1 DEF PushByte
<1> HIDE DEF w, h
<1>w. [r.buf EXCEPT ![w] = b] \in [0 .. Cap - 1 -> Byte]
  <2> DEFINE f == r.buf
             D == 0 .. Cap - 1
  <2>1. f \in [D -> Byte]
    BY <1>1
  <2> HIDE DEF f, D
  <2>2. [f EXCEPT ![w] = b] \in [D -> Byte]
    BY <2>1, Written
  <2> QED BY <2>2 DEF f, D
<1>5. CASE r.len < Cap
  <2>1. PushByte(r, b) = [[r EXCEPT !.buf[w] = b] EXCEPT !.len = @ + 1]
    BY <1>4, <1>5
  <2>2. /\ PushByte(r, b) \in [buf : [0 .. Cap - 1 -> Byte], head : Nat, len : Nat]
        /\ PushByte(r, b).len = r.len + 1 /\ PushByte(r, b).head = r.head
        /\ PushByte(r, b).buf = [r.buf EXCEPT ![w] = b]
    <3>1. r.len + 1 \in Nat /\ r.head \in Nat
      BY <1>1
    <3>2. PushByte(r, b) = [buf |-> [r.buf EXCEPT ![w] = b], head |-> r.head, len |-> r.len + 1]
      BY <1>1, <2>1
    <3> QED BY <1>w, <3>1, <3>2
  <2> QED BY <1>1, <1>2, <1>5, <2>2 DEF Rings
<1>6. CASE ~(r.len < Cap)
  <2>1. PushByte(r, b) = [[r EXCEPT !.buf[w] = b] EXCEPT !.head = h]
    BY <1>4, <1>6
  <2>2. /\ PushByte(r, b) \in [buf : [0 .. Cap - 1 -> Byte], head : Nat, len : Nat]
        /\ PushByte(r, b).len = r.len /\ PushByte(r, b).head = h
        /\ PushByte(r, b).buf = [r.buf EXCEPT ![w] = b]
    <3>1. r.len \in Nat /\ h \in Nat
      BY <1>1, <1>3
    <3>2. PushByte(r, b) = [buf |-> [r.buf EXCEPT ![w] = b], head |-> h, len |-> r.len]
      BY <1>1, <2>1
    <3> QED BY <1>w, <3>1, <3>2
  <2> QED BY <1>1, <1>2, <1>3, <1>6, <2>2 DEF Rings
<1> QED BY <1>5, <1>6

\* u is what stays of t up to its n-th byte: the newest Cap of them.
NewestTo(u, t, n) ==
  /\ Len(u) = IF n <= Cap THEN n ELSE Cap
  /\ \A i \in 1 .. Len(u) : u[i] = t[(n - Len(u)) + i]

\* If the buffer holds what stays of t up to n, it then holds what stays up to n + 1.
LEMMA PushByteStep ==
  ASSUME Cap # 0, NEW r \in Rings, NEW t \in Seq(Byte), NEW n \in Nat, n < Len(t),
         NewestTo(RingSnapshot(r), t, n)
  PROVE  /\ PushByte(r, t[n + 1]) \in Rings
         /\ NewestTo(RingSnapshot(PushByte(r, t[n + 1])), t, n + 1)
<1> DEFINE b == t[n + 1]
           q == PushByte(r, b)
           s == RingSnapshot(r)
           v == RingSnapshot(q)
           l == r.len
           h == r.head
<1>1. b \in Byte
  BY LenProperties
<1>2. /\ q \in Rings /\ q.len = (IF l < Cap THEN l + 1 ELSE l)
      /\ q.head = (IF l < Cap THEN h ELSE Place(r, 1)) /\ q.buf = [r.buf EXCEPT ![Place(r, l)] = b]
  <2> HIDE DEF b
  <2> QED BY <1>1, PushByteIs
<1>3. /\ h \in 0 .. Cap - 1 /\ l \in 0 .. Cap /\ Cap \in Nat \ {0} /\ r.buf \in [0 .. Cap - 1 -> Byte]
  BY RingFacts
<1> HIDE DEF q, b
<1>4. /\ Len(s) = l /\ \A i \in 1 .. l : s[i] = r.buf[Place(r, i - 1)]
  BY SnapshotSeq
<1>5. /\ Len(v) = q.len /\ \A i \in 1 .. q.len : v[i] = q.buf[Place(q, i - 1)]
  BY <1>2, SnapshotSeq
<1>6. /\ l = (IF n <= Cap THEN n ELSE Cap) /\ \A i \in 1 .. l : s[i] = t[(n - l) + i]
  BY <1>4 DEF NewestTo
<1> HIDE DEF s, v
<1>a. h \in Int /\ 0 <= h /\ h < Cap /\ l \in Int /\ 0 <= l /\ l <= Cap /\ Cap \in Int
  BY <1>3
<1>7. q.len = (IF n + 1 <= Cap THEN n + 1 ELSE Cap)
  BY <1>2, <1>3, <1>6
<1>8. ASSUME NEW i \in 1 .. q.len PROVE v[i] = t[((n + 1) - q.len) + i]
  <2>1. CASE l < Cap
    <3>1. q.len = l + 1 /\ l = n /\ q.head = h /\ Place(q, i - 1) = Place(r, i - 1)
      BY <1>2, <1>3, <1>6, <2>1 DEF Place
    <3>2. CASE i = l + 1
      <4>1. Place(r, i - 1) = Place(r, l) /\ Place(r, l) \in 0 .. Cap - 1
        <5>1. i - 1 = l
          BY <1>a, <3>2
        <5>2. Place(r, l) \in 0 .. Cap - 1
          <6>1. Place(r, l) = IF h + l < Cap THEN h + l ELSE h + l - Cap
            BY DEF Place
          <6> HIDE DEF h, l
          <6> QED BY <1>a, <2>1, <6>1
        <5> QED BY <5>1, <5>2
      <4>2. v[i] = b
        BY <1>2, <1>3, <1>5, <1>8, <3>1, <4>1
      <4>3. ((n + 1) - q.len) + i = n + 1
        BY <3>1, <3>2
      <4> QED BY <4>2, <4>3 DEF b
    <3>3. CASE i # l + 1
      <4>1. i \in 1 .. l /\ Place(r, i - 1) # Place(r, l) /\ Place(r, i - 1) \in 0 .. Cap - 1
        BY <1>3, <1>8, <2>1, <3>1, <3>3 DEF Place
      <4>2. v[i] = r.buf[Place(r, i - 1)]
        BY <1>2, <1>3, <1>5, <1>8, <3>1, <4>1
      <4>3. ((n + 1) - q.len) + i = (n - l) + i
        BY <3>1
      <4> QED BY <1>4, <1>6, <4>1, <4>2, <4>3
    <3> QED BY <3>2, <3>3
  <2>2. CASE ~(l < Cap)
    <3>1. q.len = l /\ l = Cap /\ q.head = Place(r, 1) /\ Place(r, l) = h /\ n >= Cap
      BY <1>2, <1>3, <1>6, <2>2 DEF Place
    <3>2. CASE i = Cap
      <4>1. Place(q, i - 1) = h
        <5>1. q.head = IF h + 1 < Cap THEN h + 1 ELSE h + 1 - Cap
          BY <3>1 DEF Place
        <5>2. Place(q, i - 1) = IF q.head + (i - 1) < Cap THEN q.head + (i - 1) ELSE q.head + (i - 1) - Cap
          BY DEF Place
        <5> HIDE DEF h, l
        <5> QED BY <1>a, <3>2, <5>1, <5>2
      <4>2. v[i] = b
        BY <1>2, <1>3, <1>5, <1>8, <3>1, <4>1
      <4>3. ((n + 1) - q.len) + i = n + 1
        BY <1>3, <3>1, <3>2
      <4> QED BY <4>2, <4>3 DEF b
    <3>3. CASE i # Cap
      <4>1. i + 1 \in 1 .. l /\ Place(q, i - 1) = Place(r, (i + 1) - 1)
            /\ Place(q, i - 1) # h /\ Place(q, i - 1) \in 0 .. Cap - 1
        <5>1. i \in Int /\ 1 <= i /\ i < Cap
          BY <1>a, <1>8, <3>1, <3>3
        <5>2. q.head = IF h + 1 < Cap THEN h + 1 ELSE h + 1 - Cap
          BY <3>1 DEF Place
        <5>3. Place(q, i - 1) = IF q.head + (i - 1) < Cap THEN q.head + (i - 1) ELSE q.head + (i - 1) - Cap
          BY DEF Place
        <5>4. Place(r, (i + 1) - 1) = IF h + ((i + 1) - 1) < Cap THEN h + ((i + 1) - 1) ELSE h + ((i + 1) - 1) - Cap
          BY DEF Place
        <5> HIDE DEF h, l
        <5> QED BY <1>a, <3>1, <5>1, <5>2, <5>3, <5>4
      <4>2. v[i] = r.buf[Place(r, (i + 1) - 1)]
        BY <1>2, <1>3, <1>5, <1>8, <3>1, <4>1
      <4>3. ((n + 1) - q.len) + i = (n - l) + (i + 1)
        BY <1>3, <3>1
      <4> QED BY <1>4, <1>6, <4>1, <4>2, <4>3
    <3> QED BY <3>2, <3>3
  <2> QED BY <2>1, <2>2
<1> QED BY <1>2, <1>5, <1>7, <1>8 DEF NewestTo, q, b, v

\* Induction over the natural numbers, by the least counterexample.
LEMMA LeastNumber ==
  ASSUME NEW T, T \subseteq Nat, T # {}
  PROVE  \E n \in T : \A m \in T : n <= m
<1> DEFINE R == OpToRel(<, Nat)
<1>1. IsWellFoundedOn(R, Nat)
  BY NatLessThanWellFounded
<1>2. \A x, y \in Nat : <<x, y>> \in R <=> x < y
  BY DEF OpToRel
<1> HIDE DEF R
<1>3. PICK x \in T : \A y \in T : ~ (<<y, x>> \in R)
  BY <1>1, WFMin
<1>4. ASSUME NEW m \in T PROVE x <= m
  <2>1. x \in Nat /\ m \in Nat /\ ~(m < x)
    BY <1>2, <1>3
  <2> QED BY <2>1
<1> QED BY <1>3, <1>4

\* The loop of push: what it keeps of what was in the buffer and the bytes it is given.
LEMMA PushEachIs ==
  ASSUME Cap # 0, NEW r \in Rings, NEW bytes \in Seq(Byte)
  PROVE  /\ PushEach(r, bytes) \in Rings
         /\ NewestTo(RingSnapshot(PushEach(r, bytes)), RingSnapshot(r) \o bytes, r.len + Len(bytes))
<1> DEFINE N == Len(bytes)
           t == RingSnapshot(r) \o bytes
           Step(g, m) == IF m = 0 THEN r ELSE PushByte(g[m - 1], bytes[m])
           Upto(m) == \E g : g = [i \in 0 .. m |-> Step(g, i)]
           F == CHOOSE g : g = [i \in 0 .. N |-> Step(g, i)]
           J(m) == F[m] \in Rings /\ NewestTo(RingSnapshot(F[m]), t, r.len + m)
<1>0. N \in Nat
  OBVIOUS
<1>1. PushEach(r, bytes) = F[N]
  BY DEF PushEach
<1> HIDE DEF Step
<1>2. Upto(0)
  <2>1. [i \in 0 .. 0 |-> r] = [i \in 0 .. 0 |-> Step([j \in 0 .. 0 |-> r], i)]
    BY DEF Step
  <2> QED BY <2>1
<1>3. ASSUME NEW m \in Nat, m # 0, Upto(m - 1) PROVE Upto(m)
  <2>1. PICK g : g = [i \in 0 .. m - 1 |-> Step(g, i)]
    BY <1>3
  <2>2. \A i \in 0 .. m - 1 : g[i] = Step(g, i)
    BY <2>1
  <2> DEFINE h == [i \in 0 .. m |-> IF i < m THEN g[i] ELSE Step(g, m)]
  <2>3. ASSUME NEW i \in 0 .. m PROVE h[i] = Step(h, i)
    <3>1. CASE i = 0
      <4>1. h[i] = g[i] /\ g[i] = Step(g, i)
        BY <1>3, <2>2, <3>1
      <4> QED BY <3>1, <4>1 DEF Step
    <3>2. CASE i # 0 /\ i < m
      <4>1. h[i] = g[i] /\ h[i - 1] = g[i - 1] /\ g[i] = Step(g, i)
        BY <2>2, <3>2
      <4> QED BY <3>2, <4>1 DEF Step
    <3>3. CASE i = m
      <4>1. h[i] = Step(g, m) /\ h[i - 1] = g[i - 1]
        BY <1>3, <3>3
      <4> QED BY <1>3, <3>3, <4>1 DEF Step
    <3> QED BY <3>1, <3>2, <3>3
  <2>4. h = [i \in 0 .. m |-> Step(h, i)]
    <3> DEFINE h2 == [i \in 0 .. m |-> Step(h, i)]
    <3>1. \A i \in 0 .. m : h2[i] = h[i]
      BY <2>3
    <3> QED BY <3>1
  <2> QED BY <2>4
<1> HIDE DEF Upto
<1>4. \A m \in Nat : Upto(m)
  <2>1. SUFFICES ASSUME {m \in Nat : ~Upto(m)} # {} PROVE FALSE
    OBVIOUS
  <2>2. PICK m \in {i \in Nat : ~Upto(i)} : \A k \in {i \in Nat : ~Upto(i)} : m <= k
    BY <2>1, LeastNumber
  <2>3. m # 0 /\ m \in Nat /\ m - 1 \in Nat /\ ~(m <= m - 1) /\ ~Upto(m)
    BY <1>2, <2>2
  <2> QED BY <1>3, <2>2, <2>3
<1>5. F = [i \in 0 .. N |-> Step(F, i)]
  <2>1. \E g : g = [i \in 0 .. N |-> Step(g, i)]
    BY <1>0, <1>4 DEF Upto
  <2> QED BY <2>1
<1> HIDE DEF F
<1>6. \A m \in 0 .. N : F[m] = Step(F, m)
  BY <1>5
<1>7. /\ RingSnapshot(r) \in Seq(Byte) /\ Len(RingSnapshot(r)) = r.len /\ r.len \in 0 .. Cap /\ Cap \in Nat
  BY SnapshotSeq, RingFacts
<1>8. /\ t \in Seq(Byte) /\ Len(t) = r.len + N
      /\ \A i \in 1 .. r.len : t[i] = RingSnapshot(r)[i]
      /\ \A m \in 1 .. N : t[r.len + m] = bytes[m]
  <2> DEFINE s == RingSnapshot(r)
  <2> HIDE DEF s
  <2>1. s \in Seq(Byte) /\ Len(s) = r.len /\ r.len \in Nat
    BY <1>7 DEF s
  <2>2. /\ s \o bytes \in Seq(Byte) /\ Len(s \o bytes) = Len(s) + Len(bytes)
        /\ \A i \in 1 .. Len(s) + Len(bytes) :
             (s \o bytes)[i] = IF i <= Len(s) THEN s[i] ELSE bytes[i - Len(s)]
    BY <2>1, ConcatProperties
  <2> DEFINE c == s \o bytes
  <2> HIDE DEF c, N
  <2>3. /\ c \in Seq(Byte) /\ Len(c) = r.len + N
        /\ \A i \in 1 .. r.len + N : c[i] = IF i <= r.len THEN s[i] ELSE bytes[i - r.len]
    BY <2>1, <2>2 DEF c, N
  <2>4. ASSUME NEW i \in 1 .. r.len PROVE c[i] = s[i]
    <3>1. i \in 1 .. r.len + N /\ i <= r.len
      BY <1>0, <2>1
    <3> QED BY <2>3, <3>1
  <2>5. ASSUME NEW m \in 1 .. N PROVE c[r.len + m] = bytes[m]
    <3>1. r.len + m \in 1 .. r.len + N /\ ~(r.len + m <= r.len) /\ (r.len + m) - r.len = m
      BY <1>0, <2>1
    <3> QED BY <2>3, <3>1
  <2>6. c = t
    BY DEF c, s
  <2> HIDE DEF t
  <2> QED BY <2>3, <2>4, <2>5, <2>6 DEF s
<1> HIDE DEF t, N
<1>9. J(0)
  <2>1. F[0] = r
    BY <1>0, <1>6 DEF Step
  <2>2. /\ r.len + 0 = r.len /\ Len(RingSnapshot(r)) = (IF r.len <= Cap THEN r.len ELSE Cap)
        /\ \A i \in 1 .. r.len : (r.len - r.len) + i = i
    BY <1>7
  <2>3. NewestTo(RingSnapshot(r), t, r.len)
    BY <1>7, <1>8, <2>2 DEF NewestTo
  <2> QED BY <2>1, <2>2, <2>3
<1>10. ASSUME NEW m \in 1 .. N, J(m - 1) PROVE J(m)
  <2> DEFINE k == r.len + (m - 1)
  <2>1. F[m] = PushByte(F[m - 1], bytes[m])
    BY <1>0, <1>6, <1>10 DEF Step
  <2>2. k \in Nat /\ k < Len(t) /\ k + 1 = r.len + m /\ t[k + 1] = bytes[m]
    <3>1. r.len \in Int /\ 0 <= r.len /\ Len(t) = r.len + N /\ t[r.len + m] = bytes[m]
      BY <1>7, <1>8
    <3>2. k \in Nat /\ k < r.len + N /\ k + 1 = r.len + m
      BY <1>0, <3>1
    <3> QED BY <3>1, <3>2
  <2>3. F[m - 1] \in Rings /\ NewestTo(RingSnapshot(F[m - 1]), t, k)
    BY <1>10
  <2> DEFINE q == F[m - 1]
  <2> HIDE DEF k, q
  <2>4. PushByte(q, t[k + 1]) \in Rings /\ NewestTo(RingSnapshot(PushByte(q, t[k + 1])), t, k + 1)
    BY <1>8, <2>2, <2>3, PushByteStep DEF q
  <2> QED BY <2>1, <2>2, <2>4 DEF q
<1> HIDE DEF J
<1>11. J(N)
  <2>1. SUFFICES ASSUME {m \in 0 .. N : ~J(m)} # {} PROVE FALSE
    BY <1>0
  <2>2. PICK m \in {i \in 0 .. N : ~J(i)} : \A k \in {i \in 0 .. N : ~J(i)} : m <= k
    <3>1. {i \in 0 .. N : ~J(i)} \subseteq Nat
      BY <1>0
    <3> QED BY <2>1, <3>1, LeastNumber
  <2>3. m # 0 /\ m \in 1 .. N /\ m - 1 \in 0 .. N /\ ~(m <= m - 1) /\ ~J(m)
    BY <1>0, <1>9, <2>2
  <2> QED BY <1>10, <2>2, <2>3
<1> QED BY <1>1, <1>11 DEF J, N, t

\* The newest Cap elements, by their positions.
LEMMA NewestIs ==
  ASSUME Cap \in Nat, NEW t \in Seq(Byte), NEW u \in Seq(Byte), NewestTo(u, t, Len(t))
  PROVE  u = Log!Newest(Cap, t)
<1> DEFINE n == Len(t)
           w == Log!Newest(Cap, t)
<1>1. n \in Nat /\ Len(u) \in Nat
  OBVIOUS
<1>2. Len(u) = (IF n <= Cap THEN n ELSE Cap) /\ \A i \in 1 .. Len(u) : u[i] = t[(n - Len(u)) + i]
  BY DEF NewestTo
<1>3. CASE n <= Cap
  <2>1. w = t
    BY <1>3 DEF Log!Newest
  <2>2. Len(u) = n
    BY <1>2, <1>3
  <2>3. \A i \in 1 .. Len(u) : u[i] = t[i]
    <3>1. \A i \in 1 .. Len(u) : (n - Len(u)) + i = i
      BY <1>1, <2>2
    <3> QED BY <1>2, <3>1
  <2> QED BY <2>1, <2>2, <2>3, SeqEqual
<1>4. CASE ~(n <= Cap)
  <2>1. w = SubSeq(t, n - Cap + 1, n)
    BY <1>4 DEF Log!Newest
  <2>2. Len(u) = Cap /\ n - Cap + 1 \in 1 .. n + 1 /\ n - (n - Cap + 1) + 1 = Cap
    BY <1>1, <1>2, <1>4
  <2>3. /\ w \in Seq(Byte) /\ Len(w) = Cap
        /\ \A i \in 1 .. Cap : w[i] = t[(n - Cap + 1) + i - 1]
    <3> DEFINE m == n - Cap + 1
    <3>1. m \in Int /\ n \in Int /\ n - m + 1 = Cap /\ (Cap # 0 => m <= n) /\ (Cap = 0 => ~(m <= n))
      BY <1>1, <1>4
    <3>2. \A i \in m .. n : t[i] \in Byte
      BY <1>1, <1>4, LenProperties
    <3> HIDE DEF m, w, n
    <3>3. /\ SubSeq(t, m, n) \in Seq(Byte)
          /\ Len(SubSeq(t, m, n)) = IF m <= n THEN n - m + 1 ELSE 0
          /\ \A i \in 1 .. n - m + 1 : SubSeq(t, m, n)[i] = t[m + i - 1]
      BY <3>1, <3>2, SubSeqProperties
    <3>4. w = SubSeq(t, m, n)
      BY <2>1 DEF m
    <3> QED BY <3>1, <3>3, <3>4 DEF m
  <2>4. \A i \in 1 .. Len(u) : u[i] = w[i]
    <3>1. \A i \in 1 .. Cap : (n - Len(u)) + i = (n - Cap + 1) + i - 1
      BY <1>1, <2>2
    <3> QED BY <1>2, <2>2, <2>3, <3>1
  <2> QED BY <2>2, <2>3, <2>4, SeqEqual
<1> QED BY <1>3, <1>4

\* push: of a chunk longer than the buffer only the end is copied, and a snapshot
\* cannot tell.
LEMMA PushIs ==
  ASSUME NEW r \in Rings, NEW bytes \in Seq(Byte), Cap # 0
  PROVE  /\ PushEach(r, Kept(bytes)) \in Rings
         /\ RingSnapshot(PushEach(r, Kept(bytes))) = Log!Newest(Cap, RingSnapshot(r) \o bytes)
<1> DEFINE s == RingSnapshot(r)
           k == Kept(bytes)
           q == PushEach(r, k)
           u == RingSnapshot(q)
           t == s \o bytes
           d == Len(bytes) - Len(k)
<1>1. s \in Seq(Byte) /\ Len(s) = r.len /\ r.len \in 0 .. Cap /\ Cap \in Nat /\ Len(bytes) \in Nat
  BY SnapshotSeq, RingFacts
<1>2. /\ k \in Seq(Byte) /\ d \in Nat /\ Len(k) \in Nat /\ Len(bytes) = d + Len(k)
      /\ (d # 0 => Len(k) = Cap) /\ \A i \in 1 .. Len(k) : k[i] = bytes[d + i]
  <2>1. CASE Len(bytes) >= Cap
    <3> DEFINE n == Len(bytes)
               m == n - Cap + 1
    <3>1. k = SubSeq(bytes, m, n)
      BY <2>1 DEF Kept
    <3>2. m \in Int /\ n \in Int /\ m <= n /\ n - m + 1 = Cap
      BY <1>1, <2>1
    <3>3. \A i \in m .. n : bytes[i] \in Byte
      BY <1>1, <2>1, LenProperties
    <3> HIDE DEF m, n, k
    <3>4. /\ k \in Seq(Byte) /\ Len(k) = n - m + 1
          /\ \A i \in 1 .. n - m + 1 : k[i] = bytes[m + i - 1]
      BY <3>1, <3>2, <3>3, SubSeqProperties
    <3>5. Len(k) = Cap /\ \A i \in 1 .. Cap : k[i] = bytes[m + i - 1]
      BY <3>2, <3>4
    <3>6. d = n - Cap /\ d \in Nat /\ n = d + Cap /\ \A i \in 1 .. Cap : m + i - 1 = d + i
      BY <1>1, <2>1, <3>5 DEF n, m
    <3> QED BY <1>1, <3>4, <3>5, <3>6 DEF n
  <2>2. CASE ~(Len(bytes) >= Cap)
    <3>1. k = bytes
      BY <2>2 DEF Kept
    <3>2. d = 0 /\ \A i \in 1 .. Len(k) : d + i = i
      BY <1>1, <3>1
    <3> QED BY <1>1, <3>1, <3>2
  <2> QED BY <2>1, <2>2
<1> HIDE DEF k, d
<1>3. q \in Rings /\ NewestTo(u, s \o k, r.len + Len(k))
  BY <1>2, PushEachIs
<1>4. u \in Seq(Byte) /\ Len(u) \in Nat
  BY <1>3, SnapshotSeq, LenProperties
<1> HIDE DEF s, q, u
<1> DEFINE c == s \o k
<1>5. /\ c \in Seq(Byte) /\ Len(c) = r.len + Len(k)
      /\ \A i \in 1 .. r.len + Len(k) : c[i] = IF i <= r.len THEN s[i] ELSE k[i - r.len]
  <2>1. s \in Seq(Byte) /\ k \in Seq(Byte) /\ Len(s) = r.len
    BY <1>1, <1>2
  <2> DEFINE n == r.len
  <2> HIDE DEF n
  <2>2. Len(s) = n
    BY <2>1 DEF n
  <2>3. /\ s \o k \in Seq(Byte) /\ Len(s \o k) = n + Len(k)
        /\ \A i \in 1 .. n + Len(k) : (s \o k)[i] = IF i <= n THEN s[i] ELSE k[i - n]
    BY <2>1, <2>2, Joined
  <2> QED BY <2>3 DEF n
<1>6. /\ t \in Seq(Byte) /\ Len(t) = r.len + Len(bytes)
      /\ \A i \in 1 .. r.len + Len(bytes) : t[i] = IF i <= r.len THEN s[i] ELSE bytes[i - r.len]
  <2>1. s \in Seq(Byte) /\ bytes \in Seq(Byte) /\ Len(s) = r.len
    BY <1>1, <1>2
  <2> DEFINE n == r.len
  <2> HIDE DEF n
  <2>2. Len(s) = n
    BY <2>1 DEF n
  <2>3. /\ s \o bytes \in Seq(Byte) /\ Len(s \o bytes) = n + Len(bytes)
        /\ \A i \in 1 .. n + Len(bytes) : (s \o bytes)[i] = IF i <= n THEN s[i] ELSE bytes[i - n]
    BY <2>1, <2>2, Joined
  <2> QED BY <2>3 DEF n
<1>7. /\ Len(u) = (IF r.len + Len(k) <= Cap THEN r.len + Len(k) ELSE Cap)
      /\ \A i \in 1 .. Len(u) : u[i] = c[((r.len + Len(k)) - Len(u)) + i]
  BY <1>3 DEF NewestTo
<1> HIDE DEF c, t
<1>8. Len(u) = (IF Len(t) <= Cap THEN Len(t) ELSE Cap)
  BY <1>1, <1>2, <1>6, <1>7
<1>9. ASSUME NEW i \in 1 .. Len(u) PROVE u[i] = t[(Len(t) - Len(u)) + i]
  <2> DEFINE a == ((r.len + Len(k)) - Len(u)) + i
             b == (Len(t) - Len(u)) + i
  <2>1. u[i] = c[a]
    BY <1>7
  <2>0. /\ r.len \in Int /\ 0 <= r.len /\ r.len <= Cap /\ Cap \in Int /\ Len(k) \in Int /\ 0 <= Len(k)
        /\ d \in Int /\ 0 <= d /\ Len(u) \in Int /\ i \in Int /\ 1 <= i /\ i <= Len(u)
        /\ Len(t) = r.len + (d + Len(k)) /\ Len(bytes) = d + Len(k)
        /\ Len(u) <= r.len + Len(k)
    BY <1>1, <1>2, <1>4, <1>6, <1>7
  <2>2. b = a + d /\ a \in 1 .. r.len + Len(k) /\ b \in 1 .. r.len + Len(bytes)
    <3> DEFINE x == r.len
               y == Len(k)
               z == Len(u)
    <3>1. /\ x \in Int /\ 0 <= x /\ y \in Int /\ 0 <= y /\ d \in Int /\ 0 <= d /\ z \in Int
          /\ i \in Int /\ 1 <= i /\ i <= z /\ z <= x + y /\ a = ((x + y) - z) + i
          /\ b = ((x + (d + y)) - z) + i /\ Len(bytes) = d + y
      BY <2>0
    <3> HIDE DEF x, y, z, a, b
    <3>2. b = a + d /\ a \in 1 .. x + y /\ b \in 1 .. x + (d + y)
      BY <3>1
    <3> QED BY <3>1, <3>2 DEF x, y
  <2>3. d # 0 => ~(a <= r.len) /\ ~(b <= r.len)
    <3> DEFINE x == r.len
               z == Len(u)
    <3>1. d # 0 => Len(k) = Cap
      BY <1>2
    <3>2. /\ x \in Int /\ 0 <= x /\ z \in Int /\ z <= Cap /\ Cap \in Int /\ i \in Int /\ 1 <= i
          /\ a = ((x + Len(k)) - z) + i /\ d \in Int /\ 0 <= d /\ b = a + d
      BY <1>7, <2>0, <2>2
    <3> HIDE DEF x, z, a, b
    <3>3. d # 0 => ~(a <= x) /\ ~(b <= x)
      BY <3>1, <3>2
    <3> QED BY <3>3 DEF x
  <2>4. r.len \in Nat /\ a \in Int /\ b \in Int
    BY <1>1, <2>2
  <2> HIDE DEF a, b
  <2>5. CASE a <= r.len
    <3>1. d = 0 /\ b = a
      BY <2>2, <2>3, <2>4, <2>5
    <3>2. c[a] = s[a] /\ t[a] = s[a]
      BY <1>5, <1>6, <2>2, <2>5, <3>1
    <3> QED BY <2>1, <3>1, <3>2 DEF b
  <2>6. CASE ~(a <= r.len)
    <3>1. /\ ~(b <= r.len) /\ a - r.len \in 1 .. Len(k) /\ b - r.len = d + (a - r.len)
      <4> DEFINE x == r.len
                 y == Len(k)
      <4>1. /\ x \in Int /\ y \in Int /\ d \in Int /\ 0 <= d /\ a \in Int /\ b = a + d
            /\ a <= x + y /\ ~(a <= x)
        BY <2>0, <2>2, <2>4, <2>6
      <4> HIDE DEF x, y
      <4>2. ~(b <= x) /\ a - x \in 1 .. y /\ b - x = d + (a - x)
        BY <4>1
      <4> QED BY <4>2 DEF x, y
    <3>2. c[a] = k[a - r.len] /\ t[b] = bytes[b - r.len]
      BY <1>5, <1>6, <2>2, <2>6, <3>1
    <3> QED BY <1>2, <2>1, <3>1, <3>2 DEF b
  <2> QED BY <2>5, <2>6
<1>10. NewestTo(u, t, Len(t))
  BY <1>8, <1>9 DEF NewestTo
<1>11. u = Log!Newest(Cap, t)
  BY <1>1, <1>4, <1>6, <1>10, NewestIs
<1> QED BY <1>3, <1>11 DEF q, u, k, t, s

\* A chunk is a sequence of bytes.
LEMMA ChunkIsSeq ==
  ASSUME NEW bytes \in Chunks
  PROVE  bytes \in Seq(Byte) /\ bytes \in Log!Chunks
BY RingAssumption DEF Chunks, Log!Chunks

\* head and len stay within the buffer.
RingInv == ring \in Rings

\* RingBuf implements ReplayLog, for any capacity, 0 included, and chunks of any
\* length: a snapshot is the newest Cap bytes of all that was pushed (RingBuf::push
\* and RingBuf::snapshot).
THEOREM RingIsReplayLog == RingSpec => IsReplayLog
<1>1. RingInit => RingInv /\ Log!Init
  <2> SUFFICES ASSUME RingInit PROVE RingInv /\ Log!Init
    OBVIOUS
  <2>1. RingInv
    <3>1. ring = [buf |-> [i \in 0 .. (Cap - 1) |-> 0], head |-> 0, len |-> 0] /\ Cap \in Nat /\ 0 \in Byte
      BY RingAssumption DEF RingInit
    <3>2. [i \in 0 .. (Cap - 1) |-> 0] \in [0 .. Cap - 1 -> Byte]
      BY <3>1
    <3>3. ring \in [buf : [0 .. Cap - 1 -> Byte], head : Nat, len : Nat] /\ ring.len = 0 /\ ring.head = 0
      BY <3>1, <3>2
    <3> QED BY <3>1, <3>3 DEF RingInv, Rings
  <2>2. RingSnapshot(ring) \in Seq(Byte) /\ Len(RingSnapshot(ring)) = 0
    <3>1. ring.len = 0
      BY DEF RingInit
    <3> QED BY <2>1, <3>1, SnapshotSeq DEF RingInv
  <2>3. RingSnapshot(ring) = <<>> /\ input = <<>>
    BY <2>2, EmptySeq DEF RingInit
  <2> QED BY <2>1, <2>3 DEF Log!Init
<1>2. RingInv /\ [RingNext]_<<ring, input>> => RingInv' /\ [Log!Next]_<<RingSnapshot(ring), input>>
  <2> SUFFICES ASSUME RingInv, [RingNext]_<<ring, input>>
               PROVE  RingInv' /\ [Log!Next]_<<RingSnapshot(ring), input>>
    OBVIOUS
  <2>1. CASE UNCHANGED <<ring, input>>
    BY <2>1 DEF RingInv, Rings, RingSnapshot, Slice
  <2>2. CASE RingNext
    <3>1. PICK bytes \in Chunks : Push(bytes)
      BY <2>2 DEF RingNext
    <3>2. bytes \in Seq(Byte) /\ bytes \in Log!Chunks /\ input' = bytes
      BY <3>1, ChunkIsSeq DEF Push
    <3>3. RingSnapshot(ring) \in Seq(Byte) /\ Len(RingSnapshot(ring)) = ring.len /\ ring.len \in 0 .. Cap /\ Cap \in Nat
      BY SnapshotSeq, RingFacts DEF RingInv
    <3>4. RingInv' /\ RingSnapshot(ring') = Log!Newest(Cap, RingSnapshot(ring) \o bytes)
      <4>1. CASE Cap = 0
        <5>1. ring' = ring
          BY <3>1, <4>1 DEF Push
        <5>2. Len(RingSnapshot(ring)) = 0
          BY <3>3, <4>1
        <5> DEFINE s == RingSnapshot(ring)
                   t == s \o bytes
        <5>3. t \in Seq(Byte) /\ Len(t) \in Nat
          BY <3>2, <3>3, ConcatProperties, LenProperties
        <5>4. NewestTo(s, t, Len(t))
          <6> HIDE DEF s, t
          <6>1. Len(s) = 0
            BY <5>2 DEF s
          <6>2. (IF Len(t) <= Cap THEN Len(t) ELSE Cap) = 0
            BY <4>1, <5>3
          <6>3. \A i \in 1 .. 0 : s[i] = t[(Len(t) - 0) + i]
            OBVIOUS
          <6> QED BY <6>1, <6>2, <6>3 DEF NewestTo
        <5>5. s = Log!Newest(Cap, t)
          <6> HIDE DEF s, t
          <6> QED BY <3>3, <5>3, <5>4, NewestIs DEF s
        <5> QED BY <5>1, <5>5 DEF RingInv
      <4>2. CASE Cap # 0 /\ bytes = <<>>
        <5>1. ring' = ring
          BY <3>1, <4>2 DEF Push
        <5>2. RingSnapshot(ring) \o bytes = RingSnapshot(ring)
          BY <3>3, <4>2, ConcatEmptySeq
        <5>3. Log!Newest(Cap, RingSnapshot(ring)) = RingSnapshot(ring)
          BY <3>3 DEF Log!Newest
        <5> QED BY <5>1, <5>2, <5>3 DEF RingInv
      <4>3. CASE Cap # 0 /\ bytes # <<>>
        <5>1. ring' = PushEach(ring, Kept(bytes))
          BY <3>1, <4>3 DEF Push
        <5> QED BY <3>2, <4>3, <5>1, PushIs DEF RingInv
      <4> QED BY <4>1, <4>2, <4>3
    <3>5. Log!Next
      <4>1. RingSnapshot(ring)' = RingSnapshot(ring')
        BY DEF RingSnapshot, Slice
      <4> QED BY <3>2, <3>4, <4>1 DEF Log!Next
    <3> QED BY <3>4, <3>5
  <2> QED BY <2>1, <2>2
<1> QED BY <1>1, <1>2, PTL DEF RingSpec, IsReplayLog, Log!Spec
=============================================================================
