------------------------------- MODULE Stream -------------------------------
(***************************************************************************)
(* The output of one pane: the pty-reader thread that fills the ring       *)
(* buffer and the broadcast, and the stream connections that replay the    *)
(* one and follow the other.                                               *)
(*                                                                         *)
(* The two daemons attach a client in a different order.  The single       *)
(* daemon (pty.rs, stream.rs) takes the snapshot, sends it, and then       *)
(* subscribes; a worker (worker.rs) subscribes, takes the snapshot and     *)
(* sends it.  The variable owner says which one this is.                   *)
(*                                                                         *)
(* Chunks are numbered in the order the PTY produced them and count as one *)
(* unit of the ring buffer.  The client reads what it is sent.             *)
(***************************************************************************)
EXTENDS Naturals

CONSTANTS
  Owners,        \* the daemons to look at: "single", "worker" or both
  Connections,   \* stream connections
  RingCap,       \* capacity of the RingBuf, in chunks
  BroadcastCap,  \* capacity of the output broadcast
  MaxChunks      \* bound on the chunks the pane produces

ASSUME OwnerAssumption     == Owners \subseteq {"single", "worker"}
ASSUME StreamCapAssumption == {RingCap, BroadcastCap, MaxChunks} \subseteq Nat \ {0}

VARIABLES
  owner,      \* the daemon that owns the pane
  reader,     \* the pty-reader thread: "read", "send" or "ended"
  pushed,     \* chunks pushed into the ring buffer: 1..pushed
  sent,       \* chunks broadcast: 1..sent
  listed,     \* the pane is in the pane map, whose entry holds a Sender
  token,      \* close_token is cancelled (single daemon)
  stage,      \* where each connection is
  pos,        \* the connection's receiver: chunks consumed
  lo, hi,     \* its snapshot: chunks lo..hi
  got,        \* history: the chunks delivered to the client
  missed      \* history: the chunks its receiver skipped by lagging

pane  == <<owner, reader, pushed, sent, listed, token>>
cvars == <<stage, pos, lo, hi, got, missed>>
svars == <<pane, cvars>>

-----------------------------------------------------------------------------
(* The pty-reader thread and the end of the pane *)

\* read() returned a chunk: it goes into the ring buffer first.
ReaderPush ==
  /\ reader = "read"
  /\ pushed < MaxChunks
  /\ pushed' = pushed + 1
  /\ reader' = "send"
  /\ UNCHANGED <<owner, sent, listed, token, cvars>>

\* Then it is broadcast.
ReaderSend ==
  /\ reader = "send"
  /\ sent' = pushed
  /\ reader' = "read"
  /\ UNCHANGED <<owner, pushed, listed, token, cvars>>

\* EOF or a read error; the thread drops its Sender.
ReaderEnd ==
  /\ reader = "read"
  /\ reader' = "ended"
  /\ UNCHANGED <<owner, pushed, sent, listed, token, cvars>>

\* wait() returned in the child-wait task, whatever the reader is at.
CancelToken ==
  /\ owner = "single"
  /\ ~token
  /\ token' = TRUE
  /\ UNCHANGED <<owner, reader, pushed, sent, listed, cvars>>

\* close_pane or the clean-up after the exit takes the pane out of the map.
Unlist ==
  /\ listed
  /\ listed' = FALSE
  /\ UNCHANGED <<owner, reader, pushed, sent, token, cvars>>

-----------------------------------------------------------------------------
(* A stream connection *)

\* The header names no listed pane: the socket is shut down.
Refuse(c) ==
  /\ stage[c] = "start"
  /\ ~listed
  /\ stage' = [stage EXCEPT ![c] = "refused"]
  /\ UNCHANGED <<pane, pos, lo, hi, got, missed>>

\* The single daemon clones the pane's Arc; a worker also subscribes, under the
\* lock of the pane map.
Connect(c) ==
  /\ stage[c] = "start"
  /\ listed
  /\ stage' = [stage EXCEPT ![c] = "snapshot"]
  /\ pos' = IF owner = "worker" THEN [pos EXCEPT ![c] = sent] ELSE pos
  /\ UNCHANGED <<pane, lo, hi, got, missed>>

\* The ring buffer under its lock: the newest RingCap chunks.
Snapshot(c) ==
  /\ stage[c] = "snapshot"
  /\ hi' = [hi EXCEPT ![c] = pushed]
  /\ lo' = [lo EXCEPT ![c] = IF pushed > RingCap THEN pushed - RingCap + 1 ELSE 1]
  /\ stage' = [stage EXCEPT ![c] = "send_snapshot"]
  /\ UNCHANGED <<pane, pos, got, missed>>

\* Mutant: the worker too subscribes after the snapshot frame.
SendSnapshotThenSubscribe(c) ==
  /\ stage[c] = "send_snapshot"
  /\ got' = [got EXCEPT ![c] = @ \cup lo[c]..hi[c]]
  /\ pos' = [pos EXCEPT ![c] = sent]
  /\ stage' = [stage EXCEPT ![c] = "live"]
  /\ UNCHANGED <<pane, lo, hi, missed>>

\* The seq = 0 frame; the single daemon subscribes next.
SendSnapshot(c) ==
  /\ stage[c] = "send_snapshot"
  /\ got' = [got EXCEPT ![c] = @ \cup lo[c]..hi[c]]
  /\ stage' = [stage EXCEPT ![c] = IF owner = "single" THEN "subscribe" ELSE "live"]
  /\ UNCHANGED <<pane, pos, lo, hi, missed>>

\* output_tx.subscribe() of the single daemon.
Subscribe(c) ==
  /\ stage[c] = "subscribe"
  /\ pos' = [pos EXCEPT ![c] = sent]
  /\ stage' = [stage EXCEPT ![c] = "live"]
  /\ UNCHANGED <<pane, lo, hi, got, missed>>

\* The broadcast keeps the newest BroadcastCap chunks.
Lags(c) == sent - pos[c] > BroadcastCap

\* Ok(chunk) becomes a frame.
Recv(c) ==
  /\ stage[c] = "live"
  /\ pos[c] < sent
  /\ ~Lags(c)
  /\ pos' = [pos EXCEPT ![c] = @ + 1]
  /\ got' = [got EXCEPT ![c] = @ \cup {pos[c] + 1}]
  /\ UNCHANGED <<pane, stage, lo, hi, missed>>

\* Err(Lagged(n)) is logged; the receiver goes on from the oldest chunk kept.
Lagged(c) ==
  /\ stage[c] = "live"
  /\ Lags(c)
  /\ pos' = [pos EXCEPT ![c] = sent - BroadcastCap]
  /\ missed' = [missed EXCEPT ![c] = @ + (sent - BroadcastCap - pos[c])]
  /\ UNCHANGED <<pane, stage, lo, hi, got>>

\* The worker's broadcast is closed when no Sender is left; the single daemon's
\* never is, because the connection's own Arc<PaneState> holds one.
Closed == owner = "worker" /\ reader = "ended" /\ ~listed

\* Mutant: only the close_token ends a connection.
EndTokenOnly(c) ==
  /\ stage[c] = "live"
  /\ token
  /\ stage' = [stage EXCEPT ![c] = "done"]
  /\ UNCHANGED <<pane, pos, lo, hi, got, missed>>

\* The cancelled token wins the select! at any time; a closed broadcast is only
\* seen once everything in it was received.
End(c) ==
  /\ stage[c] = "live"
  /\ token \/ (Closed /\ pos[c] = sent)
  /\ stage' = [stage EXCEPT ![c] = "done"]
  /\ UNCHANGED <<pane, pos, lo, hi, got, missed>>

\* Writing to the socket fails.
Disconnect(c) ==
  /\ stage[c] \in {"send_snapshot", "live"}
  /\ stage' = [stage EXCEPT ![c] = "gone"]
  /\ UNCHANGED <<pane, pos, lo, hi, got, missed>>

-----------------------------------------------------------------------------
StreamInit ==
  /\ owner \in Owners
  /\ reader = "read" /\ pushed = 0 /\ sent = 0
  /\ listed = TRUE /\ token = FALSE
  /\ stage = [c \in Connections |-> "start"]
  /\ pos = [c \in Connections |-> 0]
  /\ lo = [c \in Connections |-> 1] /\ hi = [c \in Connections |-> 0]
  /\ got = [c \in Connections |-> {}]
  /\ missed = [c \in Connections |-> 0]

Pane == ReaderPush \/ ReaderSend \/ ReaderEnd \/ CancelToken \/ Unlist

Follow(c) == \/ Snapshot(c) \/ SendSnapshot(c) \/ Subscribe(c)
             \/ Recv(c) \/ Lagged(c) \/ End(c)

StreamNext ==
  Pane \/ \E c \in Connections : Connect(c) \/ Refuse(c) \/ Follow(c) \/ Disconnect(c)

StreamSpec == StreamInit /\ [][StreamNext]_svars

-----------------------------------------------------------------------------
(* Properties *)

\* "Any live bytes that arrive after the snapshot was taken will be delivered":
\* once a worker's connection is live and has not lagged, every chunk from its
\* snapshot on was delivered or is still ahead of its receiver.  A worker
\* subscribes before it takes the snapshot.
NoGapInWorker ==
  \A c \in Connections : owner = "worker" /\ stage[c] = "live" /\ missed[c] = 0 =>
    \A n \in 1..sent : n >= lo[c] => n \in got[c] \/ n > pos[c]

\* When the pane is over, every connection to it ends: "giving clients EOF".
PaneOver == token \/ Closed
=============================================================================
