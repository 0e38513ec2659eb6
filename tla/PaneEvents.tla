----------------------------- MODULE PaneEvents -----------------------------
(***************************************************************************)
(* The pane-event bus: SessionRegistry::emit_event / events_after in       *)
(* session.rs (the supervisor's PaneEventBus is the same code), the        *)
(* long-poll handler next_pane_event, and the cursor loop every client     *)
(* (TUI, GPU, MCP) runs around it.                                         *)
(*                                                                         *)
(* An event is its sequence number.  emit_event is three steps, because    *)
(* the counter is bumped outside the ring lock and the broadcast is sent   *)
(* after the lock is released; tasks on different threads interleave       *)
(* between them.  A batch is abstracted to the set of events in it and its *)
(* last element, which is all a client looks at.                           *)
(***************************************************************************)
EXTENDS Integers, Sequences

CONSTANTS
  Emitters,   \* daemon tasks that call emit_event
  Clients,    \* long-poll loops
  RingCap,    \* EVENT_RING_CAP: the ring and the broadcast buffer
  MaxSeq,     \* bound on the events emitted
  MaxFails,   \* bound on failed RPCs
  MaxRestarts \* bound on restarts of the daemon

ASSUME RingCapAssumption == RingCap \in Nat \ {0}
ASSUME BoundsAssumption  == {MaxSeq, MaxFails, MaxRestarts} \subseteq Nat

VARIABLES
  seq,        \* the AtomicU64
  ring,       \* event_ring, oldest first
  chan,       \* everything ever sent on event_tx; receivers keep a position
  epc,        \* where each emitter is in emit_event
  eseq,       \* the sequence number it drew
  emits,      \* history: "serial", or "raced" after two emits overlapped or a restart
  cpc,        \* where each client's poll is
  after,      \* after_seq of the poll in progress
  pos,        \* the poll's broadcast receiver: entries of chan consumed
  batch,      \* events collected by the poll, as a set
  last,       \* the last event pushed into the collected vector
  cursor,     \* the client's own `seq`
  received,   \* history: the events of this daemon run delivered to the client
  fails,      \* RPCs that failed so far
  restarts    \* times the daemon was restarted

emitVars   == <<seq, ring, chan, epc, eseq, emits>>
pollVars   == <<cpc, after, pos, batch, last>>
clientVars == <<cursor, received>>
faultVars  == <<fails, restarts>>
vars       == <<emitVars, pollVars, clientVars, faultVars>>

RingSet == {ring[i] : i \in DOMAIN ring}

-----------------------------------------------------------------------------
(* emit_event *)

\* seq.fetch_add(1) + 1
EmitAssign(e) ==
  /\ epc[e] = "idle"
  /\ seq < MaxSeq
  /\ seq' = seq + 1
  /\ eseq' = [eseq EXCEPT ![e] = seq + 1]
  /\ epc' = [epc EXCEPT ![e] = "push"]
  /\ emits' = IF \A f \in Emitters : epc[f] = "idle" THEN emits ELSE "raced"
  /\ UNCHANGED <<ring, chan, pollVars, clientVars, faultVars>>

\* Under the ring lock: drop the oldest entry of a full ring, then append.
EmitPush(e) ==
  /\ epc[e] = "push"
  /\ ring' = Append(IF Len(ring) >= RingCap THEN Tail(ring) ELSE ring, eseq[e])
  /\ epc' = [epc EXCEPT ![e] = "send"]
  /\ UNCHANGED <<seq, chan, eseq, emits, pollVars, clientVars, faultVars>>

\* event_tx.send, outside the lock.
EmitSend(e) ==
  /\ epc[e] = "send"
  /\ chan' = Append(chan, eseq[e])
  /\ epc' = [epc EXCEPT ![e] = "idle"]
  /\ UNCHANGED <<seq, ring, eseq, emits, pollVars, clientVars, faultVars>>

-----------------------------------------------------------------------------
(* events_after: subscribe, then read the ring under its lock *)

\* The client's loop calls next_pane_event with its cursor.
PollSubscribe(c) ==
  /\ cpc[c] = "idle"
  /\ cpc' = [cpc EXCEPT ![c] = "drain"]
  /\ after' = [after EXCEPT ![c] = cursor[c]]
  /\ pos' = [pos EXCEPT ![c] = Len(chan)]
  /\ batch' = [batch EXCEPT ![c] = {}]
  /\ UNCHANGED <<emitVars, last, clientVars, faultVars>>

\* The ring entries newer than a, and the index of the last of them.
NewerThan(a)        == {s \in RingSet : s > a}
IsLastNewer(i, a)   == ring[i] > a /\ \A j \in (i + 1)..Len(ring) : ring[j] <= a

\* Read the ring: with history the poll goes to nextpc, without it waits.
ReadRing(c, nextpc) ==
  \/ /\ NewerThan(after[c]) = {}
     /\ cpc' = [cpc EXCEPT ![c] = "wait"]
     /\ UNCHANGED <<batch, last>>
  \/ \E i \in DOMAIN ring :
       /\ IsLastNewer(i, after[c])
       /\ batch' = [batch EXCEPT ![c] = NewerThan(after[c])]
       /\ last' = [last EXCEPT ![c] = ring[i]]
       /\ cpc' = [cpc EXCEPT ![c] = nextpc]

\* History found on entry is returned at once.
PollDrain(c) ==
  /\ cpc[c] = "drain"
  /\ ReadRing(c, "reply")
  /\ UNCHANGED <<emitVars, after, pos, clientVars, faultVars>>

-----------------------------------------------------------------------------
(* The body of next_pane_event after an empty history *)

\* The broadcast buffer keeps the newest RingCap entries.
Lagged(c) == Len(chan) - pos[c] > RingCap
Ready(c)  == pos[c] < Len(chan) /\ ~Lagged(c)

Collect(c, s) ==
  /\ batch' = [batch EXCEPT ![c] = @ \cup {s}]
  /\ last' = [last EXCEPT ![c] = s]

\* Mutant: the `ev.seq > after_seq` test is missing.
RecvFirstUnfiltered(c) ==
  /\ cpc[c] = "wait"
  /\ Ready(c)
  /\ pos' = [pos EXCEPT ![c] = @ + 1]
  /\ Collect(c, chan[pos[c] + 1])
  /\ cpc' = [cpc EXCEPT ![c] = "coalesce"]
  /\ UNCHANGED <<emitVars, after, clientVars, faultVars>>

\* rx.recv() = Ok(ev): a fresh event starts the batch, a stale one is skipped.
RecvFirst(c) ==
  /\ cpc[c] = "wait"
  /\ Ready(c)
  /\ pos' = [pos EXCEPT ![c] = @ + 1]
  /\ \/ /\ chan[pos[c] + 1] > after[c]
        /\ Collect(c, chan[pos[c] + 1])
        /\ cpc' = [cpc EXCEPT ![c] = "coalesce"]
     \/ /\ chan[pos[c] + 1] <= after[c]
        /\ UNCHANGED <<cpc, batch, last>>
  /\ UNCHANGED <<emitVars, after, clientVars, faultVars>>

\* Mutant: after a lag the poll goes on waiting without reading the ring.
LagSubscribeNoDrain(c) ==
  /\ cpc[c] = "wait"
  /\ Lagged(c)
  /\ pos' = [pos EXCEPT ![c] = Len(chan)]
  /\ UNCHANGED <<emitVars, cpc, after, batch, last, clientVars, faultVars>>

\* Err(Lagged): events_after again, first half.
LagSubscribe(c) ==
  /\ cpc[c] = "wait"
  /\ Lagged(c)
  /\ pos' = [pos EXCEPT ![c] = Len(chan)]
  /\ cpc' = [cpc EXCEPT ![c] = "redrain"]
  /\ UNCHANGED <<emitVars, after, batch, last, clientVars, faultVars>>

\* Second half: missed events break into the coalescing loop.
LagDrain(c) ==
  /\ cpc[c] = "redrain"
  /\ ReadRing(c, "coalesce")
  /\ UNCHANGED <<emitVars, after, pos, clientVars, faultVars>>

\* Inside the 1 ms window: a fresh event joins the batch, anything else ends it.
CoalesceRecv(c) ==
  /\ cpc[c] = "coalesce"
  /\ Ready(c)
  /\ pos' = [pos EXCEPT ![c] = @ + 1]
  /\ \/ /\ chan[pos[c] + 1] > after[c]
        /\ Collect(c, chan[pos[c] + 1])
        /\ UNCHANGED cpc
     \/ /\ chan[pos[c] + 1] <= after[c]
        /\ cpc' = [cpc EXCEPT ![c] = "reply"]
        /\ UNCHANGED <<batch, last>>
  /\ UNCHANGED <<emitVars, after, clientVars, faultVars>>

\* The window elapses, or the receiver lagged.
CoalesceEnd(c) ==
  /\ cpc[c] = "coalesce"
  /\ cpc' = [cpc EXCEPT ![c] = "reply"]
  /\ UNCHANGED <<emitVars, after, pos, batch, last, clientVars, faultVars>>

\* Mutant: an empty reply moves the client's cursor to the bus counter.
PollTimeoutSkips(c) ==
  /\ cpc[c] = "wait"
  /\ cpc' = [cpc EXCEPT ![c] = "idle"]
  /\ cursor' = [cursor EXCEPT ![c] = seq]
  /\ UNCHANGED <<emitVars, after, pos, batch, last, received, faultVars>>

\* The deadline passes with nothing collected: an empty reply, cursor kept.
PollTimeout(c) ==
  /\ cpc[c] = "wait"
  /\ cpc' = [cpc EXCEPT ![c] = "idle"]
  /\ UNCHANGED <<emitVars, after, pos, batch, last, clientVars, faultVars>>

\* Mutant: the client checkpoints the bus counter, not its last event.
ReplyCheckpointsCounter(c) ==
  /\ cpc[c] = "reply"
  /\ cpc' = [cpc EXCEPT ![c] = "idle"]
  /\ received' = [received EXCEPT ![c] = @ \cup batch[c]]
  /\ cursor' = [cursor EXCEPT ![c] = seq]
  /\ UNCHANGED <<emitVars, after, pos, batch, last, faultVars>>

\* The client takes the batch and checkpoints the seq of its last event.
Reply(c) ==
  /\ cpc[c] = "reply"
  /\ cpc' = [cpc EXCEPT ![c] = "idle"]
  /\ received' = [received EXCEPT ![c] = @ \cup batch[c]]
  /\ cursor' = [cursor EXCEPT ![c] = last[c]]
  /\ UNCHANGED <<emitVars, after, pos, batch, last, faultVars>>

\* The RPC fails at any point; the client reconnects with the same cursor.
PollFail(c) ==
  /\ cpc[c] # "idle"
  /\ fails < MaxFails
  /\ fails' = fails + 1
  /\ cpc' = [cpc EXCEPT ![c] = "idle"]
  /\ UNCHANGED <<emitVars, after, pos, batch, last, clientVars, restarts>>

\* The daemon is restarted: the bus starts over, every RPC in flight fails, and
\* the clients reconnect with the cursor they have.
Restart ==
  /\ restarts < MaxRestarts
  /\ restarts' = restarts + 1
  /\ seq' = 0
  /\ ring' = <<>>
  /\ chan' = <<>>
  /\ epc' = [e \in Emitters |-> "idle"]
  /\ eseq' = [e \in Emitters |-> 0]
  /\ emits' = "raced"
  /\ cpc' = [c \in Clients |-> "idle"]
  /\ pos' = [c \in Clients |-> 0]
  /\ received' = [c \in Clients |-> {}]
  /\ UNCHANGED <<after, batch, last, cursor, fails>>

-----------------------------------------------------------------------------
Init ==
  /\ seq = 0
  /\ ring = <<>>
  /\ chan = <<>>
  /\ epc = [e \in Emitters |-> "idle"]
  /\ eseq = [e \in Emitters |-> 0]
  /\ emits = "serial"
  /\ cpc = [c \in Clients |-> "idle"]
  /\ after = [c \in Clients |-> 0]
  /\ pos = [c \in Clients |-> 0]
  /\ batch = [c \in Clients |-> {}]
  /\ last = [c \in Clients |-> 0]
  /\ cursor = [c \in Clients |-> 0]
  /\ received = [c \in Clients |-> {}]
  /\ fails = 0
  /\ restarts = 0

Emit(e) == EmitAssign(e) \/ EmitPush(e) \/ EmitSend(e)

\* The steps of the poll other than failures of the environment.
Poll(c) ==
  \/ PollSubscribe(c) \/ PollDrain(c)
  \/ RecvFirst(c) \/ LagSubscribe(c) \/ LagDrain(c) \/ PollTimeout(c)
  \/ CoalesceRecv(c) \/ CoalesceEnd(c) \/ Reply(c)

Next ==
  \/ \E e \in Emitters : Emit(e)
  \/ \E c \in Clients : Poll(c) \/ PollFail(c)
  \/ Restart

Spec == Init /\ [][Next]_vars

\* The runtime keeps running tasks that are ready, and the client loops forever.
FairSpec ==
  /\ Spec
  /\ \A e \in Emitters : WF_vars(EmitPush(e) \/ EmitSend(e))
  /\ \A c \in Clients : WF_vars(Poll(c))

-----------------------------------------------------------------------------
(* Properties *)

PollStates == {"idle", "drain", "wait", "redrain", "coalesce", "reply"}

\* Every variable keeps its type; the ring and the receivers stay in bounds.
TypeOK ==
  /\ seq \in Nat
  /\ ring \in Seq(Nat) /\ Len(ring) <= RingCap
  /\ chan \in Seq(Nat)
  /\ epc \in [Emitters -> {"idle", "push", "send"}]
  /\ eseq \in [Emitters -> Nat]
  /\ emits \in {"serial", "raced"}
  /\ cpc \in [Clients -> PollStates]
  /\ after \in [Clients -> Nat]
  /\ pos \in [Clients -> Nat] /\ \A c \in Clients : pos[c] <= Len(chan)
  /\ batch \in [Clients -> SUBSET Nat]
  /\ last \in [Clients -> Nat]
  /\ cursor \in [Clients -> Nat]
  /\ received \in [Clients -> SUBSET Nat]
  /\ fails \in Nat /\ restarts \in Nat

\* An event the poll's own receiver will still hand to it: sent after it
\* subscribed and not consumed yet, or pushed and about to be sent.
WillReceive(c, s) ==
  \/ \E i \in (pos[c] + 1)..Len(chan) : chan[i] = s
  \/ \E e \in Emitters : epc[e] = "send" /\ eseq[e] = s

\* next_pane_event: "no event can slip through" between reading the ring and
\* waiting on the broadcast.  A poll that waits never waits past an event the
\* ring already holds for it: each of them is still coming to its receiver.
NoGapWhileWaiting ==
  \A c \in Clients : cpc[c] = "wait" =>
    \A s \in RingSet : s > after[c] => WillReceive(c, s)

\* emit_event: "slow subscribers catch up from the event_ring on their next
\* call to events_after; no event is permanently lost".  An event the ring
\* still holds but a client's cursor has passed can never reach that client
\* again, so it must have been delivered.
NoEventPermanentlyLost ==
  \A c \in Clients : \A s \in RingSet : s <= cursor[c] => s \in received[c]

\* The promise holds as long as the daemon runs on and no two tasks are inside
\* emit_event at the same time.
NothingLostInOrder == emits = "serial" => NoEventPermanentlyLost

\* The cursor a client checkpoints never goes back, whatever the order of the
\* events in the ring and however many polls fail.
CursorNeverGoesBack == [][\A c \in Clients : cursor'[c] >= cursor[c]]_vars

\* Long-poll delivery, through timeouts, lags and failed RPCs: an event in the
\* ring reaches every client, unless newer ones push it out of the ring first.
EveryEventDelivered ==
  \A c \in Clients : \A s \in 1..MaxSeq :
    (emits = "serial" /\ s \in RingSet)
      ~> (s \in received[c] \/ s \notin RingSet \/ emits = "raced")
=============================================================================
