-------------------------- MODULE PaneEvents_proofs --------------------------
(***************************************************************************)
(* Proofs about the pane-event bus, for any number of emitters and clients *)
(* and any capacity of the ring.                                           *)
(***************************************************************************)
EXTENDS PaneEvents, TLAPS

\* The ring and the broadcast channel hold sequence numbers.
LEMMA RingFacts ==
  ASSUME TypeOK
  PROVE  /\ \A i \in DOMAIN ring : ring[i] \in Nat
         /\ \A i \in 1..Len(chan) : chan[i] \in Nat
         /\ RingSet \subseteq Nat
BY DEF TypeOK, RingSet

\* The type invariant: every step of every emitter and client keeps the ring
\* within EVENT_RING_CAP and every receiver within what was sent.
THEOREM TypeCorrect == Spec => []TypeOK
<1>1. Init => TypeOK
  BY RingCapAssumption DEF Init, TypeOK, PollStates
<1>2. TypeOK /\ [Next]_vars => TypeOK'
  <2> SUFFICES ASSUME TypeOK, [Next]_vars PROVE TypeOK'
    OBVIOUS
  <2> USE RingCapAssumption DEF emitVars, pollVars, clientVars, faultVars
  <2>1. ASSUME NEW e \in Emitters, EmitAssign(e) PROVE TypeOK'
    BY <2>1 DEF TypeOK, EmitAssign
  <2>2. ASSUME NEW e \in Emitters, EmitPush(e) PROVE TypeOK'
    <3>1. ring' \in Seq(Nat) /\ Len(ring') <= RingCap
      BY <2>2 DEF TypeOK, EmitPush
    <3> QED BY <2>2, <3>1 DEF TypeOK, EmitPush
  <2>3. ASSUME NEW e \in Emitters, EmitSend(e) PROVE TypeOK'
    <3>1. chan' \in Seq(Nat) /\ Len(chan') = Len(chan) + 1
      BY <2>3 DEF TypeOK, EmitSend
    <3> QED BY <2>3, <3>1 DEF TypeOK, EmitSend
  <2>4. ASSUME NEW c \in Clients, PollSubscribe(c) PROVE TypeOK'
    BY <2>4 DEF TypeOK, PollSubscribe, PollStates
  <2>5. ASSUME NEW c \in Clients, NEW pc \in {"reply", "coalesce"}, ReadRing(c, pc)
        PROVE  /\ cpc' \in [Clients -> PollStates]
               /\ batch' \in [Clients -> SUBSET Nat]
               /\ last' \in [Clients -> Nat]
    <3>1. NewerThan(after[c]) \in SUBSET Nat
      BY RingFacts DEF NewerThan
    <3>2. \A i \in DOMAIN ring : ring[i] \in Nat
      BY RingFacts
    <3>3. CASE NewerThan(after[c]) = {} /\ cpc' = [cpc EXCEPT ![c] = "wait"]
               /\ UNCHANGED <<batch, last>>
      BY <3>3 DEF TypeOK, PollStates
    <3>4. ASSUME NEW i \in DOMAIN ring,
                 batch' = [batch EXCEPT ![c] = NewerThan(after[c])],
                 last' = [last EXCEPT ![c] = ring[i]],
                 cpc' = [cpc EXCEPT ![c] = pc]
          PROVE  /\ cpc' \in [Clients -> PollStates]
                 /\ batch' \in [Clients -> SUBSET Nat]
                 /\ last' \in [Clients -> Nat]
      BY <3>1, <3>2, <3>4 DEF TypeOK, PollStates
    <3> QED BY <2>5, <3>3, <3>4 DEF ReadRing
  <2>6. ASSUME NEW c \in Clients, PollDrain(c) \/ LagDrain(c) PROVE TypeOK'
    BY <2>5, <2>6 DEF TypeOK, PollDrain, LagDrain
  <2>7. ASSUME NEW c \in Clients, RecvFirst(c) \/ CoalesceRecv(c) PROVE TypeOK'
    <3>1. pos[c] + 1 \in 1..Len(chan)
      BY <2>7 DEF TypeOK, RecvFirst, CoalesceRecv, Ready
    <3>2. chan[pos[c] + 1] \in Nat
      BY <3>1 DEF TypeOK
    <3>3. batch[c] \cup {chan[pos[c] + 1]} \in SUBSET Nat
      BY <3>2 DEF TypeOK
    <3>4. Collect(c, chan[pos[c] + 1]) =>
            batch' \in [Clients -> SUBSET Nat] /\ last' \in [Clients -> Nat]
      BY <3>2, <3>3 DEF TypeOK, Collect
    <3>5. batch' \in [Clients -> SUBSET Nat] /\ last' \in [Clients -> Nat]
      BY <2>7, <3>4 DEF TypeOK, RecvFirst, CoalesceRecv
    <3>6. cpc' \in [Clients -> PollStates]
      BY <2>7 DEF TypeOK, RecvFirst, CoalesceRecv, PollStates
    <3>7. pos' = [pos EXCEPT ![c] = pos[c] + 1]
      BY <2>7 DEF RecvFirst, CoalesceRecv
    <3>8. UNCHANGED <<emitVars, after, clientVars, faultVars>>
      BY <2>7 DEF RecvFirst, CoalesceRecv
    <3>9. pos' \in [Clients -> Nat] /\ \A d \in Clients : pos'[d] <= Len(chan')
      BY <3>1, <3>7, <3>8 DEF TypeOK
    <3> QED BY <3>5, <3>6, <3>8, <3>9 DEF TypeOK
  <2>8. ASSUME NEW c \in Clients, LagSubscribe(c) PROVE TypeOK'
    BY <2>8 DEF TypeOK, LagSubscribe, PollStates
  <2>9. ASSUME NEW c \in Clients, CoalesceEnd(c) \/ PollTimeout(c) PROVE TypeOK'
    BY <2>9 DEF TypeOK, CoalesceEnd, PollTimeout, PollStates
  <2>10. ASSUME NEW c \in Clients, Reply(c) PROVE TypeOK'
    <3>1. received[c] \cup batch[c] \in SUBSET Nat
      BY DEF TypeOK
    <3>2. received' \in [Clients -> SUBSET Nat]
      BY <2>10, <3>1 DEF TypeOK, Reply
    <3> QED BY <2>10, <3>2 DEF TypeOK, Reply, PollStates
  <2>13. ASSUME NEW c \in Clients, PollFail(c) PROVE TypeOK'
    BY <2>13 DEF TypeOK, PollFail, PollStates
  <2>11. CASE Restart
    BY <2>11 DEF TypeOK, Restart, PollStates
  <2>12. CASE UNCHANGED vars
    BY <2>12 DEF TypeOK, vars
  <2> QED
    BY <2>1, <2>2, <2>3, <2>4, <2>6, <2>7, <2>8, <2>9, <2>10, <2>11, <2>12, <2>13
    DEF Next, Emit, Poll
<1> QED BY <1>1, <1>2, PTL DEF Spec
-----------------------------------------------------------------------------
\* Steps that leave the bus and one client's poll alone, in the part of the
\* state that NoGapWhileWaiting reads.
GapFrame(d) == /\ UNCHANGED <<ring, chan, epc, eseq>>
               /\ cpc'[d] = cpc[d] /\ after'[d] = after[d] /\ pos'[d] = pos[d]

\* No gap between reading the ring and waiting on the broadcast: a poll waits
\* only while every newer event of the ring is still on its way to its
\* receiver, with any number of emitters interleaved anywhere in emit_event.
THEOREM NoGap == Spec => []NoGapWhileWaiting
<1>1. Init => NoGapWhileWaiting
  BY DEF Init, NoGapWhileWaiting
<1>2. TypeOK /\ TypeOK' /\ NoGapWhileWaiting /\ [Next]_vars => NoGapWhileWaiting'
  <2> SUFFICES ASSUME TypeOK, TypeOK', NoGapWhileWaiting, [Next]_vars,
                      NEW d \in Clients, cpc'[d] = "wait",
                      NEW s \in RingSet', s > after'[d]
               PROVE  WillReceive(d, s)'
    BY DEF NoGapWhileWaiting
  <2> USE DEF emitVars, pollVars, clientVars, faultVars
  <2>0. s \in Nat /\ pos[d] \in Nat /\ pos[d] <= Len(chan) /\ Len(chan) \in Nat
    <3>1. ring' \in Seq(Nat)
      BY DEF TypeOK
    <3>2. PICK i \in DOMAIN ring' : s = ring'[i]
      BY DEF RingSet
    <3>3. s \in Nat
      BY <3>1, <3>2
    <3> QED BY <3>3 DEF TypeOK
  <2>1. ASSUME GapFrame(d) PROVE WillReceive(d, s)'
    <3>1. cpc[d] = "wait" /\ s \in RingSet /\ s > after[d]
      BY <2>1 DEF GapFrame, RingSet
    <3> QED BY <2>1, <3>1 DEF GapFrame, NoGapWhileWaiting, WillReceive
  <2>2. ASSUME NEW e \in Emitters, EmitAssign(e) PROVE WillReceive(d, s)'
    <3>1. cpc[d] = "wait" /\ s \in RingSet /\ s > after[d]
      BY <2>2 DEF EmitAssign, RingSet
    <3>2. WillReceive(d, s)
      BY <3>1 DEF NoGapWhileWaiting
    <3>3. \A f \in Emitters : epc[f] = "send" => epc'[f] = "send" /\ eseq'[f] = eseq[f]
      BY <2>2 DEF EmitAssign, TypeOK
    <3> QED BY <2>2, <3>2, <3>3 DEF WillReceive, EmitAssign
  <2>3. ASSUME NEW e \in Emitters, EmitPush(e) PROVE WillReceive(d, s)'
    <3>1. cpc[d] = "wait" /\ s > after[d]
      BY <2>3 DEF EmitPush
    <3>2. s \in RingSet \/ s = eseq[e]
      BY <2>3 DEF EmitPush, RingSet, TypeOK
    <3>3. epc'[e] = "send" /\ eseq'[e] = eseq[e]
      BY <2>3 DEF EmitPush, TypeOK
    <3>4. \A f \in Emitters : epc[f] = "send" => epc'[f] = "send" /\ eseq'[f] = eseq[f]
      BY <2>3 DEF EmitPush, TypeOK
    <3>5. CASE s = eseq[e]
      BY <3>3, <3>5 DEF WillReceive
    <3>6. CASE s \in RingSet
      <4>1. WillReceive(d, s)
        BY <3>1, <3>6 DEF NoGapWhileWaiting
      <4> QED BY <2>3, <3>4, <4>1 DEF WillReceive, EmitPush
    <3> QED BY <3>2, <3>5, <3>6
  <2>4. ASSUME NEW e \in Emitters, EmitSend(e) PROVE WillReceive(d, s)'
    <3>1. cpc[d] = "wait" /\ s \in RingSet /\ s > after[d]
      BY <2>4 DEF EmitSend, RingSet
    <3>2. WillReceive(d, s)
      BY <3>1 DEF NoGapWhileWaiting
    <3>3. /\ Len(chan') = Len(chan) + 1
          /\ chan'[Len(chan) + 1] = eseq[e]
          /\ \A i \in 1..Len(chan) : chan'[i] = chan[i]
          /\ pos' = pos
      BY <2>4 DEF EmitSend, TypeOK
    <3>4. ASSUME NEW i \in (pos[d] + 1)..Len(chan), chan[i] = s
          PROVE  WillReceive(d, s)'
      <4>1. i \in (pos'[d] + 1)..Len(chan') /\ chan'[i] = s
        BY <2>0, <3>3, <3>4
      <4> QED BY <4>1 DEF WillReceive
    <3>5. ASSUME NEW f \in Emitters, epc[f] = "send", eseq[f] = s, f # e
          PROVE  WillReceive(d, s)'
      <4>1. epc'[f] = "send" /\ eseq'[f] = s
        BY <2>4, <3>5 DEF EmitSend, TypeOK
      <4> QED BY <4>1 DEF WillReceive
    <3>6. CASE eseq[e] = s
      <4>1. Len(chan) + 1 \in (pos'[d] + 1)..Len(chan')
        BY <2>0, <3>3
      <4> QED BY <3>3, <3>6, <4>1 DEF WillReceive
    <3> QED BY <3>2, <3>4, <3>5, <3>6 DEF WillReceive
  \* A step of client c: another client's poll is not disturbed, and c itself
  \* comes to wait only with nothing newer in the ring.
  <2>5. ASSUME NEW c \in Clients, PollDrain(c) \/ LagDrain(c)
        PROVE  WillReceive(d, s)'
    <3>1. CASE c = d
      <4>1. UNCHANGED <<ring, after>> /\ cpc'[c] = "wait"
        BY <2>5, <3>1 DEF PollDrain, LagDrain
      <4>2. NewerThan(after[c]) = {}
        <5>1. ASSUME NEW pc \in {"reply", "coalesce"}, cpc' = [cpc EXCEPT ![c] = pc]
              PROVE FALSE
          BY <4>1, <5>1 DEF TypeOK
        <5> QED BY <2>5, <5>1 DEF PollDrain, LagDrain, ReadRing
      <4> QED BY <3>1, <4>1, <4>2 DEF NewerThan, RingSet
    <3>2. CASE c # d
      <4>1. cpc'[d] = cpc[d]
        BY <2>5, <3>2 DEF PollDrain, LagDrain, ReadRing, TypeOK
      <4> QED BY <2>1, <2>5, <4>1 DEF PollDrain, LagDrain, GapFrame
    <3> QED BY <3>1, <3>2
  <2>6. ASSUME NEW c \in Clients, RecvFirst(c) PROVE WillReceive(d, s)'
    <3>1. UNCHANGED <<ring, chan, epc, eseq, after>>
      BY <2>6 DEF RecvFirst
    <3>2. CASE c = d
      <4>1. chan[pos[d] + 1] <= after[d] /\ cpc[d] = "wait"
        BY <2>6, <3>2 DEF RecvFirst, TypeOK
      <4>2. s \in RingSet /\ s > after[d]
        BY <3>1 DEF RingSet
      <4>3. WillReceive(d, s)
        BY <4>1, <4>2 DEF NoGapWhileWaiting
      <4>4. pos'[d] = pos[d] + 1
        BY <2>6, <3>2 DEF RecvFirst, TypeOK
      <4>5. ASSUME NEW i \in (pos[d] + 1)..Len(chan), chan[i] = s
            PROVE  i \in (pos'[d] + 1)..Len(chan')
        <5>1. after[d] \in Nat
          BY DEF TypeOK
        <5>2. i # pos[d] + 1
          BY <2>0, <4>1, <4>2, <4>5, <5>1
        <5> QED BY <2>0, <3>1, <4>4, <5>2
      <4> QED BY <3>1, <4>3, <4>5 DEF WillReceive
    <3>3. CASE c # d
      <4>1. cpc'[d] = cpc[d] /\ pos'[d] = pos[d]
        BY <2>6, <3>3 DEF RecvFirst, TypeOK
      <4> QED BY <2>1, <3>1, <4>1 DEF GapFrame
    <3> QED BY <3>2, <3>3
  <2>7. ASSUME NEW c \in Clients,
               \/ PollSubscribe(c) \/ LagSubscribe(c) \/ CoalesceRecv(c)
               \/ CoalesceEnd(c) \/ PollTimeout(c) \/ Reply(c) \/ PollFail(c)
        PROVE  WillReceive(d, s)'
    <3>1. UNCHANGED <<ring, chan, epc, eseq>>
      BY <2>7 DEF PollSubscribe, LagSubscribe, CoalesceRecv, CoalesceEnd,
                  PollTimeout, Reply, PollFail
    <3>2. cpc'[c] # "wait"
      BY <2>7 DEF PollSubscribe, LagSubscribe, CoalesceRecv, CoalesceEnd,
                  PollTimeout, Reply, PollFail, TypeOK
    <3>3. c # d
      BY <3>2
    <3>4. cpc'[d] = cpc[d] /\ after'[d] = after[d] /\ pos'[d] = pos[d]
      BY <2>7, <3>3 DEF PollSubscribe, LagSubscribe, CoalesceRecv, CoalesceEnd,
                        PollTimeout, Reply, PollFail, TypeOK
    <3> QED BY <2>1, <3>1, <3>4 DEF GapFrame
  <2>8. CASE Restart
    BY <2>8 DEF Restart
  <2>9. CASE UNCHANGED vars
    BY <2>1, <2>9 DEF vars, GapFrame
  <2> QED
    BY <2>2, <2>3, <2>4, <2>5, <2>6, <2>7, <2>8, <2>9 DEF Next, Emit, Poll
<1> QED BY <1>1, <1>2, TypeCorrect, PTL DEF Spec
-----------------------------------------------------------------------------
(* Without overlapping emits and restarts nothing is lost *)

\* How many events have reached the ring, and the broadcast.
Pushed == IF \E e \in Emitters : epc[e] = "push" THEN seq - 1 ELSE seq
Sent   == IF \E e \in Emitters : epc[e] # "idle" THEN seq - 1 ELSE seq

\* The ring holds the newest events in order, the channel all of them.
BusInv ==
  /\ \A e \in Emitters : epc[e] # "idle" => eseq[e] = seq /\ seq > 0
  /\ Len(ring) <= Pushed
  /\ Pushed > 0 => Len(ring) > 0
  /\ \A i \in 1..Len(ring) : ring[i] = Pushed - Len(ring) + i
  /\ Len(chan) = Sent
  /\ \A i \in 1..Len(chan) : chan[i] = i

\* What a poll knows in each of its states: it works from the client's cursor;
\* a waiting receiver has consumed nothing newer; a batch misses no event of
\* the ring up to its last one, nor up to the receiver's position.
PollInv(c) ==
  /\ cursor[c] <= Pushed
  /\ cpc[c] # "idle" => after[c] = cursor[c]
  /\ cpc[c] = "wait" => pos[c] <= after[c]
  /\ cpc[c] \in {"coalesce", "reply"} => after[c] < last[c] /\ last[c] <= Pushed
  /\ cpc[c] \in {"coalesce", "reply"} =>
       \A s \in RingSet : after[c] < s /\ s <= last[c] => s \in batch[c]
  /\ cpc[c] = "coalesce" =>
       \A s \in RingSet : after[c] < s /\ s <= pos[c] => s \in batch[c]

\* No two tasks are inside emit_event.
Alone == \A e, f \in Emitters : epc[e] # "idle" /\ epc[f] # "idle" => e = f

\* The state of the bus and of the clients as long as the emits are serial.
InOrder == Alone /\ BusInv /\ (\A c \in Clients : PollInv(c)) /\ NoEventPermanentlyLost

SerialInv == emits = "serial" => InOrder

LEMMA PushedFacts ==
  ASSUME TypeOK, BusInv
  PROVE  /\ Pushed \in Nat /\ Sent \in Nat
         /\ Sent <= Pushed
         /\ \A s \in RingSet : s \in Nat /\ s <= Pushed
         /\ \A c \in Clients : pos[c] \in Nat /\ pos[c] <= Pushed
<1>1. Pushed \in Nat /\ Sent \in Nat /\ Sent <= Pushed
  BY DEF TypeOK, BusInv, Pushed, Sent
<1>2. \A s \in RingSet : s \in Nat /\ s <= Pushed
  <2> SUFFICES ASSUME NEW i \in DOMAIN ring PROVE ring[i] \in Nat /\ ring[i] <= Pushed
    BY DEF RingSet
  <2>1. ring \in Seq(Nat) /\ Len(ring) \in Nat /\ i \in 1..Len(ring)
    BY DEF TypeOK
  <2>2. ring[i] = Pushed - Len(ring) + i
    BY <2>1 DEF BusInv
  <2> QED BY <1>1, <2>1, <2>2
<1>3. \A c \in Clients : pos[c] \in Nat /\ pos[c] <= Pushed
  BY <1>1 DEF TypeOK, BusInv
<1> QED BY <1>1, <1>2, <1>3

\* A ring with nothing newer than a holds nothing at all, or its newest event
\* is at most a.
LEMMA NothingNewer ==
  ASSUME TypeOK, BusInv, NEW a \in Nat, NewerThan(a) = {}
  PROVE  Pushed <= a
<1>1. CASE Len(ring) = 0
  BY <1>1, PushedFacts DEF BusInv, TypeOK
<1>2. CASE Len(ring) > 0
  <2>1. Len(ring) \in DOMAIN ring /\ ring[Len(ring)] = Pushed
    <3>1. ring \in Seq(Nat) /\ Len(ring) \in Nat /\ Pushed \in Nat
      BY PushedFacts DEF TypeOK
    <3>2. Len(ring) \in 1..Len(ring)
      BY <1>2, <3>1
    <3>3. ring[Len(ring)] = Pushed - Len(ring) + Len(ring)
      BY <3>2 DEF BusInv
    <3> QED BY <3>1, <3>2, <3>3
  <2>2. Pushed \in RingSet
    BY <2>1 DEF RingSet
  <2> QED BY <2>2, PushedFacts DEF NewerThan
<1> QED BY <1>1, <1>2 DEF TypeOK

\* A step of the emitter keeps the bus in order; what it adds to the ring is
\* newer than all that was there.
LEMMA EmitStep ==
  ASSUME TypeOK, TypeOK', BusInv, Alone, emits' = "serial", NEW e \in Emitters, Emit(e)
  PROVE  /\ Alone' /\ BusInv'
         /\ Pushed <= Pushed'
         /\ \A s \in RingSet' : s \in RingSet \/ s > Pushed
         /\ UNCHANGED <<pollVars, clientVars>>
<1> USE DEF emitVars, pollVars, clientVars, faultVars
<1>0. \A f \in Emitters : f # e => epc[f] = "idle" /\ epc'[f] = "idle"
  BY DEF Emit, EmitAssign, EmitPush, EmitSend, Alone, TypeOK
<1>b. ASSUME NEW f \in Emitters, epc'[f] # "idle" PROVE f = e
  BY <1>0, <1>b
<1>a. Alone'
  BY <1>0 DEF Alone
<1>1. CASE EmitAssign(e)
  <2>1. Pushed = seq /\ Sent = seq
    BY <1>0, <1>1 DEF Pushed, Sent, EmitAssign
  <2>2. epc'[e] = "push" /\ seq' = seq + 1 /\ eseq'[e] = seq + 1
    BY <1>1 DEF EmitAssign, TypeOK
  <2>3. Pushed' = seq /\ Sent' = seq
    BY <2>2 DEF Pushed, Sent, TypeOK
  <2>4. \A f \in Emitters : epc'[f] # "idle" => eseq'[f] = seq' /\ seq' > 0
    BY <1>b, <2>2 DEF TypeOK
  <2>5. UNCHANGED <<ring, chan, pollVars, clientVars>>
    BY <1>1 DEF EmitAssign
  <2>6. BusInv'
    BY <2>1, <2>3, <2>4, <2>5 DEF BusInv
  <2> QED BY <1>a, <2>1, <2>3, <2>5, <2>6 DEF RingSet, TypeOK
<1>2. CASE EmitPush(e)
  <2>1. Pushed = seq - 1 /\ Sent = seq - 1 /\ eseq[e] = seq /\ seq > 0
    BY <1>0, <1>2 DEF Pushed, Sent, EmitPush, BusInv
  <2>2. epc'[e] = "send" /\ seq' = seq /\ eseq' = eseq /\ chan' = chan
    BY <1>2 DEF EmitPush, TypeOK
  <2>3. Pushed' = seq /\ Sent' = seq - 1
    BY <1>0, <2>2 DEF Pushed, Sent, TypeOK
  <2>4. ring' = IF Len(ring) >= RingCap THEN Append(Tail(ring), seq)
                                       ELSE Append(ring, seq)
    BY <1>2, <2>1 DEF EmitPush
  <2>5. /\ Len(ring') <= Pushed' /\ Len(ring') > 0
        /\ \A i \in 1..Len(ring') : ring'[i] = Pushed' - Len(ring') + i
    <3>1. CASE Len(ring) >= RingCap
      <4>1. Len(ring) > 0 /\ Len(Tail(ring)) = Len(ring) - 1
            /\ Tail(ring) \in Seq(Nat)
            /\ \A i \in 1..Len(Tail(ring)) : Tail(ring)[i] = ring[i + 1]
        BY <3>1, RingCapAssumption DEF TypeOK
      <4>2. /\ Len(ring') = Len(ring)
            /\ ring'[Len(ring)] = seq
            /\ \A i \in 1..(Len(ring) - 1) : ring'[i] = ring[i + 1]
        BY <2>4, <3>1, <4>1 DEF TypeOK
      <4>3. \A i \in 1..(Len(ring) - 1) : ring'[i] = (seq - 1) - Len(ring) + (i + 1)
        BY <2>1, <4>1, <4>2 DEF TypeOK, BusInv
      <4>4. Len(ring) \in Nat /\ seq \in Nat /\ Len(ring) <= seq - 1
        BY <2>1 DEF TypeOK, BusInv
      <4>5. ASSUME NEW i \in 1..Len(ring') PROVE ring'[i] = seq - Len(ring') + i
        <5>1. CASE i = Len(ring)
          BY <4>2, <4>4, <5>1
        <5>2. CASE i # Len(ring)
          <6>1. i \in 1..(Len(ring) - 1)
            BY <4>2, <4>4, <5>2
          <6> QED BY <4>2, <4>3, <4>4, <6>1
        <5> QED BY <5>1, <5>2
      <4> QED BY <2>3, <4>1, <4>2, <4>4, <4>5
    <3>2. CASE ~(Len(ring) >= RingCap)
      <4>1. /\ Len(ring') = Len(ring) + 1
            /\ ring'[Len(ring) + 1] = seq
            /\ \A i \in 1..Len(ring) : ring'[i] = ring[i]
        BY <2>4, <3>2 DEF TypeOK
      <4>2. Len(ring) \in Nat /\ seq \in Nat /\ Len(ring) <= seq - 1
        BY <2>1 DEF TypeOK, BusInv
      <4>3. \A i \in 1..Len(ring) : ring[i] = (seq - 1) - Len(ring) + i
        BY <2>1 DEF BusInv
      <4>4. ASSUME NEW i \in 1..Len(ring') PROVE ring'[i] = seq - Len(ring') + i
        <5>1. CASE i = Len(ring) + 1
          BY <4>1, <4>2, <5>1
        <5>2. CASE i # Len(ring) + 1
          <6>1. i \in 1..Len(ring)
            BY <4>1, <4>2, <5>2
          <6> QED BY <4>1, <4>2, <4>3, <6>1
        <5> QED BY <5>1, <5>2
      <4> QED BY <2>3, <4>1, <4>2, <4>4
    <3> QED BY <3>1, <3>2
  <2>6. BusInv'
    BY <1>0, <2>1, <2>2, <2>3, <2>5 DEF BusInv, TypeOK
  <2>7. \A s \in RingSet' : s \in RingSet \/ s > Pushed
    <3>1. RingSet' \subseteq RingSet \cup {seq}
      <4> SUFFICES ASSUME NEW i \in DOMAIN ring'
                   PROVE  ring'[i] = seq \/ \E j \in DOMAIN ring : ring'[i] = ring[j]
        BY DEF RingSet
      <4>1. ring \in Seq(Nat) /\ Len(ring) \in Nat /\ seq \in Nat
        BY DEF TypeOK
      <4>2. CASE Len(ring) >= RingCap
        <5>1. ring' = Append(Tail(ring), seq) /\ Len(ring) > 0
          BY <2>4, <4>2, RingCapAssumption
        <5>2. Tail(ring) \in Seq(Nat) /\ Len(Tail(ring)) = Len(ring) - 1
              /\ \A k \in 1..(Len(ring) - 1) : Tail(ring)[k] = ring[k + 1]
          BY <4>1, <5>1
        <5>3. i \in 1..Len(ring)
          BY <4>1, <5>1, <5>2
        <5>4. CASE i = Len(ring)
          BY <4>1, <5>1, <5>2, <5>4
        <5>5. CASE i # Len(ring)
          <6>1. i \in 1..(Len(ring) - 1) /\ i + 1 \in DOMAIN ring
            BY <4>1, <5>3, <5>5
          <6>2. ring'[i] = ring[i + 1]
            BY <4>1, <5>1, <5>2, <6>1
          <6> QED BY <6>1, <6>2
        <5> QED BY <5>4, <5>5
      <4>3. CASE ~(Len(ring) >= RingCap)
        <5>1. ring' = Append(ring, seq)
          BY <2>4, <4>3
        <5> QED BY <4>1, <5>1
      <4> QED BY <4>2, <4>3
    <3> QED BY <2>1, <3>1 DEF TypeOK
  <2>8. UNCHANGED <<pollVars, clientVars>>
    BY <1>2 DEF EmitPush
  <2> QED BY <1>a, <2>1, <2>3, <2>6, <2>7, <2>8 DEF TypeOK
<1>3. CASE EmitSend(e)
  <2>1. Pushed = seq /\ Sent = seq - 1 /\ eseq[e] = seq /\ seq > 0
    BY <1>0, <1>3 DEF Pushed, Sent, EmitSend, BusInv
  <2>2. epc'[e] = "idle" /\ seq' = seq /\ ring' = ring
    BY <1>3 DEF EmitSend, TypeOK
  <2>3. Pushed' = seq /\ Sent' = seq
    BY <1>0, <2>2 DEF Pushed, Sent
  <2>4. /\ Len(chan') = Len(chan) + 1
        /\ chan'[Len(chan) + 1] = seq
        /\ \A i \in 1..Len(chan) : chan'[i] = chan[i]
    BY <1>3, <2>1 DEF EmitSend, TypeOK
  <2>5. Len(chan') = Sent' /\ \A i \in 1..Len(chan') : chan'[i] = i
    <3>1. Len(chan) \in Nat /\ seq \in Nat /\ Len(chan) = seq - 1
      BY <2>1 DEF BusInv, TypeOK
    <3>2. \A i \in 1..Len(chan) : chan[i] = i
      BY DEF BusInv
    <3>3. ASSUME NEW i \in 1..Len(chan') PROVE chan'[i] = i
      <4>1. i \in 1..Len(chan) \/ i = Len(chan) + 1
        BY <2>4, <3>1
      <4> QED BY <2>4, <3>1, <3>2, <4>1
    <3> QED BY <2>3, <2>4, <3>1, <3>3
  <2>6. \A f \in Emitters : epc'[f] = "idle"
    BY <1>b, <2>2
  <2>7. UNCHANGED <<pollVars, clientVars>>
    BY <1>3 DEF EmitSend
  <2>8. BusInv'
    BY <2>1, <2>2, <2>3, <2>5, <2>6 DEF BusInv
  <2> QED BY <1>a, <2>1, <2>2, <2>3, <2>7, <2>8 DEF RingSet, TypeOK
<1> QED BY <1>1, <1>2, <1>3, <1>a DEF Emit

\* The state of one client, as PollInv and NoEventPermanentlyLost read it.
ClientFrame(d) ==
  /\ cpc'[d] = cpc[d] /\ after'[d] = after[d] /\ pos'[d] = pos[d]
  /\ batch'[d] = batch[d] /\ last'[d] = last[d]
  /\ cursor'[d] = cursor[d] /\ received'[d] = received[d]

\* Nothing the client's cursor passed is missing.
Delivered(c) == \A s \in RingSet : s <= cursor[c] => s \in received[c]

\* A step of the emitter does not disturb any client.
LEMMA EmitKeepsPolls ==
  ASSUME TypeOK, TypeOK', InOrder, emits' = "serial", NEW e \in Emitters, Emit(e)
  PROVE  InOrder'
<1>1. Alone /\ BusInv /\ \A c \in Clients : PollInv(c) /\ Delivered(c)
  BY DEF InOrder, NoEventPermanentlyLost, Delivered
<1>2. /\ Alone' /\ BusInv'
      /\ Pushed <= Pushed'
      /\ \A s \in RingSet' : s \in RingSet \/ s > Pushed
      /\ UNCHANGED <<pollVars, clientVars>>
  BY <1>1, EmitStep
<1>3. Pushed \in Nat /\ Pushed' \in Nat
  <2>1. Pushed \in Nat
    BY <1>1, PushedFacts
  <2>2. seq' \in Nat
    BY DEF TypeOK
  <2>3. ASSUME NEW f \in Emitters, epc'[f] = "push" PROVE seq' > 0
    BY <1>2, <2>3 DEF BusInv
  <2>4. Pushed' \in Nat
    <3>1. CASE \E f \in Emitters : epc'[f] = "push"
      <4>1. seq' > 0
        BY <2>3, <3>1
      <4>2. seq' - 1 \in Nat
        <5>1. \A n \in Nat : n > 0 => n - 1 \in Nat
          OBVIOUS
        <5> QED BY <2>2, <4>1, <5>1, Zenon
      <4>3. Pushed' = seq' - 1
        BY <3>1 DEF Pushed
      <4> QED BY <4>2, <4>3, Zenon
    <3>2. CASE ~\E f \in Emitters : epc'[f] = "push"
      BY <2>2, <3>2 DEF Pushed
    <3> QED BY <3>1, <3>2
  <2> QED BY <2>1, <2>4
<1>4. ASSUME NEW c \in Clients PROVE PollInv(c)' /\ Delivered(c)'
  <2>1. ClientFrame(c)
    BY <1>2 DEF ClientFrame, pollVars, clientVars
  <2>2. /\ cursor[c] \in Nat /\ after[c] \in Nat /\ last[c] \in Nat /\ pos[c] \in Nat
        /\ pos[c] <= Pushed
    BY <1>1, PushedFacts DEF TypeOK
  <2>3. cursor[c] <= Pushed
        /\ (cpc[c] \in {"coalesce", "reply"} => last[c] <= Pushed)
    BY <1>1 DEF PollInv
  <2>4. \A s \in RingSet' : s \in Nat
    <3>1. ring' \in Seq(Nat)
      BY DEF TypeOK
    <3> QED BY <3>1 DEF RingSet
  <2>5. Delivered(c)'
    <3> SUFFICES ASSUME NEW s \in RingSet', s <= cursor'[c] PROVE s \in received'[c]
      BY DEF Delivered
    <3>1. s \in RingSet
      BY <1>2, <1>3, <2>1, <2>2, <2>3, <2>4 DEF ClientFrame
    <3> QED BY <1>1, <2>1, <3>1 DEF ClientFrame, Delivered
  <2>6. ASSUME NEW s \in RingSet', cpc[c] \in {"coalesce", "reply"}, after[c] < s,
               s <= last[c] \/ (cpc[c] = "coalesce" /\ s <= pos[c])
        PROVE  s \in batch[c]
    <3>1. s \in RingSet
      BY <1>2, <1>3, <2>2, <2>3, <2>4, <2>6
    <3> QED BY <1>1, <2>6, <3>1 DEF PollInv
  <2>7. cursor'[c] <= Pushed'
        /\ (cpc'[c] \in {"coalesce", "reply"} => last'[c] <= Pushed')
    BY <1>2, <1>3, <2>1, <2>2, <2>3 DEF ClientFrame
  <2>8. PollInv(c)'
    BY <1>1, <2>1, <2>6, <2>7 DEF PollInv, ClientFrame
  <2> QED BY <2>5, <2>8
<1> QED BY <1>2, <1>4 DEF InOrder, NoEventPermanentlyLost, Delivered

\* A step of a client keeps its own invariant.
LEMMA PollStep ==
  ASSUME TypeOK, TypeOK', BusInv, NEW c \in Clients, PollInv(c), Delivered(c),
         Poll(c) \/ PollFail(c)
  PROVE  PollInv(c)' /\ Delivered(c)'
<1> USE DEF emitVars, pollVars, clientVars, faultVars
<1>1. UNCHANGED emitVars
  BY DEF Poll, PollFail, PollSubscribe, PollDrain, RecvFirst, LagSubscribe, LagDrain,
         PollTimeout, CoalesceRecv, CoalesceEnd, Reply
<1>2. Pushed' = Pushed /\ RingSet' = RingSet /\ chan' = chan
  BY <1>1 DEF Pushed, RingSet
<1>3. /\ cursor[c] \in Nat /\ after[c] \in Nat /\ last[c] \in Nat /\ pos[c] \in Nat
      /\ Pushed \in Nat /\ pos[c] <= Pushed
      /\ \A s \in RingSet : s \in Nat /\ s <= Pushed
      /\ c \in DOMAIN cpc /\ c \in DOMAIN after /\ c \in DOMAIN pos /\ c \in DOMAIN batch
      /\ c \in DOMAIN last /\ c \in DOMAIN cursor /\ c \in DOMAIN received
  BY PushedFacts DEF TypeOK
<1>4. CASE PollSubscribe(c)
  BY <1>2, <1>3, <1>4 DEF PollSubscribe, PollInv, Delivered
\* Nothing newer: the receiver is not past the cursor.  Otherwise the batch is
\* the whole newer part of the ring.
<1>5. ASSUME NEW pc \in {"reply", "coalesce"}, ReadRing(c, pc), cpc[c] # "idle",
             UNCHANGED <<after, pos, clientVars>>
      PROVE  PollInv(c)' /\ Delivered(c)'
  <2>1. CASE NewerThan(after[c]) = {} /\ cpc' = [cpc EXCEPT ![c] = "wait"]
    <3>1. Pushed <= after[c]
      BY <1>3, <2>1, NothingNewer
    <3> QED BY <1>2, <1>3, <1>5, <2>1, <3>1 DEF PollInv, Delivered
  <2>2. ASSUME NEW i \in DOMAIN ring, IsLastNewer(i, after[c]),
               batch' = [batch EXCEPT ![c] = NewerThan(after[c])],
               last' = [last EXCEPT ![c] = ring[i]],
               cpc' = [cpc EXCEPT ![c] = pc]
        PROVE  PollInv(c)' /\ Delivered(c)'
    <3>1. ring[i] \in RingSet /\ ring[i] > after[c]
      BY <2>2 DEF RingSet, IsLastNewer
    <3>2. last'[c] = ring[i] /\ batch'[c] = NewerThan(after[c]) /\ cpc'[c] = pc
      BY <1>3, <2>2
    <3>3. \A s \in RingSet : after[c] < s => s \in batch'[c]
      BY <1>3, <3>2 DEF NewerThan
    <3> QED BY <1>2, <1>3, <1>5, <3>1, <3>2, <3>3 DEF PollInv, Delivered
  <2> QED BY <1>5, <2>1, <2>2 DEF ReadRing
<1>6. CASE PollDrain(c) \/ LagDrain(c)
  BY <1>5, <1>6 DEF PollDrain, LagDrain
<1>7. ASSUME Ready(c) PROVE chan[pos[c] + 1] = pos[c] + 1 /\ pos[c] + 1 <= Pushed
  <2>1. pos[c] + 1 \in 1..Len(chan) /\ Len(chan) = Sent /\ Sent <= Pushed /\ Sent \in Nat
    <3>1. Len(chan) = Sent /\ Sent <= Pushed /\ Sent \in Nat
      BY PushedFacts DEF BusInv
    <3>2. pos[c] < Len(chan)
      BY <1>7 DEF Ready
    <3> QED BY <1>3, <3>1, <3>2
  <2> QED BY <1>3, <2>1 DEF BusInv
<1>8. CASE RecvFirst(c)
  <2>1. pos'[c] = pos[c] + 1 /\ cpc[c] = "wait" /\ pos[c] <= after[c]
    BY <1>3, <1>8 DEF RecvFirst, PollInv
  <2>2. CASE chan[pos[c] + 1] > after[c]
    <3>1. /\ last'[c] = pos[c] + 1 /\ batch'[c] = batch[c] \cup {pos[c] + 1}
          /\ cpc'[c] = "coalesce"
      BY <1>3, <1>7, <1>8, <2>2 DEF RecvFirst, Collect
    <3>2. after[c] = pos[c]
      BY <1>3, <1>7, <1>8, <2>1, <2>2 DEF RecvFirst
    <3>3. \A s \in RingSet : after[c] < s /\ s <= pos[c] + 1 => s \in batch'[c]
      BY <1>3, <3>1, <3>2
    <3> QED BY <1>2, <1>3, <1>7, <1>8, <2>1, <3>1, <3>2, <3>3
            DEF RecvFirst, PollInv, Delivered
  <2>3. CASE chan[pos[c] + 1] <= after[c]
    <3>1. UNCHANGED <<cpc, batch, last, after, clientVars>>
      BY <1>3, <1>7, <1>8, <2>3 DEF RecvFirst
    <3> QED BY <1>2, <1>3, <1>7, <1>8, <2>1, <2>3, <3>1
            DEF RecvFirst, PollInv, Delivered
  <2> QED BY <1>8, <2>2, <2>3 DEF RecvFirst
<1>9. CASE CoalesceRecv(c)
  <2>1. pos'[c] = pos[c] + 1 /\ cpc[c] = "coalesce"
    BY <1>3, <1>9 DEF CoalesceRecv
  <2>2. CASE chan[pos[c] + 1] > after[c] /\ Collect(c, chan[pos[c] + 1]) /\ UNCHANGED cpc
    <3>1. last'[c] = pos[c] + 1 /\ batch'[c] = batch[c] \cup {pos[c] + 1}
      BY <1>3, <1>7, <1>9, <2>2 DEF CoalesceRecv, Collect
    <3>2. \A s \in RingSet : after[c] < s /\ s <= pos[c] + 1 => s \in batch'[c]
      BY <1>3, <2>1, <3>1 DEF PollInv
    <3> QED BY <1>2, <1>3, <1>7, <1>9, <2>1, <2>2, <3>1, <3>2
            DEF CoalesceRecv, PollInv, Delivered
  <2>3. CASE cpc' = [cpc EXCEPT ![c] = "reply"] /\ UNCHANGED <<batch, last>>
    BY <1>2, <1>3, <1>9, <2>1, <2>3 DEF CoalesceRecv, PollInv, Delivered
  <2> QED BY <1>9, <2>2, <2>3 DEF CoalesceRecv
<1>10. CASE LagSubscribe(c) \/ CoalesceEnd(c) \/ PollTimeout(c) \/ PollFail(c)
  BY <1>2, <1>3, <1>10
     DEF LagSubscribe, CoalesceEnd, PollTimeout, PollFail, PollInv, Delivered
<1>11. CASE Reply(c)
  <2>1. cursor'[c] = last[c] /\ received'[c] = received[c] \cup batch[c]
        /\ cpc[c] = "reply" /\ cpc'[c] = "idle"
    BY <1>3, <1>11 DEF Reply
  <2>2. Delivered(c)'
    <3> SUFFICES ASSUME NEW s \in RingSet, s <= last[c] PROVE s \in received[c] \cup batch[c]
      BY <1>2, <2>1 DEF Delivered
    <3> QED BY <1>3, <2>1 DEF PollInv, Delivered
  <2> QED BY <1>2, <1>3, <2>1, <2>2 DEF PollInv
<1> QED BY <1>4, <1>6, <1>8, <1>9, <1>10, <1>11 DEF Poll

\* emit_event's promise, "no event is permanently lost", for any number of tasks
\* and clients: as long as no two emits overlapped and the daemon was not
\* restarted, an event still in the ring that a cursor has passed was delivered.
THEOREM NothingLost == Spec => []NothingLostInOrder
<1>1. Init => SerialInv
  BY DEF Init, SerialInv, InOrder, Alone, BusInv, PollInv, NoEventPermanentlyLost,
         RingSet, Pushed, Sent
<1>2. TypeOK /\ TypeOK' /\ SerialInv /\ [Next]_vars => SerialInv'
  <2> SUFFICES ASSUME TypeOK, TypeOK', SerialInv, [Next]_vars, emits' = "serial"
               PROVE  InOrder'
    BY DEF SerialInv
  <2> USE DEF emitVars, pollVars, clientVars, faultVars
  <2>0. emits = "serial" /\ InOrder
    <3>1. emits = "serial"
      BY DEF Next, Emit, EmitAssign, EmitPush, EmitSend, Poll, PollFail,
             PollSubscribe, PollDrain, RecvFirst, LagSubscribe, LagDrain,
             PollTimeout, CoalesceRecv, CoalesceEnd, Reply, Restart, vars
    <3> QED BY <3>1 DEF SerialInv
  <2>1. ASSUME NEW e \in Emitters, Emit(e) PROVE InOrder'
    BY <2>0, <2>1, EmitKeepsPolls
  <2>2. ASSUME NEW c \in Clients, Poll(c) \/ PollFail(c) PROVE InOrder'
    <3>1. Alone /\ BusInv /\ \A d \in Clients : PollInv(d) /\ Delivered(d)
      BY <2>0 DEF InOrder, NoEventPermanentlyLost, Delivered
    <3>2. UNCHANGED emitVars
      BY <2>2 DEF Poll, PollFail, PollSubscribe, PollDrain, RecvFirst, LagSubscribe,
                  LagDrain, PollTimeout, CoalesceRecv, CoalesceEnd, Reply
    <3>3. Alone' /\ BusInv' /\ Pushed' = Pushed /\ RingSet' = RingSet
      BY <3>1, <3>2 DEF Alone, BusInv, Pushed, Sent, RingSet
    <3>4. PollInv(c)' /\ Delivered(c)'
      BY <2>2, <3>1, PollStep
    <3>5. ASSUME NEW d \in Clients, d # c PROVE PollInv(d)' /\ Delivered(d)'
      <4>1. ClientFrame(d)
        BY <2>2, <3>5
           DEF Poll, PollFail, PollSubscribe, PollDrain, RecvFirst, LagSubscribe,
               LagDrain, PollTimeout, CoalesceRecv, CoalesceEnd, Reply, ReadRing,
               Collect, ClientFrame, TypeOK
      <4> QED BY <3>1, <3>3, <4>1 DEF PollInv, Delivered, ClientFrame
    <3> QED BY <3>3, <3>4, <3>5 DEF InOrder, NoEventPermanentlyLost, Delivered
  <2>3. ~Restart
    BY DEF Restart
  <2>4. CASE UNCHANGED vars
    BY <2>0, <2>4 DEF vars, InOrder, Alone, BusInv, PollInv, NoEventPermanentlyLost,
                      RingSet, Pushed, Sent
  <2> QED BY <2>1, <2>2, <2>3, <2>4 DEF Next
<1>3. SerialInv => NothingLostInOrder
  BY DEF SerialInv, InOrder, NothingLostInOrder
<1> QED BY <1>1, <1>2, <1>3, TypeCorrect, PTL DEF Spec

-----------------------------------------------------------------------------
\* A poll works from its client's cursor and collects only newer events.
PollAhead ==
  \A c \in Clients :
    /\ cpc[c] # "idle" => after[c] = cursor[c]
    /\ cpc[c] \in {"coalesce", "reply"} => last[c] > after[c]

\* A client's cursor never goes back: with any number of emitters, with events
\* out of order in the ring, with failed polls and restarts of the daemon.
THEOREM CursorMonotone == Spec => CursorNeverGoesBack
<1> USE DEF emitVars, pollVars, clientVars, faultVars
<1>1. Init => PollAhead
  BY DEF Init, PollAhead
<1>2. TypeOK /\ PollAhead /\ [Next]_vars => PollAhead'
  <2> SUFFICES ASSUME TypeOK, PollAhead, [Next]_vars, NEW d \in Clients
               PROVE  /\ cpc'[d] # "idle" => after'[d] = cursor'[d]
                      /\ cpc'[d] \in {"coalesce", "reply"} => last'[d] > after'[d]
    BY DEF PollAhead
  <2>1. CASE \/ \E e \in Emitters : Emit(e)
             \/ UNCHANGED vars
    BY <2>1 DEF Emit, EmitAssign, EmitPush, EmitSend, PollAhead, vars
  <2>2. ASSUME NEW c \in Clients, PollDrain(c) \/ LagDrain(c)
        PROVE  /\ cpc'[d] # "idle" => after'[d] = cursor'[d]
               /\ cpc'[d] \in {"coalesce", "reply"} => last'[d] > after'[d]
    <3>1. cpc[c] # "idle" /\ UNCHANGED <<after, cursor>>
      BY <2>2 DEF PollDrain, LagDrain
    <3>2. CASE c # d
      BY <2>2, <3>1, <3>2 DEF PollDrain, LagDrain, ReadRing, PollAhead, TypeOK
    <3>3. CASE c = d
      <4>1. after[d] = cursor[d]
        BY <3>1, <3>3 DEF PollAhead
      <4>2. cpc'[d] = "wait" \/ last'[d] > after[d]
        BY <2>2, <3>3 DEF PollDrain, LagDrain, ReadRing, IsLastNewer, TypeOK
      <4> QED BY <3>1, <4>1, <4>2
    <3> QED BY <3>2, <3>3
  <2>3. ASSUME NEW c \in Clients, RecvFirst(c) \/ CoalesceRecv(c)
        PROVE  /\ cpc'[d] # "idle" => after'[d] = cursor'[d]
               /\ cpc'[d] \in {"coalesce", "reply"} => last'[d] > after'[d]
    BY <2>3 DEF RecvFirst, CoalesceRecv, Collect, PollAhead, TypeOK
  <2>4. ASSUME NEW c \in Clients,
               \/ PollSubscribe(c) \/ LagSubscribe(c) \/ CoalesceEnd(c)
               \/ PollTimeout(c) \/ Reply(c) \/ PollFail(c)
        PROVE  /\ cpc'[d] # "idle" => after'[d] = cursor'[d]
               /\ cpc'[d] \in {"coalesce", "reply"} => last'[d] > after'[d]
    BY SMTT(20), <2>4 DEF PollSubscribe, LagSubscribe, CoalesceEnd, PollTimeout, Reply,
                PollFail, PollAhead, TypeOK
  <2>5. CASE Restart
    BY <2>5 DEF Restart
  <2> QED BY <2>1, <2>2, <2>3, <2>4, <2>5 DEF Next, Poll
<1>3. TypeOK /\ PollAhead /\ [Next]_vars =>
        [\A c \in Clients : cursor'[c] >= cursor[c]]_vars
  <2> SUFFICES ASSUME TypeOK, PollAhead, Next, NEW d \in Clients
               PROVE  cursor'[d] >= cursor[d]
    OBVIOUS
  <2>0. cursor[d] \in Nat /\ last[d] \in Nat
    BY DEF TypeOK
  <2>1. ASSUME NEW c \in Clients, Reply(c) PROVE cursor'[d] >= cursor[d]
    <3>1. CASE c = d
      <4>1. cursor'[d] = last[d]
        BY <2>1, <3>1 DEF Reply, TypeOK
      <4>2. last[d] > after[d] /\ after[d] = cursor[d]
        BY <2>1, <3>1 DEF Reply, PollAhead
      <4> QED BY <2>0, <4>1, <4>2
    <3>2. CASE c # d
      BY <2>0, <2>1, <3>2 DEF Reply, TypeOK
    <3> QED BY <3>1, <3>2
  <2>2. CASE ~\E c \in Clients : Reply(c)
    <3>1. cursor' = cursor
      BY <2>2 DEF Next, Emit, EmitAssign, EmitPush, EmitSend, Poll, PollSubscribe,
                  PollDrain, RecvFirst, LagSubscribe, LagDrain, CoalesceRecv,
                  CoalesceEnd, PollTimeout, PollFail, Restart
    <3> QED BY <2>0, <3>1
  <2> QED BY <2>1, <2>2
<1> QED BY <1>1, <1>2, <1>3, TypeCorrect, PTL DEF Spec, CursorNeverGoesBack
=============================================================================
