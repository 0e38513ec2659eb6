------------------------------ MODULE RingBuf ------------------------------
(***************************************************************************)
(* RingBuf (ringbuf.rs), the circular buffer a pane's output is kept in    *)
(* for replay.  The owner pushes under a lock, so a push is one step.      *)
(***************************************************************************)
EXTENDS Naturals, Sequences

CONSTANTS
  Byte,
  Cap,        \* capacity in bytes
  MaxChunk    \* bound on the bytes of one push (a read returns up to 4096)

\* A new buffer is filled with zeros.
ASSUME RingAssumption == Cap \in Nat /\ MaxChunk \in Nat /\ 0 \in Byte

VARIABLES
  ring,       \* the struct: buf (indices 0..Cap-1), head, len
  input       \* the bytes of the last push

Chunks == UNION {[1..n -> Byte] : n \in 0..MaxChunk}

-----------------------------------------------------------------------------
\* Mutant: head stays where it is when the oldest byte is overwritten.
PushByteHeadStays(r, b) ==
  [r EXCEPT !.buf[(r.head + r.len) % Cap] = b,
            !.len = IF r.len < Cap THEN r.len + 1 ELSE @]

\* One round of the loop of push.
PushByte(r, b) ==
  LET written == [r EXCEPT !.buf[(r.head + r.len) % Cap] = b]
  IN  IF r.len < Cap THEN [written EXCEPT !.len  = @ + 1]
                     ELSE [written EXCEPT !.head = (@ + 1) % Cap]

\* The loop of push.
PushEach(r, bytes) ==
  LET f[n \in 0..Len(bytes)] == IF n = 0 THEN r ELSE PushByte(f[n - 1], bytes[n])
  IN  f[Len(bytes)]

\* The bytes of the input that can stay: the last Cap of them.
Kept(bytes) ==
  IF Len(bytes) >= Cap THEN SubSeq(bytes, Len(bytes) - Cap + 1, Len(bytes)) ELSE bytes

Push(bytes) ==
  /\ input' = bytes
  /\ ring' = IF Cap = 0 \/ bytes = <<>> THEN ring
              ELSE PushEach(ring, Kept(bytes))

\* The one or two slices of the buffer that snapshot joins, oldest first.
Slice(r, from, to) == [i \in 1..(to - from) |-> r.buf[from + i - 1]]
RingSnapshot(r) ==
  IF r.head + r.len <= Cap
    THEN Slice(r, r.head, r.head + r.len)
    ELSE Slice(r, r.head, Cap) \o Slice(r, 0, r.len - (Cap - r.head))

RingInit == /\ ring = [buf |-> [i \in 0..(Cap - 1) |-> 0], head |-> 0, len |-> 0]
            /\ input = <<>>
RingNext == \E bytes \in Chunks : Push(bytes)
RingSpec == RingInit /\ [][RingNext]_<<ring, input>>

-----------------------------------------------------------------------------
Log == INSTANCE ReplayLog WITH log <- RingSnapshot(ring)

\* Through any sequence of pushes, of chunks shorter and longer than the buffer,
\* snapshot returns the newest Cap bytes of the output in their order.
IsReplayLog == Log!Spec
=============================================================================
