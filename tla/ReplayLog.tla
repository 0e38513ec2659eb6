----------------------------- MODULE ReplayLog -----------------------------
(***************************************************************************)
(* What a pane's replay buffer promises (the module comment of             *)
(* ringbuf.rs): the newest cap bytes of the output, oldest first.          *)
(***************************************************************************)
EXTENDS Naturals, Sequences

CONSTANTS
  Byte,
  Cap,        \* capacity in bytes
  MaxChunk    \* bound on the bytes of one push

VARIABLES
  log,        \* what a snapshot returns
  input       \* the bytes of the last push

Chunks == UNION {[1..n -> Byte] : n \in 0..MaxChunk}

\* The newest n elements of s.
Newest(n, s) == IF Len(s) <= n THEN s ELSE SubSeq(s, Len(s) - n + 1, Len(s))

Init == log = <<>> /\ input = <<>>
Next == \E bytes \in Chunks : input' = bytes /\ log' = Newest(Cap, log \o bytes)
Spec == Init /\ [][Next]_<<log, input>>
=============================================================================
