----------------------------- MODULE PaneState -----------------------------
(***************************************************************************)
(* The state of one pane (state.rs): what the reader thread and the parser *)
(* task tell the PaneStateTracker, what a client reports with              *)
(* set_pane_state, and the engine that evaluates the tracker on its tick.  *)
(*                                                                         *)
(* Time passes in seconds (Second); an instant is modelled by its age,     *)
(* which stops counting where no comparison distinguishes it any more.     *)
(***************************************************************************)
EXTENDS Naturals, Sequences

CONSTANTS
  Hosts,       \* "single" (pty.rs), "worker" (worker.rs) or both
  ShellIdle,   \* silence after which a shell at its prompt waits
  AgentIdle,   \* AGENT_IDLE_SECS
  BlockIdle,   \* time after a block end after which a pane is idle
  Grace,       \* output this soon after the block end still belongs to it
  Window,      \* PYRE_OVERRIDE_WINDOW_SECS
  MaxQueue,    \* bound on the parse channel
  Reads,       \* what a read may hold: "text", or a marker the parser makes an event
               \* of: "A", "C", the end "D0" of a good and "D1" of a bad command
  Foregrounds, \* what may run: "shell", "interactive", "agent", "other"
  Reports,     \* the states a client may report
  Nothing

ASSUME TimeAssumption ==
  /\ {ShellIdle, AgentIdle, BlockIdle, Grace, Window, MaxQueue} \subseteq Nat
  /\ ShellIdle + Grace < BlockIdle /\ BlockIdle < AgentIdle

VARIABLES
  host,     \* "single" or "worker"
  proc,    \* the process: whether it lives, and what runs in its foreground
  quiet,    \* history: seconds since the pane really wrote something
  inHand,   \* the chunk the reader thread has in its hands, Nothing if none
  parseq,   \* the parse channel
  trk       \* the PaneStateTracker

pvars == <<host, proc, quiet, inHand, parseq, trk>>

Later(age, cap) == IF age < cap THEN age + 1 ELSE age

-----------------------------------------------------------------------------
(* The tracker *)

\* Mutant: the reader thread does not report what it reads.
MutantTouchOutput(t) == t

\* touch_output; after says that the last output is not part of the last block.
TouchOutput(t) ==
  [t EXCEPT !.out = 0, !.after = t.dAge # Nothing /\ t.dAge >= Grace]

\* push_marker.
PushMarker(t, m) ==
  IF m \in {"D0", "D1"} THEN [t EXCEPT !.marker = m, !.dAge = 0, !.after = FALSE]
                        ELSE [t EXCEPT !.marker = m]

\* apply: the first time a pane is done its user has not seen it.
Apply(t, k) ==
  IF t.state = k THEN t
  ELSE [t EXCEPT !.state = k, !.seen = @ /\ k # "Done"]

\* The rules of evaluate, in their order.
Heuristic(t) ==
  CASE ~proc.alive -> IF t.marker = "D1" THEN "Crashed" ELSE "Done"
    [] proc.alive /\ t.fg = "interactive" -> "Interactive"
    [] proc.alive /\ t.fg # "interactive" ->
         IF \/ t.marker = "A" /\ t.out > ShellIdle /\ t.fg = "shell"
            \/ t.agent = "agent" /\ t.out > AgentIdle
         THEN "WaitingInput"
         ELSE IF t.dAge # Nothing /\ t.dAge > BlockIdle /\ ~t.after THEN "Idle" ELSE "Running"

\* evaluate: a report of the client wins while its window is open.
Evaluate(t) ==
  IF t.over # Nothing /\ t.over.left > 0 THEN Apply(t, t.over.state)
  ELSE Apply([t EXCEPT !.over = Nothing], Heuristic([t EXCEPT !.over = Nothing]))

-----------------------------------------------------------------------------
(* The actors *)

\* The pane writes, and its reader thread has the bytes: it tells the tracker
\* of the single daemon.  The reader thread of a worker does not know the tracker.
Read(c) ==
  /\ proc.alive
  /\ inHand = Nothing
  /\ Len(parseq) < MaxQueue
  /\ quiet' = 0
  /\ trk' = IF host = "single" THEN TouchOutput(trk) ELSE trk
  /\ inHand' = IF host = "single" THEN c ELSE Nothing
  /\ UNCHANGED <<host, proc, parseq>>

\* ... and passes them on to the parser task.
Send ==
  /\ inHand # Nothing
  /\ parseq' = Append(parseq, inHand)
  /\ inHand' = Nothing
  /\ UNCHANGED <<host, proc, quiet, trk>>

\* The parser task pushes the markers it finds.
ParseMarker ==
  /\ parseq # <<>>
  /\ trk' = IF Head(parseq) = "text" THEN trk ELSE PushMarker(trk, Head(parseq))
  /\ parseq' = Tail(parseq)
  /\ UNCHANGED <<host, proc, quiet, inHand>>

\* What is the direct child of the shell changes, or the shell exits.
Foreground(f) ==
  /\ proc.alive
  /\ proc' = [proc EXCEPT !.fg = f]
  /\ UNCHANGED <<host, quiet, inHand, parseq, trk>>

Exit ==
  /\ proc.alive
  /\ proc' = [proc EXCEPT !.alive = FALSE]
  /\ UNCHANGED <<host, quiet, inHand, parseq, trk>>

\* set_pane_state and mark_pane_seen.
SetPaneState(k) ==
  /\ trk' = [trk EXCEPT !.over = [state |-> k, left |-> Window]]
  /\ UNCHANGED <<host, proc, quiet, inHand, parseq>>

MarkPaneSeen ==
  /\ trk' = [trk EXCEPT !.seen = TRUE]
  /\ UNCHANGED <<host, proc, quiet, inHand, parseq>>

\* foreground_of and classify_foreground: nothing is found of a dead process,
\* and the tracker keeps the agent it had.
Inspect(t) ==
  IF proc.alive THEN [t EXCEPT !.fg = proc.fg, !.agent = proc.fg]
                 ELSE [t EXCEPT !.fg = Nothing]

\* The 500 ms tick of the engine.
EngineTick ==
  /\ trk' = Evaluate(Inspect(trk))
  /\ UNCHANGED <<host, proc, quiet, inHand, parseq>>

\* The window of a report closes.
Expire(r) == IF r = Nothing \/ r.left = 0 THEN r ELSE [r EXCEPT !.left = r.left - 1]

\* A second passes.
Second ==
  /\ quiet' = Later(quiet, AgentIdle + 1)
  /\ trk' = [trk EXCEPT !.out = Later(@, AgentIdle + 1),
                        !.dAge = IF @ = Nothing THEN Nothing ELSE Later(@, BlockIdle + 1),
                        !.over = Expire(@)]
  /\ UNCHANGED <<host, proc, inHand, parseq>>

-----------------------------------------------------------------------------
StateInit ==
  /\ host \in Hosts
  /\ proc = [alive |-> TRUE, fg |-> "shell"]
  /\ quiet = 0
  /\ inHand = Nothing /\ parseq = <<>>
  /\ trk = [state |-> "Running", seen |-> TRUE, out |-> 0, dAge |-> Nothing, after |-> FALSE,
            marker |-> Nothing, fg |-> Nothing, agent |-> Nothing, over |-> Nothing]

StateNext ==
  \/ \E c \in Reads : Read(c)
  \/ Send \/ ParseMarker
  \/ \E f \in Foregrounds : Foreground(f)
  \/ Exit
  \/ \E k \in Reports : SetPaneState(k)
  \/ MarkPaneSeen \/ EngineTick \/ Second

StateSpec == StateInit /\ [][StateNext]_pvars

-----------------------------------------------------------------------------
(* Properties *)

\* "the next output byte immediately resets last_output_at, and the state
\* returns to Running on the next tick": the engine does not find a pane
\* waiting or idle that wrote something a moment ago, however far the parser is
\* behind the reader, unless its client said so.
ActiveNotWaiting ==
  [][EngineTick /\ quiet <= ShellIdle /\ trk'.over = Nothing
       => trk'.state \notin {"WaitingInput", "Idle"}]_pvars
=============================================================================
