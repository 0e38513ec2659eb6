------------------------------ MODULE MCHybrid ------------------------------
(* Model-checking instance of Hybrid: the scenarios, each of which     *)
(* brings one kind of trouble.                                              *)
EXTENDS Hybrid, TLC

Scenario(workers, tasks, rpcs, faults) ==
  [workers |-> workers, tasks |-> tasks, rpcs |-> rpcs \cup {"spawn"}, faults |-> faults]

\* Until the session is first removed: RPCs and closes at the same time, events
\* that arrive late, opens that fail, a spawn that times out.
Races ==
  { Scenario(1, {1, 2}, {"open_pane", "close_pane"}, {}),
    Scenario(1, {1, 2}, {"open_pane", "report"}, {}),
    Scenario(1, {1}, {"open_pane"}, {"pty_fails"}),
    Scenario(1, {1}, {"open_pane"}, {"timeout"}) }

\* A second worker takes over, or the supervisor starts again.
Takeovers ==
  { Scenario(2, {1, 2}, {"report"}, {"crash"}),
    Scenario(2, {1, 2}, {"kill"}, {"crash"}),
    Scenario(2, {1}, {"gc"}, {"crash"}),
    Scenario(2, {1}, {}, {"timeout", "spawn_fails"}),
    Scenario(2, {1}, {}, {"restart"}) }

Crashes == { Scenario(2, {1}, {"open_pane"}, {"crash"}) }

AllScenarios == Races \cup Takeovers \cup Crashes
=============================================================================
