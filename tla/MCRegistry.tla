----------------------------- MODULE MCRegistry -----------------------------
(* Model-checking instance of Registry: one RPC at a time with two windows *)
(* or with three panes, and two RPCs at a time.                            *)
EXTENDS Registry

Scenario(tasks, windows, ids, rpcs) ==
  [tasks |-> tasks, windows |-> windows, panes |-> ids, rpcs |-> rpcs]

Layout == {"spawn", "open_pane", "split", "weight", "close_pane", "kill", "gc"}

AllScenarios ==
  { Scenario({1}, {1, 2}, {1, 2}, RpcNames),
    Scenario({1}, {1}, {1, 2, 3}, Layout),
    Scenario({1, 2}, {1}, {1, 2}, {"spawn", "open_pane", "close_pane", "kill", "gc"}) }
=============================================================================
