-------------------------------- MODULE MCTui --------------------------------
(***************************************************************************)
(* The two halves of the terminal client in one run: what follows the      *)
(* daemon (Tui) and what the overlays do with keys, mouse and answers      *)
(* (TuiInput).  A behaviour is one of the half that part names; the other  *)
(* half stays as it starts.                                                *)
(***************************************************************************)
EXTENDS Tui, TuiInput

Scenario(a, p, o, t) ==
  [acts |-> a, panes |-> p, ops |-> o, trouble |-> t]

AllScenarios ==
  { Scenario({"spawn", "exit", "u_click", "die"}, 2, 1, 0),
    Scenario({"exit", "u_tab", "u_click", "u_move", "u_close"}, 2, 2, 0),
    Scenario({"split", "exit"}, 3, 0, 1),
    Scenario({"exit", "u_split", "u_close"}, 3, 2, 1),
    Scenario({"spawn", "exit"}, 2, 0, 1),
    Scenario({"spawn", "exit", "u_close"}, 2, 1, 0),
    Scenario({"window", "exit", "u_tab"}, 3, 1, 0),
    Scenario({"split", "select", "u_move", "u_click"}, 2, 1, 0),
    Scenario({"u_tab", "u_move"}, 3, 3, 0),
    Scenario({"exit", "u_session", "u_click"}, 3, 2, 0) }

\* One group of overlays at a time.
Group(k, a, p, o, w) == [keys |-> k, acts |-> a, panes |-> p, ops |-> o, env |-> w]

AllInputs ==
  { Group({"prefix", "/", "char", "back", "up", "down", "enter", "esc"}, {"click"}, 1, 6, 0),
    Group({"prefix", "S", "enter"}, {"menu", "exit"}, 2, 5, 2),
    Group({"down", "up", "enter", "q"}, {"menu"}, 1, 4, 0),
    Group({"prefix", "x", "c"}, {"prune"}, 2, 4, 2),
    Group({"prefix", "[", "]", "left", "right", "enter", "up", "pgdn"}, {"blocks", "chip", "wheel"}, 1, 4, 2),
    Group({"prefix", "s", "up", "down", "enter", "pgup", "N"}, {"meta", "click", "wheel"}, 2, 4, 2),
    Group({"prefix", "N"}, {"toast"}, 1, 2, 3),
    Group({"prefix", "S", ",", "char", "back", "enter", "?"}, {"click", "paste", "prune"}, 1, 4, 1),
    Group({"prefix", "T", "up", "down", "enter", "q"}, {"drag"}, 2, 5, 0),
    Group({"prefix", "z", "%"}, {"exit", "drag"}, 2, 4, 1) }

VARIABLE part

allVars == <<part, vars, ivars>>

AnyScenario == CHOOSE s \in AllScenarios : TRUE
AnyInput    == CHOOSE g \in AllInputs : TRUE

MCInit ==
  /\ part \in {"view", "input"}
  /\ Init /\ InputInit
  /\ IF part = "view" THEN inp = AnyInput ELSE scn = AnyScenario

ViewStep  == part = "view" /\ Next /\ UNCHANGED <<part, ivars>>
InputStep == part = "input" /\ InputNext /\ UNCHANGED <<part, vars>>

\* The fairness of Tui and TuiInput, each for its own behaviours.
MCSpec ==
  /\ MCInit /\ [][ViewStep \/ InputStep]_allVars
  /\ []<>(part = "view" => pc \in {"poll", "end", "quit", "astray"})
  /\ SF_allVars(part = "view" /\ SyncList /\ UNCHANGED <<part, ivars>>)
  /\ WF_allVars(part = "input" /\ InputLoop /\ UNCHANGED <<part, vars>>)
  /\ SF_allVars(part = "input" /\ PressEsc /\ UNCHANGED <<part, vars>>)
=============================================================================
