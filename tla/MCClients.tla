------------------------------ MODULE MCClients ------------------------------
(***************************************************************************)
(* Three clients that share nothing but the daemon each of them models, in *)
(* one run: the desktop GUI's store (GuiStore), the windowed client (Gpu)  *)
(* and the MCP server (Mcp).  A behaviour is one of the active client; the *)
(* other two stay in their initial states.                                 *)
(***************************************************************************)
EXTENDS GuiStore, Gpu, Mcp

VARIABLE active

\* What the user does, how often; what other clients and shells do, how often;
\* polls; failures; and whether the daemon is the single process.
Script(u, n, o, m, p, f, e) ==
  [user |-> u, ops |-> n, other |-> o, outs |-> m, polls |-> p, fails |-> f, single |-> e]

AllScripts ==
  { Script({"split", "closePane"}, 1, {"exit"}, 1, 0, 1, FALSE),
    Script({"split", "closePane"}, 1, {}, 0, 0, 1, TRUE),
    Script({"split"}, 1, {"exit"}, 1, 0, 0, TRUE),
    Script({"closePane"}, 1, {"split"}, 1, 0, 0, FALSE),
    Script({"split", "zoom", "click"}, 2, {}, 0, 0, 0, FALSE),
    Script({"switch", "closeSession", "rename"}, 1, {"spawn"}, 1, 0, 1, FALSE),
    Script({"newWindow"}, 1, {"exit", "kill"}, 1, 0, 0, FALSE),
    Script({"newWindow"}, 1, {}, 0, 0, 0, TRUE),
    Script({"closeWindow", "renameWindow", "window"}, 1, {"exit"}, 1, 0, 0, FALSE),
    Script({"new"}, 1, {"exit"}, 1, 0, 0, FALSE),
    Script({"goto", "renamePane"}, 1, {"spawn", "heat"}, 2, 1, 0, FALSE),
    Script({}, 0, {"exit", "split", "heat"}, 2, 0, 0, TRUE) }

vars == <<active, svars, mcpVars, gpuVars>>

AnyScript == CHOOSE s \in AllScripts : TRUE

Init ==
  /\ active \in {"gui", "mcp", "gpu"}
  /\ GuiInit /\ McpInit /\ GpuInit
  /\ active # "gui" => script = AnyScript

GuiStep == active = "gui" /\ GuiNext /\ UNCHANGED <<active, mcpVars, gpuVars>>
McpStep == active = "mcp" /\ McpNext /\ UNCHANGED <<active, svars, gpuVars>>
GpuStep == active = "gpu" /\ GpuNext /\ UNCHANGED <<active, svars, mcpVars>>

Next == GuiStep \/ McpStep \/ GpuStep

Spec == Init /\ [][Next]_vars

\* The requests of pyre-mcp are interchangeable.
AnyOrder == Permutations(Reqs)

\* The properties of GuiStore say nothing of a view in which an older answer
\* has replaced a newer one, so those states are not explored further.
NotStale == ~view.stale

\* No step is left when standard input has ended.
NotEnded == ~eof

\* The overlay, the streams and the layout of the windowed client share only the
\* commands of the user: in the longest behaviours the layout is alone.
Apart ==
  commands = MaxCommands =>
    \/ search = NewSearch /\ (\A p \in 1 .. srv.made : srv.wrote[p] = 0)
    \/ srv.events = 0 /\ calls = {}

=============================================================================
