------------------------------ MODULE MCGuiLive ------------------------------
(***************************************************************************)
(* Two asynchronous machines of the desktop GUI that share nothing, in one *)
(* run: the connection to the daemon (GuiConn) and the GitHub link         *)
(* (GuiLink).  A behaviour is one of the active machine; the other rests   *)
(* in a quiet state of its own, in which its fairness asks for nothing.    *)
(***************************************************************************)
EXTENDS Naturals

CONSTANTS Nil

VARIABLES
  active,
  gh, chain, timer, fetch, tauri, codes, drops,
  daemon, bridge, view, task, loop, presses

L == INSTANCE GuiLink WITH Chains <- {1, 2}, MaxCodes <- 2, PollErrorLimit <- 2, MaxDrops <- 1
C == INSTANCE GuiConn WITH Ticks <- {"tick1", "tick2"}, Loops <- {1, 2}, BootRetries <- 2,
                           MaxRestarts <- 2, MaxPresses <- 2

link == <<gh, chain, timer, fetch, tauri, codes, drops>>
conn == <<daemon, bridge, view, task, loop, presses>>
vars == <<active, link, conn>>

\* Not linked, with no call under way.
LinkQuiet ==
  /\ gh = L!Idle /\ timer = Nil /\ codes = <<>> /\ drops = 0
  /\ chain = [k \in {1, 2} |-> L!Off]
  /\ fetch = [f \in L!Fetches |-> Nil]
  /\ tauri = [code |-> Nil, token |-> FALSE]

\* Booted, the daemon up, and before the first event loop.
ConnQuiet ==
  /\ daemon = [up |-> TRUE, gen |-> 1]
  /\ bridge = [client |-> 1, spawned |-> FALSE, holder |-> Nil]
  /\ view = [connected |-> TRUE, timer |-> FALSE, running |-> FALSE, active |-> FALSE, poller |-> TRUE]
  /\ task = [t \in C!Tasks |-> IF t = "boot" THEN [C!Idle EXCEPT !.at = "done"] ELSE C!Idle]
  /\ loop = [l \in {1, 2} |-> C!Off] /\ presses = 0

Init ==
  \/ active = "link" /\ L!Init /\ ConnQuiet
  \/ active = "conn" /\ LinkQuiet /\ C!Init

Link == active = "link" /\ L!Next /\ UNCHANGED <<active, conn>>
Conn == active = "conn" /\ C!Next /\ UNCHANGED <<active, link>>

Next == Link \/ Conn

Spec == Init /\ [][Next]_vars /\ L!Fairness /\ C!Fairness

\* Whatever is cancelled, started again or answered late, the modal closes and
\* no chain of github-link.ts goes on polling for ever.
LinkSettles == L!LinkSettles

\* Once the daemon is up for good the webview ends connected to it for good,
\* unless the bridge ends with a client of a daemon that died (startReconnectPoll,
\* ensure_client).
Reconnects == C!Reconnects
=============================================================================
