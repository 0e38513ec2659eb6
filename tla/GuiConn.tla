------------------------------- MODULE GuiConn -------------------------------
(***************************************************************************)
(* The desktop GUI's connection to the daemon: boot, the background        *)
(* reconnect poll, the two Reconnect buttons and the event long poll       *)
(* (gui/src/main.ts), over the bridge's cached client (src-tauri/lib.rs).  *)
(*                                                                         *)
(* The async functions of the webview are tasks that interleave at their   *)
(* awaits.  The bridge's commands hold one mutex while they connect.       *)
(* loadInitial is one await here; GuiStore models what it does.            *)
(***************************************************************************)
EXTENDS Naturals, FiniteSets

CONSTANTS
  Ticks,          \* ids of the attempts of the reconnect interval, which may overlap
  Loops,          \* ids of the instances of runEventLoop
  BootRetries,    \* BOOT_RETRIES
  MaxRestarts,    \* bound on the daemon's deaths and starts by others
  MaxPresses,     \* bound on the presses of a Reconnect button
  Nil

VARIABLES
  daemon,     \* is the socket served, and by which start of the daemon
  bridge,     \* Inner: client, spawn_attempted, and the task that holds the mutex
  view,       \* connected, reconnectTimer, eventLoopRunning, eventLoopActive, startPolling's interval
  task,       \* boot, the attempts, and the status bar's button
  loop,       \* the instances of runEventLoop
  presses

cvars == <<daemon, bridge, view, task, loop, presses>>

Tasks == {"boot", "panel", "bar"} \union Ticks
Idle == [at |-> "idle", force |-> FALSE, n |-> 0]
At(p, c) == [at |-> p, client |-> c]
Off == At("off", Nil)
Answered(b) == IF b THEN "yes" ELSE "no"

(***************************************************************************)
(* The bridge.                                                             *)
(***************************************************************************)
\* Mutant: after an attempt to spawn the daemon it is not looked for again.
MutantConnect(b, d) == IF b.client # Nil THEN b.client ELSE IF d.up /\ ~b.spawned THEN d.gen ELSE Nil

\* The client ensure_client gets without spawning: the cached one, dead or
\* alive, or a new connection.
Connect(b, d) == IF b.client # Nil THEN b.client ELSE IF d.up THEN d.gen ELSE Nil

\* daemon_status and reconnect, from the mutex to the answer or to the spawn.
\* reconnect drops the cached client first.
Command(t) ==
  LET b == IF task[t].force THEN [bridge EXCEPT !.client = Nil] ELSE bridge
      c == Connect(b, daemon)
  IN
  /\ task[t].at = "asked" /\ bridge.holder = Nil
  /\ IF c # Nil \/ b.spawned
     THEN /\ bridge' = [b EXCEPT !.client = c]
          /\ task' = [task EXCEPT ![t].at = Answered(c # Nil)]
     ELSE \/ /\ bridge' = [b EXCEPT !.spawned = TRUE]      \* no binary, or the fork fails
             /\ task' = [task EXCEPT ![t].at = "no"]
          \/ /\ bridge' = [b EXCEPT !.spawned = TRUE, !.holder = t]
             /\ task' = [task EXCEPT ![t].at = "waiting"]
  /\ UNCHANGED <<daemon, view, loop, presses>>

\* poll_socket_ready ends (the socket is there, or five seconds are over), and
\* ensure_client connects once more.
SocketReady(t) ==
  /\ task[t].at = "waiting"
  /\ \/ daemon' = [up |-> TRUE, gen |-> IF daemon.up THEN daemon.gen ELSE daemon.gen + 1]
     \/ UNCHANGED daemon
  /\ bridge' = [bridge EXCEPT !.holder = Nil, !.client = IF daemon'.up THEN daemon'.gen ELSE Nil]
  /\ task' = [task EXCEPT ![t].at = Answered(daemon'.up)]
  /\ UNCHANGED <<view, loop, presses>>

(***************************************************************************)
(* The webview.                                                            *)
(***************************************************************************)
Connected(b) == [view EXCEPT !.connected = b]

StartEventLoop(v) ==
  IF v.running \/ ~v.connected THEN view' = v /\ UNCHANGED loop
  ELSE \E l \in Loops :
          /\ loop[l] = Off
          /\ view' = [v EXCEPT !.running = TRUE, !.active = TRUE]
          /\ loop' = [loop EXCEPT ![l] = At("top", Nil)]

\* boot: probe, again after a back-off, then load or start the reconnect poll.
BootAnswered ==
  LET t == task["boot"] IN
  /\ \/ /\ t.at = "no" /\ t.n + 1 < BootRetries
        /\ task' = [task EXCEPT !["boot"] = [t EXCEPT !.at = "asked", !.n = @ + 1]]
        /\ UNCHANGED <<view, loop>>
     \/ /\ t.at = "no" /\ t.n + 1 >= BootRetries
        /\ task' = [task EXCEPT !["boot"].at = "splash"]
        /\ view' = [Connected(FALSE) EXCEPT !.timer = TRUE]
        /\ UNCHANGED loop
     \/ /\ t.at = "yes"
        /\ task' = [task EXCEPT !["boot"].at = "loading"]
        /\ view' = Connected(TRUE)
        /\ UNCHANGED loop
     \/ /\ t.at = "loading"
        /\ task' = [task EXCEPT !["boot"].at = "splash"]
        /\ StartEventLoop(view)
     \/ /\ t.at = "splash"       \* closeSplash, startPolling
        /\ task' = [task EXCEPT !["boot"].at = "done"]
        /\ view' = [view EXCEPT !.poller = TRUE]
        /\ UNCHANGED loop
  /\ UNCHANGED <<daemon, bridge, presses>>

\* The interval of startReconnectPoll fires.
ReconnectTick ==
  /\ view.timer
  /\ IF view.connected
     THEN view' = [view EXCEPT !.timer = FALSE] /\ UNCHANGED task
     ELSE \E t \in Ticks :
            /\ task[t].at = "idle"
            /\ task' = [task EXCEPT ![t].at = "asked"]
            /\ UNCHANGED view
  /\ UNCHANGED <<daemon, bridge, loop, presses>>

\* The Reconnect buttons: the daemon-down panel's attempt, and the status
\* bar's, which only sets the state.
Press(t) ==
  /\ t \in {"panel", "bar"} /\ task[t].at = "idle" /\ ~view.connected
  /\ task["boot"].at \in {"splash", "done"}
  /\ presses < MaxPresses
  /\ presses' = presses + 1
  /\ task' = [task EXCEPT ![t] = [at |-> "asked", force |-> TRUE, n |-> 0]]
  /\ UNCHANGED <<daemon, bridge, view, loop>>

\* attemptReconnect after its call.
AttemptAnswered(t) ==
  /\ t \in Ticks \union {"panel"}
  /\ \/ /\ task[t].at = "yes"
        /\ task' = [task EXCEPT ![t].at = "loading"]
        /\ view' = [Connected(TRUE) EXCEPT !.timer = FALSE]
        /\ UNCHANGED loop
     \/ /\ task[t].at = "no"
        /\ task' = [task EXCEPT ![t] = Idle]
        /\ view' = [Connected(FALSE) EXCEPT !.active = FALSE, !.timer = TRUE]
        /\ UNCHANGED loop
     \/ /\ task[t].at = "loading"
        /\ task' = [task EXCEPT ![t] = Idle]
        /\ StartEventLoop(view)
  /\ UNCHANGED <<daemon, bridge, presses>>

\* The status bar's button after its call.
BarAnswered ==
  /\ task["bar"].at \in {"yes", "no"}
  /\ view' = Connected(task["bar"].at = "yes")
  /\ task' = [task EXCEPT !["bar"] = Idle]
  /\ UNCHANGED <<daemon, bridge, loop, presses>>

\* The interval of startPolling while disconnected; connected, it refreshes
\* (GuiStore).
PollTick ==
  /\ view.poller /\ ~view.connected
  /\ view' = [view EXCEPT !.active = FALSE, !.timer = TRUE]
  /\ UNCHANGED <<daemon, bridge, task, loop, presses>>

(***************************************************************************)
(* runEventLoop: the head of the loop, and the long poll.  poll_events     *)
(* takes the client under the mutex and polls without it.                  *)
(***************************************************************************)
LoopTop(l) ==
  /\ loop[l].at = "top"
  /\ IF view.active /\ view.connected
     THEN loop' = [loop EXCEPT ![l] = At("asked", Nil)] /\ UNCHANGED view
     ELSE loop' = [loop EXCEPT ![l] = Off] /\ view' = [view EXCEPT !.running = FALSE]
  /\ UNCHANGED <<daemon, bridge, task, presses>>

\* ensure_client in poll_events (the daemon was spawned, or answered, before).
PollEvents(l) ==
  LET c == Connect(bridge, daemon) IN
  /\ loop[l].at = "asked" /\ bridge.holder = Nil
  /\ bridge' = [bridge EXCEPT !.client = c]
  /\ loop' = [loop EXCEPT ![l] = At(IF c = Nil THEN "backoff" ELSE "polling", c)]
  /\ UNCHANGED <<daemon, view, task, presses>>

\* The events are applied, or the client is dead and the loop backs off.
Polled(l) ==
  /\ \/ /\ loop[l].at = "polling"
        /\ loop' = [loop EXCEPT ![l] = IF daemon.up /\ loop[l].client = daemon.gen
                                       THEN At("top", Nil) ELSE At("backoff", Nil)]
     \/ /\ loop[l].at = "backoff"
        /\ loop' = [loop EXCEPT ![l] = At("top", Nil)]
  /\ UNCHANGED <<daemon, bridge, view, task, presses>>

\* The daemon dies, or somebody starts it.
Restart ==
  /\ daemon.gen < MaxRestarts
  /\ daemon' = IF daemon.up THEN [daemon EXCEPT !.up = FALSE]
               ELSE [up |-> TRUE, gen |-> daemon.gen + 1]
  /\ UNCHANGED <<bridge, view, task, loop, presses>>

\* AppState of the bridge as Default makes it.
Unconnected == [client |-> Nil, spawned |-> FALSE, holder |-> Nil]

Init ==
  /\ daemon \in [up : BOOLEAN, gen : {1}]
  /\ bridge = Unconnected
  /\ view = [connected |-> FALSE, timer |-> FALSE, running |-> FALSE, active |-> FALSE, poller |-> FALSE]
  /\ task = [t \in Tasks |-> IF t = "boot" THEN [Idle EXCEPT !.at = "asked"] ELSE Idle]
  /\ loop = [l \in Loops |-> Off]
  /\ presses = 0

\* A task goes on, and so does an event loop.
TaskStep(t) ==
  \/ Command(t) \/ SocketReady(t) \/ AttemptAnswered(t)
  \/ t = "boot" /\ BootAnswered
  \/ t = "bar" /\ BarAnswered

LoopStep(l) == LoopTop(l) \/ PollEvents(l) \/ Polled(l)

Next ==
  \/ \E t \in Tasks : TaskStep(t) \/ Press(t)
  \/ \E l \in Loops : LoopStep(l)
  \/ ReconnectTick \/ PollTick \/ Restart

\* Intervals fire and calls return.  The mutex is held across an await once at
\* most (the daemon is spawned once), so weak fairness will do.  Nobody has to
\* press a button or to start the daemon.
Fairness ==
  /\ WF_cvars(ReconnectTick) /\ WF_cvars(PollTick)
  /\ \A t \in Tasks : WF_cvars(TaskStep(t))
  /\ \A l \in Loops : WF_cvars(LoopStep(l))

Spec == Init /\ [][Next]_cvars /\ Fairness

\* The webview is connected, and its bridge to the daemon that runs; and the
\* bridge keeps the client of one that has died.
Live  == view.connected /\ bridge.client = daemon.gen
Stale == bridge.client \notin {Nil, daemon.gen}

\* Once the daemon is up for good the webview ends connected to it for good,
\* whatever answers of earlier attempts are still to come (startReconnectPoll,
\* attemptReconnect, ensure_client: the interval is armed again after each
\* failure), unless the bridge ends with a client of a daemon that died: ensure_client
\* hands that out for ever, and only a Reconnect button drops it.
Reconnects == (<>[]daemon.up) => (<>[]Live \/ <>[]Stale)
=============================================================================
