-------------------------------- MODULE Tui --------------------------------
(***************************************************************************)
(* The terminal client: the sessions, tabs, focus and pane slots of        *)
(* AppState (app/state.rs), and the event loop of run_tui (app/run.rs)     *)
(* that keeps them in step with a daemon other clients use too.            *)
(*                                                                         *)
(* The loop is one task.  A step of it ends where it awaits an RPC whose   *)
(* answer it goes on to use, so the daemon can change between a list and   *)
(* what is done about it.  A layout tree is its sequence of leaves.        *)
(* Sessions, windows and panes are numbered as they are created: a window  *)
(* or session has the number of its first pane.  Indices start at 1.       *)
(* Overlays and key bindings are in TuiInput.                              *)
(***************************************************************************)
EXTENDS Naturals, Sequences, SequencesExt, FiniteSets

CONSTANTS
  MaxPanes,    \* bound on the panes created
  Scenarios,   \* who does what in a behaviour, and how often
  Nil

Ids == 1 .. MaxPanes

ActNames == {"spawn", "split", "window", "exit", "select",
             "u_split", "u_tab", "u_session", "u_close", "u_click", "u_move", "die"}

ASSUME TuiAssumption ==
  /\ MaxPanes \in Nat /\ Nil \notin Nat
  /\ Scenarios \subseteq [acts : SUBSET ActNames, panes : Ids, ops : Nat, trouble : Nat]

VARIABLES
  scn,       \* the scenario: its acts, and bounds on the panes, the operations of
             \* the user and the refused or silent streams
  daemon,    \* the daemon's sessions: a sequence of windows each
  next,      \* the next identifier
  request,   \* a pane select-pane asked to focus
  up,        \* the daemon runs
  closing,   \* close_pane RPCs sent and not yet served
  sessions,  \* AppState.sessions
  active,    \* AppState.active_session
  slots,     \* AppState.slots: the pane, and what its stream has to say
  lost,      \* AppState.session_lost
  frame,     \* session_strip_rects and tab_chip_rects: the sessions and the tabs the
             \* last frame showed chips for
  grace,     \* less than two seconds since last_split_at
  pc,        \* where the loop is
  listed,    \* the answer of list_sessions, and how far the loop is with it
  turn,
  found,     \* the answer of list_panes
  prev,      \* prev_active_id
  known,     \* known_ids
  daemonLost,
  ops, trouble,
  asked      \* history: panes the user closed

dvars == <<scn, daemon, next, request, up>>
app   == <<sessions, active, slots, lost, frame, grace>>
rpc   == <<listed, turn, found, prev, known>>
loop  == <<pc, rpc, daemonLost>>
hist  == <<ops, trouble, asked>>
vars  == <<dvars, closing, app, loop, hist>>

\* The elements of seq at the positions in at, in their order; and the numbers of
\* a set up to n, in theirs.
Picked(seq, at) ==
  LET f[n \in 0 .. Len(seq)] ==
        IF n = 0 THEN <<>> ELSE IF n \in at THEN Append(f[n - 1], seq[n]) ELSE f[n - 1]
  IN  f[Len(seq)]
Ascending(S, n) == Picked([k \in 1 .. n |-> k], S)

May(a) == a \in scn.acts
Fresh  == next <= scn.panes

(***************************************************************************)
(* The daemon, as far as its clients can tell.                             *)
(***************************************************************************)
Window(p)  == [id |-> p, leaves |-> <<p>>]
PanesOf(d, s) == IF s \in DOMAIN d
                 THEN UNION {ToSet(d[s][j].leaves) : j \in DOMAIN d[s]} ELSE {}
Alive(p)   == \E s \in DOMAIN daemon : p \in PanesOf(daemon, s)

InsertAfter(seq, p, q) == LET k == CHOOSE k \in DOMAIN seq : seq[k] = p
                          IN  InsertAt(seq, k + 1, q)

\* split_focused: the new leaf follows the one that was split.
SplitLeaf(seq, p, q) == IF Contains(seq, p) THEN InsertAfter(seq, p, q) ELSE seq

Without(d, p) ==
  [s \in DOMAIN d |->
     LET kept == [j \in DOMAIN d[s] |->
                    [d[s][j] EXCEPT !.leaves = Picked(@, {k \in DOMAIN @ : @[k] # p})]]
     IN  Picked(kept, {j \in DOMAIN kept : kept[j].leaves # <<>>})]

\* get_layout: the first window of the session.
SessionLayout(s) == IF s \in DOMAIN daemon /\ daemon[s] # <<>>
                    THEN daemon[s][1].leaves ELSE Nil

WindowLayout(w) ==
  LET at == {x \in (DOMAIN daemon) \X Ids :
               x[2] \in DOMAIN daemon[x[1]] /\ daemon[x[1]][x[2]].id = w}
  IN  IF at = {} THEN Nil
      ELSE LET x == CHOOSE x \in at : TRUE IN daemon[x[1]][x[2]].leaves

(***************************************************************************)
(* Slots.  "open": frames arrive; "eof0" and "eofN": the Closed event      *)
(* waits, after no or some frames; "mute": it was dropped by a full        *)
(* channel.                                                                *)
(***************************************************************************)
SlotOf(ss, p) == SelectInSeq(ss, LAMBDA x : x # Nil /\ x.pane = p)
HasSlot(ss, p) == SlotOf(ss, p) # 0

Slot(p, ev) == [pane |-> p, ev |-> ev]

\* What a fresh attachment to p may be: refused although the pane lives, or
\* refused because it does not.
Attachments(p) ==
  IF ~Alive(p) THEN {Slot(p, "eof0")}
  ELSE {Slot(p, "open")} \cup (IF trouble < scn.trouble THEN {Slot(p, "eof0")} ELSE {})

Cost(x) == IF Alive(x.pane) /\ x.ev = "eof0" THEN 1 ELSE 0

\* The streams of p end; those of Mute cannot deliver the Closed event.
EndStreams(ss, p, mute) ==
  [k \in DOMAIN ss |->
     IF ss[k] # Nil /\ ss[k].pane = p /\ ss[k].ev = "open"
     THEN Slot(p, IF mute THEN "mute" ELSE "eofN") ELSE ss[k]]

(***************************************************************************)
(* Closing a pane locally: the view is what the handlers change.           *)
(***************************************************************************)
view == [sessions |-> sessions, active |-> active, slots |-> slots, closing |-> closing]

Tab(root, p, w)  == [root |-> root, focus |-> p, zoomed |-> Nil, win |-> w]
SessionView(s, p, w) == [id |-> s, tabs |-> <<Tab(<<p>>, p, w)>>, at |-> 1]
MinOf(a, b) == IF a <= b THEN a ELSE b

ActiveTab(v) == v.sessions[v.active].tabs[v.sessions[v.active].at]

locate_pane(v, p) ==
  LET at == {x \in (DOMAIN v.sessions) \X Ids :
               x[2] \in DOMAIN v.sessions[x[1]].tabs
               /\ Contains(v.sessions[x[1]].tabs[x[2]].root, p)}
  IN  IF at = {} THEN <<>>
      ELSE CHOOSE x \in at : \A y \in at : x[1] < y[1] \/ (x[1] = y[1] /\ x[2] <= y[2])

\* Mutant: active_session is not clamped when a session goes.
MutantDropTab(v, i, j) ==
  LET tabs == RemoveAt(v.sessions[i].tabs, j)
      at   == MinOf(j, Len(tabs))
  IN  IF tabs = <<>> THEN [v EXCEPT !.sessions = RemoveAt(@, i)]
      ELSE [v EXCEPT !.sessions[i] = [@ EXCEPT
              !.tabs = [tabs EXCEPT ![at].focus = Head(tabs[at].root)], !.at = at]]

\* The tab lost its only leaf: it goes, and with it a session without tabs.
DropTab(v, i, j) ==
  LET tabs == RemoveAt(v.sessions[i].tabs, j)
      left == RemoveAt(v.sessions, i)
      at   == MinOf(j, Len(tabs))
  IN  IF tabs # <<>>
      THEN [v EXCEPT !.sessions[i] = [@ EXCEPT
              !.tabs = [tabs EXCEPT ![at].focus = Head(tabs[at].root)], !.at = at]]
      ELSE [v EXCEPT !.sessions = left,
                     !.active = IF left = <<>> THEN @ ELSE MinOf(@, Len(left))]

\* LayoutNode::close: the leaf before the closed one gets the focus.
LeaveTab(v, i, j, p) ==
  LET root == v.sessions[i].tabs[j].root
      pos  == CHOOSE k \in DOMAIN root : root[k] = p
      rest == RemoveAt(root, pos)
  IN  [v EXCEPT !.sessions[i].tabs[j] =
         [@ EXCEPT !.root = rest, !.zoomed = Nil,
                   !.focus = rest[IF pos > 1 THEN pos - 1 ELSE 1]]]

close_pane_inner(v, k, fire_rpc) ==
  IF k \notin DOMAIN v.slots \/ v.slots[k] = Nil THEN v
  ELSE LET p   == v.slots[k].pane
           loc == locate_pane(v, p)
           w   == [v EXCEPT !.slots[k] = Nil,
                            !.closing = IF fire_rpc THEN @ \cup {p} ELSE @]
       IN  IF loc = <<>> THEN v
           ELSE IF v.sessions[loc[1]].tabs[loc[2]].root = <<p>>
                THEN DropTab(w, loc[1], loc[2])
                ELSE LeaveTab(w, loc[1], loc[2], p)

\* A view of which the loop goes on with.
Become(v) ==
  /\ sessions' = v.sessions /\ active' = v.active
  /\ slots' = v.slots       /\ closing' = v.closing

(***************************************************************************)
(* The daemon and its other clients.                                       *)
(***************************************************************************)
DaemonStep == /\ up
              /\ UNCHANGED <<scn, up, closing, sessions, active, lost, frame, grace, loop, ops, asked>>

OtherSpawn ==
  /\ DaemonStep /\ May("spawn") /\ Fresh
  /\ daemon' = [s \in DOMAIN daemon \cup {next} |->
                  IF s = next THEN <<Window(next)>> ELSE daemon[s]]
  /\ next' = next + 1
  /\ UNCHANGED <<request, slots, trouble>>

OtherSplit ==
  /\ DaemonStep /\ May("split") /\ Fresh
  /\ \E s \in DOMAIN daemon : \E j \in DOMAIN daemon[s] :
       \E p \in ToSet(daemon[s][j].leaves) :
         daemon' = [daemon EXCEPT ![s][j].leaves = InsertAfter(@, p, next)]
  /\ next' = next + 1
  /\ UNCHANGED <<request, slots, trouble>>

OtherWindow ==
  /\ DaemonStep /\ May("window") /\ Fresh
  /\ \E s \in DOMAIN daemon : daemon' = [daemon EXCEPT ![s] = Append(@, Window(next))]
  /\ next' = next + 1
  /\ UNCHANGED <<request, slots, trouble>>

\* The shell of p ends, by itself or killed.
Gone(p) ==
  /\ daemon' = Without(daemon, p)
  /\ \E mute \in BOOLEAN :
       /\ mute => trouble < scn.trouble /\ HasSlot(slots, p)
       /\ slots' = EndStreams(slots, p, mute)
       /\ trouble' = IF mute THEN trouble + 1 ELSE trouble

PaneExit ==
  /\ DaemonStep /\ May("exit")
  /\ \E p \in Ids : Alive(p) /\ Gone(p)
  /\ UNCHANGED <<next, request>>

\* A session without panes is listed with pane_count 0 until it is evicted.
Evict ==
  /\ DaemonStep
  /\ \E s \in DOMAIN daemon :
       /\ daemon[s] = <<>>
       /\ daemon' = [t \in DOMAIN daemon \ {s} |-> daemon[t]]
  /\ UNCHANGED <<next, request, slots, trouble>>

ServeClose ==
  /\ up
  /\ \E p \in closing :
       /\ closing' = closing \ {p}
       /\ IF Alive(p) THEN Gone(p) ELSE UNCHANGED <<daemon, slots, trouble>>
  /\ UNCHANGED <<scn, next, request, up, sessions, active, lost, frame, grace, loop, ops, asked>>

SelectPane ==
  /\ DaemonStep /\ May("select") /\ request = Nil
  /\ \E p \in Ids : Alive(p) /\ request' = p
  /\ UNCHANGED <<daemon, next, slots, trouble>>

\* The daemon process dies: every stream ends.
DaemonDies ==
  /\ up /\ May("die")
  /\ up' = FALSE
  /\ daemon' = [s \in {} |-> <<>>]
  /\ slots' = [k \in DOMAIN slots |->
                 IF slots[k] # Nil /\ slots[k].ev = "open"
                 THEN Slot(slots[k].pane, "eofN") ELSE slots[k]]
  /\ UNCHANGED <<scn, next, request, closing, sessions, active, lost, frame, grace, loop, hist>>

(***************************************************************************)
(* Start: attach to the first session that has a pane, or spawn one; then  *)
(* discover the others.                                                    *)
(***************************************************************************)
Info(s) == [id |-> s, n |-> Cardinality(PanesOf(daemon, s))]
Listing == LET q == Ascending(DOMAIN daemon, MaxPanes) IN [k \in DOMAIN q |-> Info(q[k])]

LoopStep == UNCHANGED <<dvars, ops, asked>>

StartList ==
  /\ pc = "start" /\ up /\ LoopStep
  /\ listed' = Listing
  /\ pc' = "attach"
  /\ UNCHANGED <<closing, app, turn, found, prev, known, daemonLost, trouble>>

\* Attach the first session listed with a pane; when it has none any more, or
\* none was listed, spawn one.
StartAttach ==
  /\ pc = "attach" /\ up
  /\ LET k == SelectInSeq(listed, LAMBDA x : x.n > 0)
         s == IF k = 0 THEN Nil ELSE listed[k].id
     IN  \/ /\ k # 0 /\ PanesOf(daemon, s) # {}
            /\ \E p \in PanesOf(daemon, s) :
                 /\ slots' = <<Slot(p, "open")>>
                 /\ sessions' = <<SessionView(s, p, Nil)>>
            /\ UNCHANGED <<daemon, next>>
         \/ /\ k = 0 \/ PanesOf(daemon, s) = {}
            /\ Fresh
            /\ daemon' = [t \in DOMAIN daemon \cup {next} |->
                            IF t = next THEN <<Window(next)>> ELSE daemon[t]]
            /\ slots' = <<Slot(next, "open")>>
            /\ sessions' = <<SessionView(next, next, Nil)>>
            /\ next' = next + 1
  /\ active' = 1
  /\ pc' = "eager"
  /\ UNCHANGED <<scn, request, up, closing, lost, frame, grace, rpc, daemonLost, hist>>

EagerList ==
  /\ pc = "eager" /\ LoopStep
  /\ listed' = IF up THEN Listing ELSE <<>>
  /\ known' = {sessions[1].id}
  /\ pc' = "discover"
  /\ UNCHANGED <<closing, app, turn, found, prev, daemonLost, trouble>>

\* One listed session: skip it when it is known or stale, otherwise list its
\* panes and attach to the first, which may fail.
AdoptHead ==
  LET s == listed[turn].id IN
  \/ /\ listed[turn].n = 0 \/ s \in known \/ PanesOf(daemon, s) = {}
     /\ UNCHANGED <<sessions, slots, trouble>>
  \/ /\ listed[turn].n > 0 /\ s \notin known /\ PanesOf(daemon, s) # {}
     /\ trouble < scn.trouble /\ trouble' = trouble + 1
     /\ UNCHANGED <<sessions, slots>>
  \/ /\ listed[turn].n > 0 /\ s \notin known
     /\ \E p \in PanesOf(daemon, s) : \E x \in Attachments(p) :
          /\ slots' = Append(slots, x)
          /\ sessions' = Append(sessions, SessionView(s, p, Nil))
          /\ trouble' = trouble + Cost(x)

Discover ==
  /\ pc = "discover" /\ LoopStep
  /\ IF turn > Len(listed)
     THEN pc' = "drain" /\ listed' = <<>> /\ turn' = 1 /\ known' = {} /\ UNCHANGED <<sessions, slots, trouble>>
     ELSE AdoptHead /\ turn' = turn + 1 /\ UNCHANGED <<pc, listed, known>>
  /\ UNCHANGED <<closing, active, lost, frame, grace, found, prev, daemonLost>>

(***************************************************************************)
(* The event loop.                                                         *)
(***************************************************************************)
\* Ended streams close their pane, with a close_pane RPC unless no frame came.
Closed(ss) == Ascending({k \in DOMAIN ss : ss[k] # Nil /\ ss[k].ev \in {"eof0", "eofN"}}, Len(ss))

\* try_recv has taken the Closed event out of the channel.
Consumed(ss) == [k \in DOMAIN ss |->
                   IF ss[k] # Nil /\ ss[k].ev \in {"eof0", "eofN"}
                   THEN Slot(ss[k].pane, "mute") ELSE ss[k]]

\* Mutant: the number of frames is not looked at.
MutantFiresRpc(x) == TRUE

FiresRpc(x) == x.ev = "eofN"

\* close_pane_by_slot_idx or close_pane_locally for one after the other.
CloseAll(v, ks) ==
  LET w[n \in 0 .. Len(ks)] ==
        IF n = 0 THEN v ELSE close_pane_inner(w[n - 1], ks[n], FiresRpc(slots[ks[n]]))
  IN  w[Len(ks)]

Drain ==
  /\ pc = "drain" /\ LoopStep
  /\ LET v == CloseAll([view EXCEPT !.slots = Consumed(slots)], Closed(slots))
     IN  /\ Become(v)
         /\ pc' = IF v.sessions = <<>> THEN "end" ELSE "focus"
  /\ UNCHANGED <<lost, frame, grace, rpc, daemonLost, trouble>>

\* focus_slot: only a leaf of the active tab takes the focus.
focus_slot(v, p) ==
  IF HasSlot(v.slots, p) /\ Contains(ActiveTab(v).root, p)
  THEN [v EXCEPT !.sessions[v.active].tabs[v.sessions[v.active].at].focus = p] ELSE v

apply_focus_request ==
  /\ pc = "focus"
  /\ pc' = "poll"
  /\ IF up /\ request # Nil
     THEN request' = Nil /\ Become(focus_slot(view, request))
     ELSE UNCHANGED <<request, sessions, active, slots, closing>>
  /\ UNCHANGED <<scn, daemon, next, up, lost, frame, grace, rpc, daemonLost, hist>>

SyncSkip ==
  /\ pc = "poll" /\ LoopStep
  /\ pc' = "resync"
  /\ UNCHANGED <<closing, app, rpc, daemonLost, trouble>>

SyncError ==
  /\ pc = "poll" /\ ~up /\ LoopStep
  /\ daemonLost' = TRUE
  /\ pc' = "resync"
  /\ UNCHANGED <<closing, app, rpc, trouble>>

SyncList ==
  /\ pc = "poll" /\ up /\ LoopStep
  /\ listed' = Listing
  /\ prev' = sessions[active].id
  /\ known' = {sessions[i].id : i \in DOMAIN sessions}
  /\ pc' = "adopt"
  /\ UNCHANGED <<closing, app, turn, found, daemonLost, trouble>>

\* The first pass adopts the sessions not known yet.  Afterwards known is what
\* the daemon listed, which the pruning compares with.
SyncAdopt ==
  /\ pc = "adopt" /\ LoopStep
  /\ IF turn > Len(listed)
     THEN /\ pc' = "panes" /\ turn' = 1
          /\ known' = {listed[k].id : k \in DOMAIN listed}
          /\ UNCHANGED <<sessions, slots, trouble>>
     ELSE AdoptHead /\ turn' = turn + 1 /\ UNCHANGED <<pc, known>>
  /\ UNCHANGED <<closing, active, lost, frame, grace, listed, found, prev, daemonLost>>

IndexOf(id) == SelectInSeq(sessions, LAMBDA x : x.id = id)

LocalLeaves(i) == UNION {ToSet(sessions[i].tabs[j].root) : j \in DOMAIN sessions[i].tabs}

\* list_panes of one listed session; the answer waits in found.
SyncPanes ==
  /\ pc = "panes" /\ turn <= Len(listed) /\ LoopStep
  /\ IF IndexOf(listed[turn].id) = 0 \/ listed[turn].id \notin DOMAIN daemon
     THEN turn' = turn + 1 /\ UNCHANGED <<pc, found>>
     ELSE /\ found' = PanesOf(daemon, listed[turn].id)
          /\ pc' = "layout"
          /\ UNCHANGED turn
  /\ UNCHANGED <<closing, app, listed, prev, known, daemonLost, trouble>>

\* A slot for every pane that has none, except where attach_pane fails.
Missing(ss, panes) == {p \in panes : up /\ ~HasSlot(ss, p)}

AttachAll(ss, panes) ==
  UNION {LET new == Ascending(got, MaxPanes)
         IN  {ss \o xs : xs \in {f \in [DOMAIN new -> UNION {Attachments(p) : p \in panes}] :
                                   \A k \in DOMAIN new : f[k].pane = new[k]}}
         : got \in SUBSET Missing(ss, panes)}

TotalCost(ss, from, panes) ==
  Cardinality({k \in DOMAIN ss : k > Len(from) /\ Cost(ss[k]) = 1}) + Cardinality(Missing(ss, panes))

\* Replace the root of a tab, keeping the focus when it is still a leaf.
ApplyLayout(tab, root) ==
  [tab EXCEPT !.root = root, !.focus = IF Contains(root, @) THEN @ ELSE Head(root)]

FallbackTabs(tabs, ss, panes) ==
  LET shown == Ascending({p \in panes : HasSlot(ss, p)}, MaxPanes)
  IN  tabs \o [k \in DOMAIN shown |-> Tab(<<shown[k]>>, shown[k], shown[k])]

\* Mutant: panes the daemon no longer lists keep their slot.
MutantPruneSlots(ss, gone) == ss

PruneSlots(ss, gone) == [k \in DOMAIN ss |-> IF k \in gone THEN Nil ELSE ss[k]]

\* New panes of the session: the layout of its first window goes into the
\* active tab, or each pane into a tab of its own when there is no layout.
\* Then the slots of panes the daemon did not list are dropped.
SyncLayout ==
  /\ pc = "layout" /\ LoopStep
  /\ LET i   == IndexOf(listed[turn].id)
         new == found \ LocalLeaves(i)
         lay == SessionLayout(listed[turn].id)
     IN  \E ss \in IF new = {} THEN {slots} ELSE AttachAll(slots, new) :
           LET tabs == sessions[i].tabs
               at   == sessions[i].at
               tt   == IF new = {} THEN tabs
                       ELSE IF lay # Nil THEN [tabs EXCEPT ![at] = ApplyLayout(@, lay)]
                       ELSE FallbackTabs(tabs, ss, new)
               gone == {SlotOf(ss, p) : p \in UNION {ToSet(tt[j].root) : j \in DOMAIN tt} \ found}
           IN  /\ trouble' = trouble + (IF new = {} THEN 0 ELSE TotalCost(ss, slots, new))
               /\ trouble' <= scn.trouble
               /\ sessions' = [sessions EXCEPT ![i].tabs = tt]
               /\ slots' = PruneSlots(ss, gone)
  /\ turn' = turn + 1
  /\ pc' = "panes"
  /\ found' = {}
  /\ UNCHANGED <<closing, active, lost, frame, grace, listed, prev, known, daemonLost>>

\* By id, else the last session.
restore_active_session(ss, id) ==
  LET i == SelectInSeq(ss, LAMBDA x : x.id = id)
  IN  IF i # 0 THEN i ELSE IF ss # <<>> THEN Len(ss) ELSE active

SyncPrune ==
  /\ pc = "panes" /\ turn > Len(listed) /\ LoopStep
  /\ LET left == Picked(sessions, {i \in DOMAIN sessions : sessions[i].id \in known})
     IN  /\ sessions' = left
         /\ active' = restore_active_session(left, prev)
         /\ pc' = IF left = <<>> THEN "end" ELSE "resync"
         /\ daemonLost' = IF left = <<>> THEN TRUE ELSE daemonLost
  /\ listed' = <<>> /\ turn' = 1 /\ known' = {} /\ prev' = Nil
  /\ UNCHANGED <<closing, slots, lost, frame, grace, found, trouble>>

\* Session-lost detection on the view v, before the frame is drawn.
LiveTab(v, i, j) == \E p \in ToSet(v.sessions[i].tabs[j].root) : HasSlot(v.slots, p)

DetectLost(v) ==
  LET i    == v.active
      at   == v.sessions[i].at
      alt  == {j \in DOMAIN v.sessions[i].tabs : j # at /\ LiveTab(v, i, j)}
      alts == {k \in DOMAIN v.sessions : k # i /\ LiveTab(v, k, v.sessions[k].at)}
      Least(S) == CHOOSE x \in S : \A y \in S : x <= y
  IN  IF LiveTab(v, i, at) THEN [v |-> v, lost |-> FALSE]
      ELSE IF lost THEN [v |-> v, lost |-> TRUE]
      ELSE IF alt # {} THEN [v |-> [v EXCEPT !.sessions[i].at = Least(alt)], lost |-> FALSE]
      ELSE IF alts # {} THEN [v |-> [v EXCEPT !.active = Least(alts)], lost |-> FALSE]
      ELSE [v |-> v, lost |-> TRUE]

\* While the session is lost the overlay is all that is drawn: the chips the mouse
\* can hit are those of the last frame before.
Draw(v) ==
  LET d == DetectLost(v)
  IN  /\ Become(d.v) /\ lost' = d.lost /\ pc' = "event"
      /\ frame' = IF d.lost THEN frame
                  ELSE [sessions |-> Len(d.v.sessions),
                        tabs     |-> Len(d.v.sessions[d.v.active].tabs)]

ResyncSkip ==
  /\ pc = "resync" /\ LoopStep
  /\ Draw(view)
  /\ UNCHANGED <<grace, rpc, daemonLost, trouble>>

\* The layout of the active tab's window, or of its session while the window
\* is not known, replaces the tab's unless the user has just split it.
Resync ==
  /\ pc = "resync" /\ up /\ LoopStep
  /\ LET tab == ActiveTab(view)
         lay == IF tab.win # Nil THEN WindowLayout(tab.win)
                ELSE SessionLayout(sessions[active].id)
     IN  /\ lay # Nil
         /\ \E ss \in AttachAll(slots, ToSet(lay)) :
              LET at == sessions[active].at
                  v  == [view EXCEPT !.slots = ss]
              IN  /\ trouble' = trouble + TotalCost(ss, slots, ToSet(lay))
                  /\ trouble' <= scn.trouble
                  /\ Draw(IF tab.root = lay \/ grace THEN v
                          ELSE [v EXCEPT !.sessions[active].tabs[at] = ApplyLayout(@, lay)])
  /\ UNCHANGED <<grace, rpc, daemonLost>>

GraceOver ==
  /\ grace /\ grace' = FALSE
  /\ UNCHANGED <<dvars, closing, sessions, active, slots, lost, frame, loop, hist>>

(***************************************************************************)
(* What the user does: one event per turn of the loop.                     *)
(***************************************************************************)
At(where) == pc = where /\ UNCHANGED <<scn, lost, frame, rpc, daemonLost, trouble>>
Event == At("event")

NoEvent == Event /\ pc' = "drain" /\ UNCHANGED <<dvars, closing, sessions, active, slots, grace, ops, asked>>

UserOp(a) == May(a) /\ ops < scn.ops /\ ops' = ops + 1

\* The session-lost overlay takes every key, not the mouse.
KeyOp(a) == UserOp(a) /\ ~lost

\* A local change of the view, without an RPC whose answer matters.
LocalOp(v) == /\ Event /\ Become(v)
              /\ pc' = IF v.sessions = <<>> THEN "end" ELSE "drain"
              /\ UNCHANGED <<dvars, grace>>

\* split_active: the daemon splits the focused pane, the new one is attached,
\* and the tab follows without waiting for the daemon's layout.
split_active ==
  /\ Event /\ pc' = "drain" /\ UserOp("u_split") /\ up /\ Fresh
  /\ LET at  == sessions[active].at
         tab == ActiveTab(view)
         p   == tab.focus
     IN  \/ /\ ~Alive(p)
            /\ sessions' = [sessions EXCEPT ![active].tabs[at].zoomed = Nil]
            /\ UNCHANGED <<daemon, next, slots, grace>>
         \/ /\ Alive(p)
            /\ daemon' = [s \in DOMAIN daemon |-> [j \in DOMAIN daemon[s] |->
                 [daemon[s][j] EXCEPT !.leaves = SplitLeaf(@, p, next)]]]
            /\ next' = next + 1
            /\ slots' = Append(slots, Slot(next, "open"))
            /\ sessions' = [sessions EXCEPT ![active].tabs[at] =
                 [@ EXCEPT !.root = SplitLeaf(tab.root, p, next), !.focus = next, !.zoomed = Nil]]
            /\ grace' = TRUE
  /\ UNCHANGED <<request, up, closing, active, asked>>

\* A new tab takes two RPCs: new_window, and open_pane in the window it answers.
\* Nobody asks for the layout of the window before it has its pane.
open_new_tab ==
  /\ Event /\ KeyOp("u_tab") /\ up /\ Fresh
  /\ pc' = IF sessions[active].id \in DOMAIN daemon THEN "window" ELSE "drain"
  /\ UNCHANGED <<dvars, closing, sessions, active, slots, grace, asked>>

\* open_pane fails, or the stream of the pane it made; the tab is for the pane
\* that is attached.
open_first_pane ==
  /\ At("window") /\ pc' = "drain"
  /\ LET s    == sessions[active].id
         tabs == sessions[active].tabs
         Made == /\ up /\ Fresh /\ s \in DOMAIN daemon
                 /\ daemon' = [daemon EXCEPT ![s] = Append(@, Window(next))]
                 /\ next' = next + 1
     IN  \/ UNCHANGED <<daemon, next, slots, sessions>>
         \/ Made /\ UNCHANGED <<slots, sessions>>
         \/ /\ Made
            /\ slots' = Append(slots, Slot(next, "open"))
            /\ sessions' = [sessions EXCEPT ![active] =
                 [@ EXCEPT !.tabs = Append(tabs, Tab(<<next>>, next, next)), !.at = Len(tabs) + 1]]
  /\ UNCHANGED <<request, up, closing, active, grace, ops, asked>>

open_new_session ==
  /\ Event /\ pc' = "drain" /\ KeyOp("u_session") /\ up /\ Fresh
  /\ daemon' = [s \in DOMAIN daemon \cup {next} |->
                  IF s = next THEN <<Window(next)>> ELSE daemon[s]]
  /\ next' = next + 1
  /\ slots' = Append(slots, Slot(next, "open"))
  /\ sessions' = Append(sessions, SessionView(next, next, next))
  /\ active' = Len(sessions) + 1
  /\ UNCHANGED <<request, up, closing, grace, asked>>

CloseSlot(k) ==
  /\ k \in DOMAIN slots /\ slots[k] # Nil
  /\ asked' = asked \cup {slots[k].pane}
  /\ LocalOp(close_pane_inner(view, k, TRUE))

close_focused_pane ==
  KeyOp("u_close") /\ CloseSlot(SlotOf(slots, ActiveTab(view).focus))

\* The mouse hits a chip of the last frame whose session or tab is gone: the
\* handler, or the next use of the index it leaves behind, is out of bounds.
Stray(chips, seq) ==
  /\ chips > Len(seq)
  /\ Event /\ pc' = "astray"
  /\ UNCHANGED <<dvars, closing, sessions, active, slots, grace, asked>>

\* The cross of a tab chip closes the pane that has the focus in that tab.
close_tab_chip ==
  /\ UserOp("u_close")
  /\ LET tabs == sessions[active].tabs IN
     \/ \E j \in DOMAIN tabs : j <= frame.tabs /\ CloseSlot(SlotOf(slots, tabs[j].focus))
     \/ Stray(frame.tabs, tabs)

\* Kill pane of the context menu: the slot the menu was opened on, which may
\* have been emptied since.
menu_kill == UserOp("u_close") /\ \E k \in DOMAIN slots : CloseSlot(k)

Click(v) == UserOp("u_click") /\ asked' = asked /\ LocalOp(v)

click_session ==
  \/ \E i \in DOMAIN sessions : i <= frame.sessions /\ Click([view EXCEPT !.active = i])
  \/ UserOp("u_click") /\ Stray(frame.sessions, sessions)

click_tab ==
  LET tabs == sessions[active].tabs IN
  \/ \E j \in DOMAIN tabs : j <= frame.tabs /\ Click([view EXCEPT !.sessions[active].at = j])
  \/ UserOp("u_click") /\ Stray(frame.tabs, tabs)

click_pane == \E p \in ToSet(ActiveTab(view).root) : Click(focus_slot(view, p))

\* Jump to a search result: the last tab that shows the pane, except that the
\* first one of the active session ends the scan.
search_jump ==
  \E p \in Ids :
    LET at == {x \in (DOMAIN sessions) \X Ids :
                 x[2] \in DOMAIN sessions[x[1]].tabs
                 /\ Contains(sessions[x[1]].tabs[x[2]].root, p) /\ HasSlot(slots, p)}
        Before(x, y) == x[1] < y[1] \/ (x[1] = y[1] /\ x[2] <= y[2])
        here == {x \in at : x[1] = active}
        to == IF here # {} THEN CHOOSE x \in here : \A y \in here : Before(x, y)
              ELSE CHOOSE x \in at : \A y \in at : Before(y, x)
    IN  /\ at # {}
        /\ Click([view EXCEPT !.active = to[1],
                    !.sessions[to[1]].at = to[2],
                    !.sessions[to[1]].tabs[to[2]].focus = p])

Move(v) == UserOp("u_move") /\ asked' = asked /\ LocalOp(v)

next_tab ==
  \E d \in {1, Len(sessions[active].tabs) - 1} :
    Move([view EXCEPT !.sessions[active].at = ((@ - 1 + d) % Len(sessions[active].tabs)) + 1])

\* focus_next: the next or previous leaf that has a slot.
focus_next ==
  LET root == ActiveTab(view).root
      live == Picked(root, {j \in DOMAIN root : HasSlot(slots, root[j])})
      k    == SelectInSeq(live, LAMBDA p : p = ActiveTab(view).focus)
      cur  == IF k = 0 THEN 0 ELSE k - 1
  IN  /\ live # <<>>
      /\ \E d \in {1, Len(live) - 1} :
           Move([view EXCEPT !.sessions[active].tabs[sessions[active].at].focus =
                   live[((cur + d) % Len(live)) + 1]])

toggle_zoom ==
  Move([view EXCEPT !.sessions[active].tabs[sessions[active].at].zoomed =
          IF @ = Nil THEN ActiveTab(view).focus ELSE Nil])

\* A tab is dragged over the chip of another.  dragging_tab may be from an earlier
\* frame: an index the session no longer has moves nothing.
tab_reorder ==
  LET tabs == sessions[active].tabs
      Moved(i, j) == IF i \in DOMAIN tabs THEN InsertAt(RemoveAt(tabs, i), j, tabs[i]) ELSE tabs
  IN  \/ \E i \in Ids, j \in DOMAIN tabs :
           /\ i # j /\ j <= frame.tabs
           /\ Move([view EXCEPT !.sessions[active] = [@ EXCEPT !.tabs = Moved(i, j), !.at = j]])
      \/ UserOp("u_move") /\ Stray(frame.tabs, tabs)

\* q or detach: the loop ends and the daemon keeps the sessions.
Quit ==
  /\ pc = "event" /\ pc' = "quit"
  /\ UNCHANGED <<dvars, closing, app, rpc, daemonLost, hist>>

(***************************************************************************)
Init ==
  /\ scn \in Scenarios
  /\ daemon = [s \in {} |-> <<>>]
  /\ next = 1 /\ request = Nil /\ up = TRUE /\ closing = {}
  /\ sessions = <<>> /\ active = 1 /\ slots = <<>>
  /\ lost = FALSE /\ grace = FALSE /\ frame = [sessions |-> 0, tabs |-> 0]
  /\ pc = "start" /\ listed = <<>> /\ turn = 1 /\ found = {} /\ prev = Nil /\ known = {}
  /\ daemonLost = FALSE
  /\ ops = 0 /\ trouble = 0 /\ asked = {}

DaemonNext == OtherSpawn \/ OtherSplit \/ OtherWindow \/ PaneExit \/ Evict \/ ServeClose \/ SelectPane \/ DaemonDies

LoopNext ==
  \/ StartList \/ StartAttach \/ EagerList \/ Discover
  \/ Drain \/ apply_focus_request
  \/ SyncSkip \/ SyncError \/ SyncList \/ SyncAdopt \/ SyncPanes \/ SyncLayout \/ SyncPrune
  \/ ResyncSkip \/ Resync \/ open_first_pane

UserNext ==
  /\ pc = "event"
  /\ \/ split_active \/ open_new_tab \/ open_new_session
     \/ close_focused_pane \/ close_tab_chip \/ menu_kill
     \/ click_session \/ click_tab \/ click_pane \/ search_jump
     \/ next_tab \/ focus_next \/ toggle_zoom \/ tab_reorder \/ Quit

Next == DaemonNext \/ LoopNext \/ UserNext \/ NoEvent \/ GraceOver

Spec == Init /\ [][Next]_vars

\* The task of the loop is scheduled, so that every turn of the loop ends (the
\* weak fairness of LoopNext, in a form TLC evaluates quickly), and the timer of
\* the session list fires again and again.
LoopTurns == []<>(pc \in {"poll", "end", "quit", "astray"})
FairSpec  == Spec /\ LoopTurns /\ SF_vars(SyncList)

(***************************************************************************)
(* Properties                                                              *)
(***************************************************************************)
Running == pc \in {"focus", "poll", "adopt", "panes", "layout", "resync", "event", "window"}

InBounds ==
  Running => /\ active \in DOMAIN sessions
             /\ \A i \in DOMAIN sessions : sessions[i].at \in DOMAIN sessions[i].tabs

FocusIsLeaf ==
  \A i \in DOMAIN sessions : \A j \in DOMAIN sessions[i].tabs :
    Contains(sessions[i].tabs[j].root, sessions[i].tabs[j].focus)

\* Whatever panes, tabs and sessions come and go, wherever the loop indexes
\* sessions[active_session].tabs[active_tab] both indices are in bounds (run_tui
\* and active_session_id panic otherwise), and the focused pane of every tab is
\* a leaf of its layout, so that keys and splits go to a pane the tab has.  The
\* one exception is a click on a chip of a frame that is no longer on the screen:
\* chips hit a session or a tab that is there unless the session-lost overlay has
\* kept them from being drawn again.
ViewConsistent == InBounds /\ FocusIsLeaf /\ (pc = "astray" => lost)

\* The TUI asks the daemon to close a pane whose shell still runs only when the
\* user closed that pane: a stream that ends without a frame is not taken for
\* the end of its shell (close_pane_locally).
OnlyUserKillsLive == \A p \in closing : Alive(p) => p \in asked

Shown(p) == \E i \in DOMAIN sessions : \E j \in DOMAIN sessions[i].tabs :
              Contains(sessions[i].tabs[j].root, p) /\ HasSlot(slots, p)

\* A pane whose shell has ended does not stay on the screen as if it lived, even
\* when a full channel swallowed the Closed event of its stream: the poll of
\* the session list finds it.
DeadPaneLeaves ==
  \A p \in Ids : []<>(Shown(p) => Alive(p) \/ ~up \/ pc \in {"end", "quit", "astray"})
=============================================================================
