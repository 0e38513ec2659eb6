--------------------------------- MODULE Gpu ---------------------------------
(***************************************************************************)
(* pyre-gpu: the windowed client.  The winit thread runs the handlers of   *)
(* App; tokio tasks talk to the daemon and hand their results over in      *)
(* channels that about_to_wait and RedrawRequested drain: the output of    *)
(* each pane, new panes, layout snapshots, toasts and search results.      *)
(*                                                                         *)
(* A layout is the sequence of its leaves; weights and geometry are left   *)
(* out.  Chunks of output are numbered per pane.                           *)
(***************************************************************************)
EXTENDS Naturals, Sequences, FiniteSets, FiniteSetsExt, SequencesExt

CONSTANTS
  MaxGpuPanes,  \* bounds on the panes ever made, the chunks written,
  MaxChunks,    \* the queries of the search overlay and the user's commands
  MaxQueries,
  MaxCommands,
  MaxVisible,   \* max_visible of the toast deck
  None

ASSUME NoneAssumption == None \notin Nat

VARIABLES
  srv,       \* the daemon: leaves of the window's layout, panes made, chunks written, events,
             \* and the number of the last LayoutChanged
  calls,     \* RPCs under way: open_pane_split, close_pane, set_pane_weight
  push,      \* the push-event task: cursor, and the layout it fetches
  layoutRx,  \* layout_rx
  pending,   \* PENDING_PANES
  streams,   \* pane -> its stream: chunks read, output_rx, chunks shown by its TermView
  app,       \* cached_layout, focused, awaiting_window_key, context_menu, toasts
  search,    \* SearchUi, and whether the empty text has run since the last query (history)
  asked,     \* search_blocks calls: the channel they answer
  failed,    \* an RPC of the layout failed (history)
  commands   \* commands of the user so far

gpuVars == <<srv, calls, push, layoutRx, pending, streams, app, search, asked, failed, commands>>

\* StreamHandle and TermView of a pane just attached.
NewStream == [read |-> 0, rx |-> <<>>, shown |-> <<>>]
Without(s, p) == SelectSeq(s, LAMBDA x : x # p)
\* LayoutNode::split_focused and close.  The focus candidate of a close is the
\* leaf before; there is none for the only leaf, and none for an unknown pane.
At(leaves, p) == CHOOSE i \in DOMAIN leaves : leaves[i] = p
Split(leaves, p, new) == InsertAt(leaves, At(leaves, p) + 1, new)
Candidate(leaves, p) ==
  IF p \notin Range(leaves) \/ Len(leaves) = 1 THEN None
  ELSE Without(leaves, p)[IF At(leaves, p) = 1 THEN 1 ELSE At(leaves, p) - 1]
Removed(f, p) == [x \in DOMAIN f \ {p} |-> f[x]]
Added(f, p, v) == [x \in DOMAIN f \union {p} |-> IF x = p THEN v ELSE f[x]]

(***************************************************************************)
(* The daemon.                                                             *)
(***************************************************************************)
\* open_pane_split, close_pane and set_pane_weight: each that works emits
\* LayoutChanged.  The last leaf of a layout stays.
Serve(c) ==
  LET ok == c.pane \in Range(srv.leaves)
      p == srv.made + 1
      Layout(leaves) == srv' = [srv EXCEPT !.leaves = leaves, !.events = @ + 1, !.changed = srv.events + 1,
                                           !.made = IF c.rpc = "split" THEN p ELSE @]
  IN
  /\ app.running
  /\ calls' = calls \ {c}
  /\ \/ /\ ok /\ c.rpc = "split" /\ p <= MaxGpuPanes
        /\ Layout(Split(srv.leaves, c.pane, p))
        /\ pending' = [pending EXCEPT ![c.slot] = p]
        /\ UNCHANGED failed
     \/ /\ ok /\ c.rpc = "close"
        /\ Layout(IF Len(srv.leaves) = 1 THEN srv.leaves ELSE Without(srv.leaves, c.pane))
        /\ UNCHANGED <<pending, failed>>
     \/ /\ ok /\ c.rpc = "weight"
        /\ Layout(srv.leaves)
        /\ UNCHANGED <<pending, failed>>
     \/ failed' = (failed \/ ok) /\ UNCHANGED <<srv, pending>>
  /\ UNCHANGED <<push, layoutRx, streams, app, search, asked, commands>>

\* A shell writes, which may change its state (an event that leaves the layout
\* alone), or another client closes a pane.
Shell(p) ==
  /\ app.running
  /\ \/ /\ MapThenSumSet(LAMBDA q : srv.wrote[q], 1 .. srv.made) < MaxChunks
        /\ \E n \in {0, 1} : srv' = [srv EXCEPT !.wrote[p] = @ + 1, !.events = @ + n]
     \/ /\ Len(srv.leaves) > 1 /\ p \in Range(srv.leaves)
        /\ srv' = [srv EXCEPT !.leaves = Without(@, p), !.events = @ + 1, !.changed = srv.events + 1]
  /\ UNCHANGED <<calls, push, layoutRx, pending, streams, app, search, asked, failed, commands>>

(***************************************************************************)
(* The tasks.                                                              *)
(***************************************************************************)
\* The push-event task: a batch of events advances the cursor, gives toasts
\* (whatever the kinds), and makes the task fetch the layout if one is LayoutChanged.
PollEvents ==
  /\ app.running /\ push.at = "poll" /\ push.seq < srv.events
  /\ push' = [at |-> IF srv.changed > push.seq THEN "fetch" ELSE "poll", seq |-> srv.events]
  /\ app' = [app EXCEPT !.toastRx = TRUE]
  /\ UNCHANGED <<srv, calls, layoutRx, pending, streams, search, asked, failed, commands>>

\* The layout of the session's window, or that of the session when list_windows
\* fails: the same tree while there is one window.  An error loses the snapshot.
FetchLayout ==
  /\ app.running /\ push.at = "fetch"
  /\ push' = [push EXCEPT !.at = "poll"]
  /\ \/ layoutRx' = Append(layoutRx, srv.leaves) /\ UNCHANGED failed
     \/ failed' = TRUE /\ UNCHANGED layoutRx
  /\ UNCHANGED <<srv, calls, pending, streams, app, search, asked, commands>>

\* stream_bridge: a frame goes to output_rx.
Frame(p) ==
  /\ app.running /\ streams[p].read < srv.wrote[p]
  /\ streams' = [streams EXCEPT ![p].read = @ + 1, ![p].rx = Append(@, streams[p].read + 1)]
  /\ UNCHANGED <<srv, calls, push, layoutRx, pending, app, search, asked, failed, commands>>

\* search_blocks answers on the channel of its query.
Hits(a) ==
  /\ app.running
  /\ asked' = asked \ {a}
  /\ search' = IF search.rx = a THEN [search EXCEPT !.hits = a] ELSE search
  /\ UNCHANGED <<srv, calls, push, layoutRx, pending, streams, app, failed, commands>>

(***************************************************************************)
(* about_to_wait and RedrawRequested.                                      *)
(***************************************************************************)
\* Mutant: only the oldest snapshot of a tick is applied.
MutantDrainLayoutUpdates(l) == IF layoutRx = <<>> THEN l ELSE Head(layoutRx)

\* drain_layout_updates: the last of the snapshots waiting.
DrainLayoutUpdates(l) == IF layoutRx = <<>> THEN l ELSE Last(layoutRx)

\* ToastDeck: push trims the oldest, tick drops the expired ones.
Toasts(n) == IF app.toastRx /\ app.toastOn /\ n < MaxVisible THEN n + 1 ELSE n

\* drain_pending_panes and insert_pane: a new pane gets a stream.
InsertPanes(got) ==
  [p \in DOMAIN streams \union got |-> IF p \in DOMAIN streams THEN streams[p] ELSE NewStream]

(***************************************************************************)
(* The search overlay.  A query is named by its number.                    *)
(***************************************************************************)
\* Mutant: the channel of the first query is kept for the later ones.
MutantChannel(s, n) == IF s.rx = None THEN n ELSE s.rx

\* tick_debounce makes a new channel for each query, so that the answers to the
\* earlier ones find nobody.
Channel(s, n) == n

\* tick_debounce: the text queued runs once its 150 ms are over.  The empty text
\* clears the list and keeps the channel of the query before it.
TickDebounce(s) ==
  \/ search' = s /\ UNCHANGED asked     \* nothing queued, or it is not due
  \/ /\ s.open /\ s.queued = "text"
     /\ search' = [s EXCEPT !.queued = None, !.n = @ + 1, !.rx = Channel(s, s.n + 1), !.hits = None,
                            !.cleared = FALSE]
     /\ asked' = asked \union {s.n + 1}
  \/ /\ s.open /\ s.queued = "empty"
     /\ search' = [s EXCEPT !.queued = None, !.results = None, !.cleared = TRUE]
     /\ UNCHANGED asked

\* poll_results: the overlay with the answer that waits on its channel.
PollResults(s) == IF s.hits = None THEN s ELSE [s EXCEPT !.results = s.hits, !.hits = None]

\* queue_query, after a character or a backspace.
QueueQuery ==
  /\ search.n < MaxQueries
  /\ \E t \in {"text", "empty"} : search' = [search EXCEPT !.queued = t]
  /\ UNCHANGED asked

\* run_query_now takes the text out of the queue before tick_debounce looks
\* there: Enter runs nothing, and what was queued is lost.
RunQueryNow == search' = [search EXCEPT !.queued = None] /\ UNCHANGED asked

\* handle_key, and the tick_debounce after it, which finds an edit not due yet.
OverlayKey ==
  /\ search.open
  /\ \/ QueueQuery
     \/ ~app.menu /\ (RunQueryNow \/ TickDebounce(search))

OpenOverlay == search' = [search EXCEPT !.open = TRUE, !.results = None] /\ UNCHANGED asked

\* Escape, or the toggle again: close.
CloseSearch ==
  /\ app.running /\ search.open
  /\ search' = [search EXCEPT !.open = FALSE, !.rx = None, !.hits = None, !.queued = None]
  /\ app' = [app EXCEPT !.menu = FALSE]
  /\ UNCHANGED <<srv, calls, push, layoutRx, pending, streams, asked, failed, commands>>

\* The last pane inserted gets the focus.  To see whether there is output,
\* about_to_wait takes one waiting chunk of one pane.
AboutToWait ==
  LET new == {s \in DOMAIN pending : pending[s] # None}
      got == {pending[s] : s \in new}
      opened == InsertPanes(got)
      full == {p \in DOMAIN opened : opened[p].rx # <<>>}
  IN
  /\ app.running
  /\ pending' = [s \in DOMAIN pending \ new |-> pending[s]]
  /\ IF full = {} THEN streams' = opened
     ELSE \E p \in full : streams' = [opened EXCEPT ![p].rx = Tail(@)]
  /\ TickDebounce(PollResults(search))
  /\ app' = [app EXCEPT !.layout = DrainLayoutUpdates(@), !.toastRx = FALSE,
                        !.toasts = Toasts(@),
                        !.focused = IF got = {} THEN @ ELSE pending[CHOOSE s \in new : \A t \in new : s >= t]]
  /\ layoutRx' = <<>>
  /\ UNCHANGED <<srv, calls, push, failed, commands>>

\* RedrawRequested: every waiting chunk goes to its TermView.
Redraw ==
  /\ app.running
  /\ streams' = [p \in DOMAIN streams |-> [streams[p] EXCEPT !.rx = <<>>, !.shown = @ \o streams[p].rx]]
  /\ UNCHANGED <<srv, calls, push, layoutRx, pending, app, search, asked, failed, commands>>

\* tick: the oldest toast expires.
Expire ==
  /\ app.running /\ app.toasts > 0
  /\ app' = [app EXCEPT !.toasts = @ - 1]
  /\ UNCHANGED <<srv, calls, push, layoutRx, pending, streams, search, asked, failed, commands>>

(***************************************************************************)
(* The user.                                                               *)
(***************************************************************************)
User == app.running /\ commands < MaxCommands /\ commands' = commands + 1

\* The window once the key after Ctrl+w is taken, and the context menu is gone.
Taken == [app EXCEPT !.awaiting = FALSE]
Dismissed(a) == [a EXCEPT !.menu = FALSE]

\* spawn_pane: the answer comes back in a channel of its own.
SpawnPane ==
  LET s == commands IN
  /\ calls' = calls \union {[rpc |-> "split", pane |-> app.focused, slot |-> s]}
  /\ pending' = Added(pending, s, None)
  /\ UNCHANGED streams

\* close_focused: the pane leaves the screen at once.  Without a focus candidate
\* the client ends.
CloseFocused(a) ==
  LET f == Candidate(app.layout, app.focused) IN
  /\ calls' = calls \union {[rpc |-> "close", pane |-> app.focused, slot |-> commands]}
  /\ streams' = Removed(streams, app.focused)
  /\ app' = IF f = None THEN [a EXCEPT !.running = FALSE]
            ELSE [a EXCEPT !.layout = Without(@, app.focused), !.focused = f]
  /\ UNCHANGED pending

\* move_focus and cycle_pane; the toast toggle.
MoveFocus(a) == \E p \in Range(app.layout) : app' = [a EXCEPT !.focused = p]
ToggleToasts(a) == app' = [a EXCEPT !.toastOn = ~@, !.toasts = IF app.toastOn THEN 0 ELSE @]

NoCall == UNCHANGED <<calls, pending, streams>>

\* handle_window_key: the key after Ctrl+w splits, moves the focus, closes, or
\* is none of its own.
WindowKey ==
  LET a == Dismissed(Taken) IN
  \/ SpawnPane /\ app' = a
  \/ MoveFocus(a) /\ NoCall
  \/ CloseFocused(a)
  \/ app' = a /\ NoCall

\* commit_context_menu; the entries that are not built yet only close the menu, as
\* Escape does.  An open menu takes Enter, Escape and the arrows before the
\* overlay and the panes do.
MenuKey ==
  /\ app.menu
  /\ \/ SpawnPane /\ app' = Dismissed(app)
     \/ CloseFocused(Dismissed(app))
     \/ app' = Dismissed(app) /\ NoCall

\* handle_keyboard.  Any key but the menu's own dismisses it.
Key ==
  /\ User
  /\ \/ MenuKey /\ UNCHANGED <<search, asked>>
     \/ ~search.open /\ OpenOverlay /\ app' = Dismissed(app) /\ NoCall
     \/ OverlayKey /\ app' = Dismissed(app) /\ NoCall
     \/ /\ ~search.open
        /\ \/ ToggleToasts(Dismissed(app)) /\ NoCall
           \/ app.awaiting /\ WindowKey
           \/ ~app.awaiting /\ app' = [Dismissed(app) EXCEPT !.awaiting = TRUE] /\ NoCall
           \/ ~app.awaiting /\ MoveFocus(Dismissed(app)) /\ NoCall
        /\ UNCHANGED <<search, asked>>
  /\ UNCHANGED <<srv, push, layoutRx, failed>>

\* handle_left_down focuses the pane under the cursor, handle_right_down opens
\* its menu too, and a drag of a border ends with set_pane_weight.
LeftDown(p) == app' = [app EXCEPT !.focused = p, !.menu = FALSE] /\ UNCHANGED calls
RightDown(p) == app' = [app EXCEPT !.focused = p, !.menu = TRUE] /\ UNCHANGED calls
LeftUp(p) ==
  /\ Len(app.layout) > 1
  /\ app' = [app EXCEPT !.menu = FALSE]
  /\ calls' = calls \union {[rpc |-> "weight", pane |-> p, slot |-> commands]}

Mouse ==
  /\ User
  /\ \E p \in Range(app.layout) : LeftDown(p) \/ RightDown(p) \/ LeftUp(p)
  /\ UNCHANGED <<srv, push, layoutRx, pending, streams, search, asked, failed>>

\* App as main makes it on a layout of one pane, and SearchUi::default.
NewApp == [layout |-> <<1>>, focused |-> 1, awaiting |-> FALSE, menu |-> FALSE, running |-> TRUE,
           toastOn |-> TRUE, toastRx |-> FALSE, toasts |-> 0]
NewSearch == [open |-> FALSE, n |-> 0, queued |-> None, rx |-> None, hits |-> None, results |-> None,
              cleared |-> FALSE]

GpuInit ==
  /\ srv = [leaves |-> <<1>>, made |-> 1, wrote |-> [p \in 1 .. MaxGpuPanes |-> 0], events |-> 0, changed |-> 0]
  /\ calls = {}
  /\ push = [at |-> "poll", seq |-> 0]
  /\ layoutRx = <<>>
  /\ pending = <<>>
  /\ streams = [p \in {1} |-> NewStream]
  /\ app = NewApp
  /\ search = NewSearch
  /\ asked = {}
  /\ failed = FALSE
  /\ commands = 0

GpuNext ==
  \/ \E c \in calls : Serve(c)
  \/ \E p \in 1 .. srv.made : Shell(p)
  \/ \E p \in DOMAIN streams : Frame(p)
  \/ \E a \in asked : Hits(a)
  \/ PollEvents \/ FetchLayout \/ AboutToWait \/ Redraw \/ Expire
  \/ Key \/ Mouse \/ CloseSearch

GpuSpec == GpuInit /\ [][GpuNext]_gpuVars

\* Whatever splits and closes, local ones and those of other clients, overlap:
\* once the calls, events and snapshots are through, the client shows the
\* daemon's layout (drain_layout_updates and the push-event task; an RPC that
\* failed excepted).
LayoutConverges ==
  ~failed /\ app.running /\ calls = {} /\ push = [at |-> "poll", seq |-> srv.events] /\ layoutRx = <<>>
    => app.layout = srv.leaves

\* Once the last query is answered the list shows its results, whatever answers
\* to earlier queries come late (tick_debounce, poll_results, close).  Text emptied
\* since then clears the list; it does not call back a query in flight, whose
\* answer then fills the list again.
ResultsOfLastQuery ==
  search.open /\ search.rx # None /\ search.hits = None /\ search.n \notin asked
    => search.results = search.n \/ (search.cleared /\ search.results = None)

=============================================================================
