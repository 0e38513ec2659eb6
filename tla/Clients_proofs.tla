---------------------------- MODULE Clients_proofs ----------------------------
(***************************************************************************)
(* Proofs about two clients of the daemon: the windowed client (Gpu), for  *)
(* any number of panes, commands and queries, and the MCP server (Mcp),    *)
(* for any set of requests and any capacity of the stdout channel.         *)
(***************************************************************************)
EXTENDS Gpu, Mcp, FiniteSetTheorems, SequenceTheorems, TLAPS

AppFields ==
  {"layout", "focused", "awaiting", "menu", "running", "toastOn", "toastRx", "toasts"}

\* The records of the daemon, of the push-event task and of the window; a snapshot
\* on its way is in a sequence.
GpuTypeOK ==
  /\ DOMAIN srv = {"leaves", "made", "wrote", "events", "changed"}
  /\ srv.events \in Nat /\ srv.changed \in Nat /\ srv.changed <= srv.events
  /\ push \in [at : {"poll", "fetch"}, seq : Nat] /\ push.seq <= srv.events
  /\ \E T : layoutRx \in Seq(T)
  /\ DOMAIN app = AppFields

\* The push-event task has fetched the layout after the last LayoutChanged.
CaughtUp ==
  ~failed /\ app.running /\ push.at = "poll" /\ push.seq >= srv.changed

\* A close of a pane that the daemon still shows is under way.
CloseUnderWay == \E c \in calls : c.rpc = "close" /\ c.pane \in Range(srv.leaves)

\* When the task has caught up, the newest snapshot waiting is the daemon's
\* layout, or none waits and the window shows it, but for panes that it has
\* closed and the daemon is about to close.
LayoutInv ==
  CaughtUp =>
    IF layoutRx = <<>> THEN app.layout = srv.leaves \/ CloseUnderWay
                       ELSE Last(layoutRx) = srv.leaves

\* The record of the search overlay.
SearchType ==
  [open : BOOLEAN, n : Nat, queued : {None, "text", "empty"}, rx : Nat \cup {None},
   hits : Nat \cup {None}, results : Nat \cup {None}, cleared : BOOLEAN]

\* The search overlay: the channel is that of the last query; the answer to it is
\* to come, has come, is shown, or was cleared with the text.
SearchInv ==
  /\ search \in SearchType
  /\ asked \subseteq Nat /\ \A a \in asked : a <= search.n
  /\ search.rx # None => search.rx = search.n /\ search.open
  /\ search.hits # None => search.hits = search.rx
  /\ search.rx # None =>
       \/ search.n \in asked \/ search.hits = search.n \/ search.results = search.n
       \/ search.cleared /\ search.results = None

GpuInv == GpuTypeOK /\ LayoutInv

-----------------------------------------------------------------------------
(* The windowed client: the layout *)

\* A step that leaves the daemon's layout and the task alone, closes nothing and
\* does not touch the window's layout, keeps the invariant.
LEMMA LayoutFrame ==
  ASSUME GpuInv, srv' = srv \/ (srv'.leaves = srv.leaves /\ srv'.changed = srv.changed
                                /\ srv'.events \in {srv.events, srv.events + 1}
                                /\ DOMAIN srv' = DOMAIN srv),
         push' = push, layoutRx' = layoutRx, failed' = failed,
         calls \subseteq calls', DOMAIN app' = DOMAIN app,
         app'.layout = app.layout, app'.running = app.running
  PROVE  GpuInv'
<1>1. srv'.leaves = srv.leaves /\ srv'.changed = srv.changed /\ DOMAIN srv' = DOMAIN srv
      /\ srv'.events \in {srv.events, srv.events + 1}
  OBVIOUS
<1>2. GpuTypeOK'
  BY <1>1 DEF GpuInv, GpuTypeOK
<1>3. CaughtUp' <=> CaughtUp
  BY <1>1 DEF CaughtUp
<1>4. CloseUnderWay => CloseUnderWay'
  BY <1>1 DEF CloseUnderWay
<1>5. LayoutInv'
  BY <1>1, <1>3, <1>4 DEF GpuInv, LayoutInv
<1> QED BY <1>2, <1>5 DEF GpuInv

\* A LayoutChanged leaves the task behind, until it polls.
LEMMA LayoutBehind ==
  ASSUME GpuInv, push' = push, layoutRx' = layoutRx, DOMAIN app' = DOMAIN app,
         DOMAIN srv' = DOMAIN srv, srv'.events = srv.events + 1,
         srv'.changed = srv.events + 1
  PROVE  GpuInv'
<1>1. GpuTypeOK'
  BY DEF GpuInv, GpuTypeOK
<1>2. ~CaughtUp'
  BY DEF GpuInv, GpuTypeOK, CaughtUp
<1> QED BY <1>1, <1>2 DEF GpuInv, LayoutInv

\* The RPCs of this client and what others do to the daemon.
LEMMA DaemonKeepsLayout ==
  ASSUME GpuInv, (\E c \in calls : Serve(c)) \/ (\E p \in 1 .. srv.made : Shell(p))
  PROVE  GpuInv'
<1>1. ASSUME NEW c \in calls, Serve(c) PROVE GpuInv'
  <2> DEFINE ok == c.pane \in Range(srv.leaves)
  <2>0. /\ push' = push /\ layoutRx' = layoutRx /\ app' = app /\ calls' = calls \ {c}
        /\ DOMAIN srv = {"leaves", "made", "wrote", "events", "changed"}
    BY <1>1 DEF Serve, GpuInv, GpuTypeOK
  <2>1. \/ DOMAIN srv' = DOMAIN srv /\ srv'.events = srv.events + 1 /\ srv'.changed = srv.events + 1
        \/ failed' = (failed \/ ok) /\ srv' = srv
    BY <1>1, <2>0 DEF Serve
  <2>2. CASE DOMAIN srv' = DOMAIN srv /\ srv'.events = srv.events + 1 /\ srv'.changed = srv.events + 1
    BY <2>0, <2>2, LayoutBehind
  <2>3. CASE failed' = (failed \/ ok) /\ srv' = srv
    <3>1. GpuTypeOK'
      BY <2>0, <2>3 DEF GpuInv, GpuTypeOK
    <3>2. CaughtUp' => CaughtUp /\ ~ok
      BY <2>0, <2>3 DEF CaughtUp
    <3>3. ~ok /\ CloseUnderWay => CloseUnderWay'
      BY <2>0, <2>3 DEF CloseUnderWay
    <3> QED BY <2>0, <2>3, <3>1, <3>2, <3>3 DEF GpuInv, LayoutInv
  <2> QED BY <2>1, <2>2, <2>3
<1>2. ASSUME NEW p \in 1 .. srv.made, Shell(p) PROVE GpuInv'
  <2>0. /\ push' = push /\ layoutRx' = layoutRx /\ app' = app /\ calls' = calls /\ failed' = failed
        /\ DOMAIN srv = {"leaves", "made", "wrote", "events", "changed"}
    BY <1>2 DEF Shell, GpuInv, GpuTypeOK
  <2>1. \/ \E n \in {0, 1} : srv' = [srv EXCEPT !.wrote[p] = @ + 1, !.events = @ + n]
        \/ srv' = [srv EXCEPT !.leaves = Without(@, p), !.events = @ + 1, !.changed = srv.events + 1]
    BY <1>2 DEF Shell
  <2>2. CASE srv' = [srv EXCEPT !.leaves = Without(@, p), !.events = @ + 1, !.changed = srv.events + 1]
    BY <2>0, <2>2, LayoutBehind
  <2>3. CASE \E n \in {0, 1} : srv' = [srv EXCEPT !.wrote[p] = @ + 1, !.events = @ + n]
    <3>1. /\ DOMAIN srv' = DOMAIN srv /\ srv'.leaves = srv.leaves /\ srv'.changed = srv.changed
          /\ srv'.events \in {srv.events, srv.events + 1}
      BY <2>0, <2>3 DEF GpuInv, GpuTypeOK
    <3> QED BY <2>0, <3>1, LayoutFrame
  <2> QED BY <2>1, <2>2, <2>3
<1> QED BY <1>1, <1>2

\* The push-event task: a batch of events leaves it to fetch; the layout it
\* fetches becomes the newest snapshot.
LEMMA TasksKeepLayout ==
  ASSUME GpuInv, \/ PollEvents \/ FetchLayout
                 \/ (\E p \in DOMAIN streams : Frame(p))
                 \/ (\E a \in asked : Hits(a))
  PROVE  GpuInv'
<1>1. CASE PollEvents
  <2>1. /\ srv' = srv /\ layoutRx' = layoutRx /\ calls' = calls /\ failed' = failed
        /\ push' = [at |-> IF srv.changed > push.seq THEN "fetch" ELSE "poll", seq |-> srv.events]
        /\ push.at = "poll" /\ app'.running = app.running /\ app'.layout = app.layout
        /\ DOMAIN app' = DOMAIN app
    BY <1>1 DEF PollEvents, GpuInv, GpuTypeOK, AppFields
  <2>2. CaughtUp' => CaughtUp
    BY <2>1 DEF CaughtUp, GpuInv, GpuTypeOK
  <2>3. CloseUnderWay' <=> CloseUnderWay
    BY <2>1 DEF CloseUnderWay
  <2>4. GpuTypeOK'
    BY <2>1 DEF GpuInv, GpuTypeOK
  <2> QED BY <2>1, <2>2, <2>3, <2>4 DEF GpuInv, LayoutInv
<1>2. CASE FetchLayout
  <2>0. /\ srv' = srv /\ app' = app /\ calls' = calls /\ push' = [push EXCEPT !.at = "poll"]
        /\ \/ layoutRx' = Append(layoutRx, srv.leaves) /\ failed' = failed
           \/ failed' = TRUE /\ layoutRx' = layoutRx
    BY <1>2 DEF FetchLayout
  <2>1. PICK T : layoutRx \in Seq(T)
    BY DEF GpuInv, GpuTypeOK
  <2>2. layoutRx \in Seq(T \cup {srv.leaves})
    BY <2>1
  <2> DEFINE new == Append(layoutRx, srv.leaves)
  <2>3. new \in Seq(T \cup {srv.leaves}) /\ Len(new) = Len(layoutRx) + 1 /\ new # <<>>
        /\ new[Len(layoutRx) + 1] = srv.leaves
    BY <2>2
  <2>4. Last(new) = srv.leaves
    BY <2>3 DEF Last
  <2>5. push' \in [at : {"poll", "fetch"}, seq : Nat] /\ push'.seq = push.seq
    BY <2>0 DEF GpuInv, GpuTypeOK
  <2>6. GpuTypeOK'
    BY <2>0, <2>1, <2>3, <2>5 DEF GpuInv, GpuTypeOK
  <2>7. LayoutInv'
    BY <2>0, <2>3, <2>4 DEF LayoutInv, CaughtUp
  <2> QED BY <2>6, <2>7 DEF GpuInv
<1>3. ASSUME NEW p \in DOMAIN streams, Frame(p) PROVE GpuInv'
  BY <1>3, LayoutFrame DEF Frame
<1>4. ASSUME NEW a \in asked, Hits(a) PROVE GpuInv'
  BY <1>4, LayoutFrame DEF Hits
<1> QED BY <1>1, <1>2, <1>3, <1>4

\* drain_layout_updates shows the newest snapshot.
LEMMA WindowKeepsLayout ==
  ASSUME GpuInv, AboutToWait \/ Redraw \/ Expire
  PROVE  GpuInv'
<1>1. CASE AboutToWait
  <2>0. DOMAIN app = AppFields
    BY DEF GpuInv, GpuTypeOK
  <2>1. /\ srv' = srv /\ push' = push /\ calls' = calls /\ failed' = failed /\ layoutRx' = <<>>
        /\ DOMAIN app' = DOMAIN app /\ app'.running = app.running
        /\ app'.layout = DrainLayoutUpdates(app.layout)
    BY <1>1, <2>0 DEF AboutToWait, AppFields
  <2>2. GpuTypeOK'
    BY <2>1 DEF GpuInv, GpuTypeOK
  <2>3. (CaughtUp' <=> CaughtUp) /\ (CloseUnderWay' <=> CloseUnderWay)
    BY <2>1 DEF CaughtUp, CloseUnderWay
  <2>4. LayoutInv'
    BY <2>1, <2>3 DEF GpuInv, LayoutInv, DrainLayoutUpdates
  <2> QED BY <2>2, <2>4 DEF GpuInv
<1>2. CASE Redraw
  BY <1>2, LayoutFrame DEF Redraw
<1>3. CASE Expire
  BY <1>3, LayoutFrame DEF Expire, GpuInv, GpuTypeOK, AppFields
<1> QED BY <1>1, <1>2, <1>3

\* A close shown at once: its call goes to the daemon, which shows the pane if the
\* window and the daemon agreed.
LEMMA CloseKeepsLayout ==
  ASSUME GpuInv, NEW a, CloseFocused(a), DOMAIN a = AppFields,
         a.layout = app.layout, a.running = app.running,
         srv' = srv, push' = push, failed' = failed, layoutRx' = layoutRx
  PROVE  GpuInv'
<1> DEFINE f == Candidate(app.layout, app.focused)
           close == [rpc |-> "close", pane |-> app.focused, slot |-> commands]
<1>0. DOMAIN app = AppFields
  BY DEF GpuInv, GpuTypeOK
<1>1. /\ calls' = calls \cup {close} /\ DOMAIN app' = DOMAIN app
      /\ \/ f = None /\ ~app'.running
         \/ f # None /\ app'.running = app.running
    BY <1>0 DEF CloseFocused, AppFields
<1>2. GpuTypeOK'
  BY <1>1 DEF GpuInv, GpuTypeOK
<1>3. CaughtUp' => CaughtUp /\ f # None
  BY <1>1 DEF CaughtUp
<1>4. f # None => app.focused \in Range(app.layout)
  BY DEF Candidate
<1>5. CloseUnderWay => CloseUnderWay'
  BY <1>1 DEF CloseUnderWay
<1>6. close \in calls' /\ close.rpc = "close" /\ close.pane = app.focused
  BY <1>1
<1>7. app.layout = srv.leaves /\ f # None => CloseUnderWay'
  BY <1>1, <1>4, <1>6 DEF CloseUnderWay
<1>8. LayoutInv'
  BY <1>1, <1>3, <1>5, <1>7 DEF GpuInv, LayoutInv
<1> QED BY <1>2, <1>8 DEF GpuInv

\* Nothing else that the user does changes the layout shown.
LEMMA UserKeepsLayout ==
  ASSUME GpuInv, Key \/ Mouse \/ CloseSearch
  PROVE  GpuInv'
<1>0. DOMAIN app = AppFields
  BY DEF GpuInv, GpuTypeOK
<1>1. CASE Key
  <2>1. srv' = srv /\ push' = push /\ failed' = failed /\ layoutRx' = layoutRx
    BY <1>1 DEF Key
  <2> DEFINE Kept(a) == DOMAIN a = AppFields /\ a.layout = app.layout /\ a.running = app.running
  <2>2. Kept(Dismissed(app)) /\ Kept(Dismissed(Taken))
    BY <1>0 DEF Dismissed, Taken, AppFields
  <2>3. \/ CloseFocused(Dismissed(app)) \/ CloseFocused(Dismissed(Taken))
        \/ Kept(app') /\ calls \subseteq calls'
    <3>1. CASE MenuKey
      BY <2>2, <3>1 DEF MenuKey, SpawnPane, NoCall
    <3>2. CASE app' = Dismissed(app) /\ NoCall
      BY <2>2, <3>2 DEF NoCall
    <3>3. CASE WindowKey
      <4>1. CASE MoveFocus(Dismissed(Taken)) /\ NoCall
        BY <2>2, <4>1 DEF MoveFocus, NoCall, AppFields
      <4> QED BY <2>2, <3>3, <4>1 DEF WindowKey, SpawnPane, NoCall
    <3>4. CASE ToggleToasts(Dismissed(app)) /\ NoCall
      BY <2>2, <3>4 DEF ToggleToasts, NoCall, AppFields
    <3>5. CASE app' = [Dismissed(app) EXCEPT !.awaiting = TRUE] /\ NoCall
      BY <2>2, <3>5 DEF NoCall, AppFields
    <3>6. CASE MoveFocus(Dismissed(app)) /\ NoCall
      BY <2>2, <3>6 DEF MoveFocus, NoCall, AppFields
    <3> HIDE DEF Kept
    <3> QED BY Zenon, <1>1, <3>1, <3>2, <3>3, <3>4, <3>5, <3>6 DEF Key
  <2>4. CASE Kept(app') /\ calls \subseteq calls'
    BY <1>0, <2>1, <2>4, LayoutFrame
  <2> QED BY <2>1, <2>2, <2>3, <2>4, CloseKeepsLayout
<1>2. CASE Mouse
  <2>1. /\ srv' = srv /\ push' = push /\ failed' = failed /\ layoutRx' = layoutRx
        /\ calls \subseteq calls'
    BY <1>2 DEF Mouse, LeftDown, RightDown, LeftUp
  <2>2. DOMAIN app' = DOMAIN app /\ app'.layout = app.layout /\ app'.running = app.running
    BY <1>0, <1>2 DEF Mouse, LeftDown, RightDown, LeftUp, AppFields
  <2> QED BY <2>1, <2>2, LayoutFrame
<1>3. CASE CloseSearch
  BY <1>0, <1>3, LayoutFrame DEF CloseSearch, AppFields
<1> QED BY <1>1, <1>2, <1>3

\* The window never drifts from the daemon's layout but by what is on its way.
THEOREM LayoutSound == GpuSpec => []GpuInv
<1>1. GpuInit => GpuInv
  BY DEF GpuInit, GpuInv, GpuTypeOK, LayoutInv, AppFields, NewApp
<1>2. GpuInv /\ [GpuNext]_gpuVars => GpuInv'
  <2> SUFFICES ASSUME GpuInv, [GpuNext]_gpuVars PROVE GpuInv'
    OBVIOUS
  <2>1. CASE UNCHANGED gpuVars
    BY <2>1, LayoutFrame DEF gpuVars
  <2> QED BY <2>1, DaemonKeepsLayout, TasksKeepLayout, WindowKeepsLayout, UserKeepsLayout DEF GpuNext
<1> QED BY <1>1, <1>2, PTL DEF GpuSpec

\* Whatever splits and closes overlap, once calls, events and snapshots are
\* through pyre-gpu shows the daemon's layout (drain_layout_updates, close_focused
\* and the push-event task).
THEOREM LayoutConverged == GpuSpec => []LayoutConverges
<1>1. GpuInv => LayoutConverges
  BY DEF GpuInv, GpuTypeOK, LayoutInv, CaughtUp, CloseUnderWay, LayoutConverges
<1> QED BY <1>1, LayoutSound, PTL

-----------------------------------------------------------------------------
(* The windowed client: the search overlay *)

\* tick_debounce, on an overlay in which the answer is not lost.
LEMMA TickKeepsSearch ==
  ASSUME NEW s \in SearchType, TickDebounce(s),
         asked \subseteq Nat, \A a \in asked : a <= s.n,
         s.rx # None => s.rx = s.n /\ s.open,
         s.hits # None => s.hits = s.rx,
         s.rx # None => \/ s.n \in asked \/ s.hits = s.n \/ s.results = s.n
                        \/ s.cleared /\ s.results = None
  PROVE  SearchInv'
<1> USE NoneAssumption
<1>1. CASE search' = s /\ asked' = asked
  BY <1>1 DEF SearchInv, SearchType
<1>2. CASE /\ s.open /\ s.queued = "text"
           /\ search' = [s EXCEPT !.queued = None, !.n = @ + 1, !.rx = Channel(s, s.n + 1), !.hits = None,
                                  !.cleared = FALSE]
           /\ asked' = asked \cup {s.n + 1}
  <2> DEFINE m == s.n + 1
  <2>1. m \in Nat /\ s.n < m /\ s.n \in Nat
    BY DEF SearchType
  <2> HIDE DEF m
  <2>2. asked' = asked \cup {m} /\ search' = [s EXCEPT !.queued = None, !.n = m, !.rx = m, !.hits = None,
                                                       !.cleared = FALSE]
    BY <1>2 DEF m, Channel
  <2>3. search'.open /\ search'.n = m /\ search'.rx = m /\ search'.hits = None /\ search' \in SearchType
    BY Zenon, <1>2, <2>1, <2>2 DEF SearchType
  <2>4. asked' \subseteq Nat /\ \A a \in asked' : a <= search'.n
    BY <2>1, <2>2, <2>3
  <2> QED BY <2>2, <2>3, <2>4 DEF SearchInv
<1>3. CASE /\ s.open /\ s.queued = "empty"
           /\ search' = [s EXCEPT !.queued = None, !.results = None, !.cleared = TRUE]
           /\ asked' = asked
  BY <1>3 DEF SearchInv, SearchType
<1> QED BY <1>1, <1>2, <1>3 DEF TickDebounce

\* The overlay's own steps: an answer, the poll for it, a key, the open and the
\* close.
LEMMA OverlayStep ==
  ASSUME SearchInv, \/ (\E a \in asked : Hits(a)) \/ AboutToWait \/ OverlayKey \/ CloseSearch
                    \/ ~search.open /\ OpenOverlay
  PROVE  SearchInv'
<1> USE NoneAssumption
<1>1. ASSUME NEW a \in asked, Hits(a) PROVE SearchInv'
  <2>1. /\ asked' = asked \ {a} /\ a \in Nat
        /\ search' = IF search.rx = a THEN [search EXCEPT !.hits = a] ELSE search
    BY <1>1 DEF Hits, SearchInv
  <2>2. CASE search.rx = a
    BY <2>1, <2>2 DEF SearchInv, SearchType
  <2>3. CASE search.rx # a
    BY <2>1, <2>3 DEF SearchInv, SearchType
  <2> QED BY <2>2, <2>3
<1>2. CASE AboutToWait
  <2> DEFINE s == PollResults(search)
  <2>1. TickDebounce(s)
    BY <1>2 DEF AboutToWait
  <2>2. CASE search.hits = None
    <3>1. s = search
      BY <2>2 DEF PollResults
    <3> HIDE DEF s
    <3> QED BY <2>1, <3>1, TickKeepsSearch DEF SearchInv
  <2>3. CASE search.hits # None
    <3>1. s = [search EXCEPT !.results = search.hits, !.hits = None]
      BY <2>3 DEF PollResults
    <3>2. search.hits = search.n /\ search.rx = search.n /\ search.n \in Nat
      BY <2>3 DEF SearchInv, SearchType
    <3> HIDE DEF s
    <3>3. /\ s \in SearchType /\ s.n = search.n /\ s.rx = search.n /\ s.open = search.open
          /\ s.hits = None /\ s.results = search.n
      BY <3>1, <3>2 DEF SearchInv, SearchType
    <3> QED BY <2>1, <3>2, <3>3, TickKeepsSearch DEF SearchInv
  <2> QED BY <2>2, <2>3
<1>3. CASE OverlayKey
  <2>1. CASE TickDebounce(search)
    BY <2>1, TickKeepsSearch DEF SearchInv
  <2>2. CASE QueueQuery \/ RunQueryNow
    BY <2>2 DEF QueueQuery, RunQueryNow, SearchInv, SearchType
  <2> QED BY <1>3, <2>1, <2>2 DEF OverlayKey
<1>4. CASE CloseSearch
  BY <1>4 DEF CloseSearch, SearchInv, SearchType
<1>5. CASE ~search.open /\ OpenOverlay
  BY <1>5 DEF OpenOverlay, SearchInv, SearchType
<1> QED BY <1>1, <1>2, <1>3, <1>4, <1>5

\* The overlay's channel is that of its last query, and no answer to it is dropped.
THEOREM SearchSound == GpuSpec => []SearchInv
<1>1. GpuInit => SearchInv
  BY NoneAssumption DEF GpuInit, SearchInv, SearchType, NewSearch
<1>2. SearchInv /\ [GpuNext]_gpuVars => SearchInv'
  <2> SUFFICES ASSUME SearchInv, [GpuNext]_gpuVars PROVE SearchInv'
    OBVIOUS
  <2>1. CASE search' = search /\ asked' = asked
    BY <2>1 DEF SearchInv
  <2>2. CASE Key
    BY <2>1, <2>2, OverlayStep DEF Key
  <2>3. ASSUME NEW c \in calls, Serve(c) PROVE SearchInv'
    BY <2>1, <2>3 DEF Serve
  <2>4. ASSUME NEW p, Shell(p) \/ Frame(p) PROVE SearchInv'
    BY <2>1, <2>4 DEF Shell, Frame
  <2>5. CASE PollEvents \/ FetchLayout \/ Redraw \/ Expire \/ Mouse
    BY <2>1, <2>5 DEF PollEvents, FetchLayout, Redraw, Expire, Mouse
  <2>6. CASE UNCHANGED gpuVars
    BY <2>1, <2>6 DEF gpuVars
  <2> QED BY <2>2, <2>3, <2>4, <2>5, <2>6, OverlayStep DEF GpuNext
<1> QED BY <1>1, <1>2, PTL DEF GpuSpec

\* The answer to an earlier query never replaces that to the last one: once it has
\* come it is shown, until the text is emptied (tick_debounce and poll_results).
THEOREM NewestResults == GpuSpec => []ResultsOfLastQuery
<1>1. SearchInv => ResultsOfLastQuery
  BY NoneAssumption DEF SearchInv, ResultsOfLastQuery
<1> QED BY <1>1, SearchSound, PTL

-----------------------------------------------------------------------------
(* The MCP server: answers *)

RpcNames ==
  {"reject", "list", "find_pane", "find_session", "subscribe", "unsubscribe", "pane", "session",
   "keys", "cmd", "last", "stdout", "wait", "set", "spawn", "open", "split", "close", "gc",
   "baseline", "poll", "panicked", "sent"}
ReqFields == {"tool", "named", "todo", "prefix", "pane", "sess", "base", "block", "shared", "ok"}

\* The requests, the channel and what was written keep their types; a request that
\* has not been answered has no "sent" among its RPCs.
ReqTypeOK ==
  /\ DOMAIN req = Reqs
  /\ \A r \in Reqs : /\ DOMAIN req[r] = ReqFields
                     /\ req[r].todo \in Seq(RpcNames)
                     /\ req[r].shared \in BOOLEAN
  /\ out \in Seq(Reqs \cup {0})
  /\ written \in [Reqs -> Nat]

\* handle has run and its response was queued.
Sent(r) == req[r].todo = <<"sent">>
Unsent(r) == \A i \in 1 .. Len(req[r].todo) : req[r].todo[i] # "sent"
Queued(r) == \E i \in 1 .. Len(out) : out[i] = r
QueuedOnce(r) == \A i, j \in 1 .. Len(out) : out[i] = r /\ out[j] = r => i = j

\* An answer is in one place: in the task, in the channel or on stdout.
AnswerInOnePlace(r) ==
  /\ Sent(r) \/ Unsent(r)
  /\ Sent(r) => req[r].tool # Null
  /\ Sent(r) /\ Owed(req[r]) =>
       /\ QueuedOnce(r)
       /\ written[r] = IF Queued(r) THEN 0 ELSE 1
  /\ ~(Sent(r) /\ Owed(req[r])) => ~Queued(r) /\ written[r] = 0

AnswerInv == ReqTypeOK /\ \A r \in Reqs : AnswerInOnePlace(r)

\* Some RPCs, none of them "sent".
Rpcs(s) == s \in Seq(RpcNames) /\ \A i \in 1 .. Len(s) : s[i] # "sent"

\* No method of dispatch and handle_tools_call begins answered.
LEMMA MethodsUnsent ==
  ASSUME NEW tool \in DOMAIN Method
  PROVE  Rpcs(Method[tool])
<1>0. /\ Rpcs(ReadState) /\ Rpcs(ReadSession) /\ Rpcs(ReadPane) /\ Rpcs(ReadOutput)
      /\ Rpcs(ReadBlock)
  BY DEF Rpcs, RpcNames, ReadState, ReadSession, ReadPane, ReadOutput, ReadBlock
<1>1. /\ Rpcs(<<>>) /\ Rpcs(Initialize) /\ Rpcs(ToolsList) /\ Rpcs(UnknownMethod)
      /\ Rpcs(ResourcesList) /\ Rpcs(SubscribeTo)
  BY DEF Rpcs, RpcNames, Initialize, ToolsList, UnknownMethod, ResourcesList, SubscribeTo
<1>2. /\ Rpcs(UnsubscribeFrom) /\ Rpcs(SendKeys) /\ Rpcs(Capture) /\ Rpcs(WaitPaneState)
      /\ Rpcs(SetState) /\ Rpcs(SetWeight)
  BY DEF Rpcs, RpcNames, UnsubscribeFrom, SendKeys, Capture, WaitPaneState, SetState, SetWeight
<1>3. /\ Rpcs(BlockSearch) /\ Rpcs(SessionSpawn) /\ Rpcs(SessionClose) /\ Rpcs(ListSessions)
      /\ Rpcs(ListPanes)
  BY DEF Rpcs, RpcNames, BlockSearch, SessionSpawn, SessionClose, ListSessions, ListPanes
<1>4. Rpcs(SessionLayout) /\ Rpcs(GetLayout) /\ Rpcs(GcStale) /\ Rpcs(PaneOpen)
  BY DEF Rpcs, RpcNames, SessionLayout, GetLayout, GcStale, PaneOpen
<1>5. /\ Rpcs(SessionLayoutSplit) /\ Rpcs(OpenPaneSplit) /\ Rpcs(LastBlockTool)
      /\ Rpcs(RunCommand)
  BY DEF Rpcs, RpcNames, SessionLayoutSplit, OpenPaneSplit, LastBlockTool, RunCommand
<1> QED BY <1>0, <1>1, <1>2, <1>3, <1>4, <1>5 DEF Method

\* What an RPC of request r may do to the requests: r takes its next step or gives
\* up, and the others go on as they were, but for a pane they no longer have to
\* themselves.
Advanced(r) ==
  /\ DOMAIN req' = Reqs
  /\ \A x \in Reqs : /\ DOMAIN req'[x] = ReqFields /\ req'[x].tool = req[x].tool
                     /\ req'[x].named = req[x].named /\ req'[x].shared \in BOOLEAN
  /\ \A x \in Reqs \ {r} : req'[x].todo = req[x].todo
  /\ req'[r].todo \in {<<>>, Tail(req[r].todo)}

LEMMA FailsAdvances ==
  ASSUME ReqTypeOK, NEW r \in Reqs, Fails(r)
  PROVE  Advanced(r)
BY DEF ReqTypeOK, ReqFields, Fails, Advanced

LEMMA GoesAdvances ==
  ASSUME ReqTypeOK, NEW r \in Reqs, NEW q, Goes(r, q), DOMAIN q = ReqFields,
         q.tool = req[r].tool, q.named = req[r].named, q.todo = req[r].todo, q.shared \in BOOLEAN
  PROVE  Advanced(r)
BY DEF ReqTypeOK, ReqFields, Goes, Advanced

\* Every RPC of every method.
LEMMA RpcAdvances ==
  ASSUME ReqTypeOK, NEW r \in Reqs, Rpc(r)
  PROVE  /\ Advanced(r) /\ out' = out /\ written' = written
         /\ req[r].todo # <<>> /\ Head(req[r].todo) # "sent"
<1>0. /\ out' = out /\ written' = written
      /\ DOMAIN req[r] = ReqFields /\ req[r].shared \in BOOLEAN /\ DOMAIN req = Reqs
  BY DEF Rpc, ReqTypeOK
<1>1. CASE RpcFails(r)
  BY <1>0, <1>1, FailsAdvances DEF RpcFails
<1>2. CASE Resolve(r)
  <2>1. req[r].todo # <<>> /\ Head(req[r].todo) # "sent"
    BY <1>2 DEF Resolve, Now
  <2>2. \/ Fails(r)
        \/ \E m : Goes(r, [req[r] EXCEPT !.prefix = {}, !.pane = m])
        \/ \E m : Goes(r, [req[r] EXCEPT !.sess = m])
    BY <1>2 DEF Resolve
  <2>3. ASSUME NEW m, Goes(r, [req[r] EXCEPT !.prefix = {}, !.pane = m]) PROVE Advanced(r)
    <3> DEFINE q == [req[r] EXCEPT !.prefix = {}, !.pane = m]
    <3>1. /\ DOMAIN q = ReqFields /\ q.tool = req[r].tool /\ q.named = req[r].named
          /\ q.todo = req[r].todo /\ q.shared = req[r].shared
      BY <1>0 DEF ReqFields
    <3> HIDE DEF q
    <3>2. Goes(r, q)
      BY <2>3 DEF q
    <3> QED BY <1>0, <3>1, <3>2, GoesAdvances
  <2>4. ASSUME NEW m, Goes(r, [req[r] EXCEPT !.sess = m]) PROVE Advanced(r)
    <3> DEFINE q == [req[r] EXCEPT !.sess = m]
    <3>1. /\ DOMAIN q = ReqFields /\ q.tool = req[r].tool /\ q.named = req[r].named
          /\ q.todo = req[r].todo /\ q.shared = req[r].shared
      BY <1>0 DEF ReqFields
    <3> HIDE DEF q
    <3>2. Goes(r, q)
      BY <2>4 DEF q
    <3> QED BY <1>0, <3>1, <3>2, GoesAdvances
  <2> QED BY <1>0, <2>1, <2>2, <2>3, <2>4, FailsAdvances
<1>3. CASE Keys(r)
  <2>1. req[r].todo # <<>> /\ Head(req[r].todo) # "sent"
    BY <1>3 DEF Keys, Now
  <2>2. CASE Fails(r)
    BY <1>0, <2>1, <2>2, FailsAdvances
  <2>3. CASE ~Fails(r)
    <3> DEFINE p == req[r].pane
               q == [req[r] EXCEPT !.shared = @ \/ Busy(p)]
               touched(x) == x # r /\ req[x].tool = "run_command" /\ req[x].pane = p
    <3>1. req' = [x \in Reqs |-> IF x = r THEN [q EXCEPT !.todo = Tail(@), !.ok = TRUE]
                                 ELSE IF touched(x) THEN [req[x] EXCEPT !.shared = TRUE] ELSE req[x]]
      BY <1>3, <2>3 DEF Keys
    <3>2. /\ DOMAIN q = ReqFields /\ q.tool = req[r].tool /\ q.named = req[r].named /\ q.todo = req[r].todo
          /\ q.shared \in BOOLEAN
      BY <1>0 DEF ReqFields
    <3> HIDE DEF q
    <3>3. /\ DOMAIN req'[r] = ReqFields /\ req'[r].tool = req[r].tool /\ req'[r].named = req[r].named
          /\ req'[r].todo = Tail(req[r].todo) /\ req'[r].shared \in BOOLEAN
      BY <3>1, <3>2 DEF ReqFields
    <3>4. ASSUME NEW x \in Reqs \ {r}
          PROVE  /\ DOMAIN req'[x] = ReqFields /\ req'[x].tool = req[x].tool /\ req'[x].named = req[x].named
                 /\ req'[x].todo = req[x].todo /\ req'[x].shared \in BOOLEAN
      BY <3>1, <3>4 DEF ReqFields, ReqTypeOK
    <3>5. Advanced(r)
      BY <3>1, <3>3, <3>4 DEF Advanced
    <3> QED BY <1>0, <2>1, <3>5
  <2> QED BY <2>2, <2>3
<1>4. CASE Open(r)
  <2>1. req[r].todo # <<>> /\ Head(req[r].todo) # "sent"
    BY <1>4 DEF Open, Now
  <2>2. Fails(r) \/ \E p, s : Goes(r, [req[r] EXCEPT !.pane = p, !.sess = s])
    BY <1>4 DEF Open
  <2>3. ASSUME NEW p, NEW s, Goes(r, [req[r] EXCEPT !.pane = p, !.sess = s]) PROVE Advanced(r)
    <3> DEFINE q == [req[r] EXCEPT !.pane = p, !.sess = s]
    <3>1. /\ DOMAIN q = ReqFields /\ q.tool = req[r].tool /\ q.named = req[r].named
          /\ q.todo = req[r].todo /\ q.shared = req[r].shared
      BY <1>0 DEF ReqFields
    <3> HIDE DEF q
    <3>2. Goes(r, q)
      BY <2>3 DEF q
    <3> QED BY <1>0, <3>1, <3>2, GoesAdvances
  <2> QED BY <1>0, <2>1, <2>2, <2>3, FailsAdvances
<1>5. CASE Find(r) \/ Close(r) \/ Read(r) \/ Subscribe(r)
  <2>1. req[r].todo # <<>> /\ Head(req[r].todo) # "sent"
    BY <1>5 DEF Find, Close, Read, Subscribe, Now
  <2>2. Goes(r, req[r])
    BY <1>5 DEF Find, Close, Read, Subscribe
  <2> QED BY <1>0, <2>1, <2>2, GoesAdvances
<1>6. CASE LastRpc(r)
  <2>1. req[r].todo # <<>> /\ Head(req[r].todo) # "sent"
    BY <1>6 DEF LastRpc, Now
  <2>2. \/ Goes(r, req[r])
        \/ Goes(r, [req[r] EXCEPT !.base = LastBlock(req[r].pane), !.shared = Busy(req[r].pane)])
    BY <1>6 DEF LastRpc
  <2>3. CASE Goes(r, [req[r] EXCEPT !.base = LastBlock(req[r].pane), !.shared = Busy(req[r].pane)])
    <3> DEFINE q == [req[r] EXCEPT !.base = LastBlock(req[r].pane), !.shared = Busy(req[r].pane)]
    <3>0. Busy(req[r].pane) \in BOOLEAN
      BY DEF Busy
    <3>1. /\ DOMAIN q = ReqFields /\ q.tool = req[r].tool /\ q.named = req[r].named
          /\ q.todo = req[r].todo /\ q.shared \in BOOLEAN
      BY <1>0, <3>0 DEF ReqFields
    <3> HIDE DEF q
    <3>2. Goes(r, q)
      BY <2>3 DEF q
    <3> QED BY <1>0, <2>1, <3>1, <3>2, GoesAdvances
  <2> QED BY <1>0, <2>1, <2>2, <2>3, GoesAdvances
<1>7. CASE Poll(r)
  <2>1. req[r].todo # <<>> /\ Head(req[r].todo) # "sent"
    BY <1>7 DEF Poll, Now
  <2>2. \/ req' = [req EXCEPT ![r].todo = <<>>]
        \/ \E b : Goes(r, [req[r] EXCEPT !.block = b])
    BY <1>7 DEF Poll
  <2>3. CASE req' = [req EXCEPT ![r].todo = <<>>]
    BY <1>0, <2>1, <2>3 DEF Advanced, ReqTypeOK, ReqFields
  <2>4. ASSUME NEW b, Goes(r, [req[r] EXCEPT !.block = b]) PROVE Advanced(r)
    <3> DEFINE q == [req[r] EXCEPT !.block = b]
    <3>1. /\ DOMAIN q = ReqFields /\ q.tool = req[r].tool /\ q.named = req[r].named
          /\ q.todo = req[r].todo /\ q.shared = req[r].shared
      BY <1>0 DEF ReqFields
    <3> HIDE DEF q
    <3>2. Goes(r, q)
      BY <2>4 DEF q
    <3> QED BY <1>0, <3>1, <3>2, GoesAdvances
  <2> QED BY <1>0, <2>1, <2>2, <2>3, <2>4
<1> QED BY <1>1, <1>2, <1>3, <1>4, <1>5, <1>6, <1>7 DEF Rpc

\* An RPC moves no answer.
LEMMA RpcKeepsAnswers ==
  ASSUME AnswerInv, NEW r \in Reqs, Rpc(r)
  PROVE  AnswerInv'
<1>1. /\ Advanced(r) /\ out' = out /\ written' = written
      /\ req[r].todo # <<>> /\ Head(req[r].todo) # "sent"
  BY RpcAdvances DEF AnswerInv
<1>2. ~Sent(r) /\ Unsent(r) /\ req[r].todo \in Seq(RpcNames)
  <2>1. Head(<<"sent">>) = "sent"
    OBVIOUS
  <2> QED BY <1>1, <2>1 DEF AnswerInv, AnswerInOnePlace, Sent, ReqTypeOK
<1>3. req'[r].todo \in Seq(RpcNames) /\ Unsent(r)'
  <2>1. CASE req'[r].todo = <<>>
    BY <2>1 DEF Unsent
  <2>2. CASE req'[r].todo = Tail(req[r].todo)
    <3> DEFINE s == req[r].todo
    <3>1. s \in Seq(RpcNames) /\ s # <<>> /\ \A i \in 1 .. Len(s) : s[i] # "sent"
      BY <1>1, <1>2 DEF Unsent
    <3> HIDE DEF s
    <3>2. Tail(s) \in Seq(RpcNames) /\ \A i \in 1 .. Len(Tail(s)) : Tail(s)[i] # "sent"
      BY <3>1
    <3> QED BY <2>2, <3>2 DEF Unsent, s
  <2> QED BY <1>1, <2>1, <2>2 DEF Advanced
<1>4. ~Sent(r)'
  BY <1>3 DEF Sent, Unsent
<1>5. ReqTypeOK'
  BY <1>1, <1>3 DEF AnswerInv, ReqTypeOK, Advanced
<1>6. AnswerInOnePlace(r)'
  BY <1>1, <1>2, <1>3, <1>4 DEF AnswerInv, AnswerInOnePlace, Queued
<1>7. ASSUME NEW x \in Reqs \ {r} PROVE AnswerInOnePlace(x)'
  BY <1>1 DEF AnswerInv, AnswerInOnePlace, Advanced, Owed, Sent, Unsent, Queued, QueuedOnce
<1> QED BY <1>5, <1>6, <1>7 DEF AnswerInv

\* Nor does a panic.
LEMMA PanicKeepsAnswers ==
  ASSUME AnswerInv, NEW r \in Reqs, Panic(r)
  PROVE  AnswerInv'
<1>0. /\ req' = [req EXCEPT ![r].todo = <<"panicked">>] /\ out' = out /\ written' = written
      /\ req[r].todo # <<>> /\ Head(req[r].todo) = "poll" /\ ReqTypeOK
  BY DEF Panic, Now, AnswerInv
<1>1. ~Sent(r) /\ ~Queued(r) /\ written[r] = 0
  <2>1. Head(<<"sent">>) = "sent"
    OBVIOUS
  <2> QED BY <1>0, <2>1 DEF AnswerInv, AnswerInOnePlace, Sent
<1>2. /\ DOMAIN req' = Reqs /\ DOMAIN req'[r] = ReqFields /\ req'[r].todo = <<"panicked">>
      /\ req'[r].shared = req[r].shared /\ \A x \in Reqs \ {r} : req'[x] = req[x]
  BY <1>0 DEF ReqTypeOK, ReqFields
<1>3. <<"panicked">> \in Seq(RpcNames)
  BY DEF RpcNames
<1>4. ReqTypeOK'
  BY <1>0, <1>2, <1>3 DEF ReqTypeOK
<1>5. Unsent(r)' /\ ~Sent(r)'
  <2>1. Len(<<"panicked">>) = 1 /\ <<"panicked">>[1] = "panicked"
    OBVIOUS
  <2>2. <<"panicked">> # <<"sent">>
    OBVIOUS
  <2> QED BY <1>2, <2>1, <2>2 DEF Unsent, Sent
<1>6. AnswerInOnePlace(r)'
  BY <1>0, <1>1, <1>5 DEF AnswerInOnePlace, Queued
<1>7. ASSUME NEW x \in Reqs \ {r} PROVE AnswerInOnePlace(x)'
  BY <1>0, <1>2 DEF AnswerInv, AnswerInOnePlace, Owed, Sent, Unsent, Queued, QueuedOnce
<1> QED BY <1>4, <1>6, <1>7 DEF AnswerInv

\* handle returns Some for every request but "initialized", and send_line queues it
\* if the line had an id.
LEMMA AnswerQueues ==
  ASSUME AnswerInv, NEW r \in Reqs, Answer(r)
  PROVE  AnswerInv'
<1>0. /\ req[r].tool # Null /\ req[r].todo = <<>> /\ written' = written
      /\ out' = IF Answers(req[r]) THEN Append(out, r) ELSE out
      /\ req' = [req EXCEPT ![r] = [Free EXCEPT !.tool = req[r].tool, !.named = req[r].named,
                                               !.todo = <<"sent">>]]
  BY DEF Answer
<1>1. /\ ~Sent(r) /\ ~Queued(r) /\ written[r] = 0
  <2>1. <<"sent">> # <<>>
    OBVIOUS
  <2>2. ~Sent(r)
    BY <1>0, <2>1 DEF Sent
  <2> QED BY <2>2 DEF AnswerInv, AnswerInOnePlace
<1>2. <<"sent">> \in Seq(RpcNames)
  BY DEF RpcNames
<1>3. /\ req'[r].todo = <<"sent">> /\ req'[r].tool = req[r].tool
      /\ req'[r].named = req[r].named /\ DOMAIN req'[r] = ReqFields /\ req'[r].shared = FALSE
      /\ DOMAIN req' = Reqs /\ \A x \in Reqs \ {r} : req'[x] = req[x]
  BY <1>0 DEF AnswerInv, ReqTypeOK, Free, ReqFields
<1>4. out \in Seq(Reqs \cup {0}) /\ out' \in Seq(Reqs \cup {0})
  BY <1>0 DEF AnswerInv, ReqTypeOK
<1>5. ReqTypeOK'
  BY <1>0, <1>2, <1>3, <1>4 DEF AnswerInv, ReqTypeOK
<1>6. AnswerInOnePlace(r)'
  <2>1. CASE ~Owed(req[r])
    BY <1>0, <1>1, <1>3, <2>1 DEF Answers, Owed, AnswerInOnePlace, Sent, Queued
  <2>2. CASE Owed(req[r])
    <3>1. out' = Append(out, r)
      BY <1>0, <2>2 DEF Answers, Owed
    <3>2. Queued(r)' /\ QueuedOnce(r)'
      BY <1>1, <1>4, <3>1 DEF Queued, QueuedOnce
    <3> QED BY <1>0, <1>1, <1>3, <2>2, <3>2 DEF AnswerInOnePlace, Owed, Sent
  <2> QED BY <2>1, <2>2
<1>7. ASSUME NEW x \in Reqs \ {r} PROVE AnswerInOnePlace(x)'
  <2>1. (Queued(x)' <=> Queued(x)) /\ (QueuedOnce(x) => QueuedOnce(x)')
    BY <1>0, <1>4 DEF Queued, QueuedOnce
  <2> QED BY <1>0, <1>3, <2>1 DEF AnswerInv, AnswerInOnePlace, Owed, Sent, Unsent
<1> QED BY <1>5, <1>6, <1>7 DEF AnswerInv

\* The writer takes the oldest line.
LEMMA WriteWrites ==
  ASSUME AnswerInv, Write
  PROVE  AnswerInv'
<1>0. /\ out # <<>> /\ out' = Tail(out) /\ req' = req
      /\ written' = IF Head(out) \in Reqs THEN [written EXCEPT ![Head(out)] = @ + 1] ELSE written
      /\ out \in Seq(Reqs \cup {0}) /\ written \in [Reqs -> Nat]
  BY DEF Write, AnswerInv, ReqTypeOK
<1>1. /\ out' \in Seq(Reqs \cup {0}) /\ written' \in [Reqs -> Nat] /\ Len(out') = Len(out) - 1
      /\ \A i \in 1 .. Len(out') : out'[i] = out[i + 1]
      /\ Head(out) = out[1] /\ Len(out) \in Nat /\ Len(out) >= 1
  BY <1>0
<1>2. ReqTypeOK'
  BY <1>0, <1>1 DEF AnswerInv, ReqTypeOK
<1>3. ASSUME NEW x \in Reqs PROVE AnswerInOnePlace(x)'
  <2>1. QueuedOnce(x) => QueuedOnce(x)'
    BY <1>1 DEF QueuedOnce
  <2>2. CASE Head(out) = x
    <3>1. Queued(x) /\ Sent(x) /\ Owed(req[x]) /\ QueuedOnce(x) /\ written[x] = 0
      BY <1>1, <2>2 DEF AnswerInv, AnswerInOnePlace, Queued
    <3>2. ~Queued(x)'
      BY <1>1, <2>2, <3>1 DEF Queued, QueuedOnce
    <3>3. written'[x] = 1
      BY <1>0, <2>2, <3>1
    <3> QED BY <1>0, <2>1, <3>1, <3>2, <3>3 DEF AnswerInv, AnswerInOnePlace, Owed, Sent, Unsent
  <2>3. CASE Head(out) # x
    <3>1. Queued(x)' <=> Queued(x)
      <4>1. ASSUME NEW i \in 1 .. Len(out), out[i] = x PROVE Queued(x)'
        <5>1. i # 1 /\ i - 1 \in 1 .. Len(out') /\ out'[i - 1] = out[(i - 1) + 1] /\ (i - 1) + 1 = i
          BY <1>1, <2>3, <4>1
        <5> QED BY <4>1, <5>1 DEF Queued
      <4> QED BY <1>1, <4>1 DEF Queued
    <3>2. written'[x] = written[x]
      BY <1>0, <2>3
    <3> QED BY <1>0, <2>1, <3>1, <3>2 DEF AnswerInv, AnswerInOnePlace, Owed, Sent, Unsent
  <2> QED BY <2>2, <2>3
<1> QED BY <1>2, <1>3 DEF AnswerInv

\* A new request, a line that answers none, and what is not about requests.
LEMMA OthersKeepAnswers ==
  ASSUME AnswerInv,
         \/ \E r \in Reqs, tool \in DOMAIN Method : \E named, prefix : Receive(r, tool, named, prefix)
         \/ Notify \/ ParseError
         \/ UNCHANGED <<req, out, written>>
  PROVE  AnswerInv'
<1>1. ASSUME NEW r \in Reqs, NEW tool \in DOMAIN Method, NEW named, NEW prefix,
             Receive(r, tool, named, prefix)
      PROVE  AnswerInv'
  <2>0. /\ req[r].tool = Null /\ out' = out /\ written' = written
        /\ req' = [req EXCEPT ![r] = [Free EXCEPT !.tool = tool, !.named = named,
                                                 !.todo = Method[tool], !.prefix = prefix]]
    BY <1>1 DEF Receive
  <2>1. ~Sent(r) /\ ~Queued(r) /\ written[r] = 0
    BY <2>0 DEF AnswerInv, AnswerInOnePlace
  <2>2. Rpcs(Method[tool])
    BY MethodsUnsent
  <2>3. /\ req'[r].todo = Method[tool] /\ DOMAIN req'[r] = ReqFields /\ req'[r].shared = FALSE
        /\ DOMAIN req' = Reqs /\ \A x \in Reqs \ {r} : req'[x] = req[x]
    BY <2>0 DEF AnswerInv, ReqTypeOK, Free, ReqFields
  <2>4. ReqTypeOK'
    BY <2>0, <2>2, <2>3 DEF AnswerInv, ReqTypeOK, Rpcs
  <2>5. Unsent(r)' /\ ~Sent(r)'
    BY <2>2, <2>3 DEF Rpcs, Unsent, Sent
  <2>6. AnswerInOnePlace(r)'
    BY <2>0, <2>1, <2>5 DEF AnswerInOnePlace, Queued
  <2>7. ASSUME NEW x \in Reqs \ {r} PROVE AnswerInOnePlace(x)'
    BY <2>0, <2>3 DEF AnswerInv, AnswerInOnePlace, Owed, Sent, Unsent, Queued, QueuedOnce
  <2> QED BY <2>4, <2>6, <2>7 DEF AnswerInv
<1>2. CASE Notify \/ ParseError
  <2>0. out' = Append(out, 0) /\ req' = req /\ written' = written /\ out \in Seq(Reqs \cup {0})
    BY <1>2 DEF Notify, ParseError, AnswerInv, ReqTypeOK
  <2>1. ReqTypeOK'
    BY <2>0 DEF AnswerInv, ReqTypeOK
  <2>2. ASSUME NEW x \in Reqs PROVE AnswerInOnePlace(x)'
    <3>1. (Queued(x)' <=> Queued(x)) /\ (QueuedOnce(x) => QueuedOnce(x)')
      BY <2>0, ReqsAssumption DEF Queued, QueuedOnce
    <3> QED BY <2>0, <3>1 DEF AnswerInv, AnswerInOnePlace, Owed, Sent, Unsent
  <2> QED BY <2>1, <2>2 DEF AnswerInv
<1>3. CASE UNCHANGED <<req, out, written>>
  BY <1>3 DEF AnswerInv, ReqTypeOK, AnswerInOnePlace, Owed, Sent, Unsent, Queued, QueuedOnce
<1> QED BY <1>1, <1>2, <1>3

\* Every answer is in one place.
THEOREM AnswersKept == McpSpec => []AnswerInv
<1>1. McpInit => AnswerInv
  <2> SUFFICES ASSUME McpInit PROVE AnswerInv
    OBVIOUS
  <2>1. /\ req = [r \in Reqs |-> Free] /\ out = <<>> /\ written = [r \in Reqs |-> 0]
        /\ DOMAIN Free = ReqFields /\ Free.todo = <<>> /\ Free.shared = FALSE
    BY DEF McpInit, Free, ReqFields
  <2>2. ReqTypeOK
    <3>1. <<>> \in Seq(RpcNames) /\ <<>> \in Seq(Reqs \cup {0})
      OBVIOUS
    <3> QED BY <2>1, <3>1 DEF ReqTypeOK
  <2>3. ASSUME NEW r \in Reqs PROVE AnswerInOnePlace(r)
    <3>1. req[r].todo = <<>> /\ written[r] = 0 /\ Len(out) = 0
      BY <2>1
    <3>2. ~Sent(r) /\ Unsent(r) /\ ~Queued(r)
      BY <3>1 DEF Sent, Unsent, Queued
    <3> QED BY <3>1, <3>2 DEF AnswerInOnePlace
  <2> QED BY <2>2, <2>3 DEF AnswerInv
<1>2. AnswerInv /\ [McpNext]_mcpVars => AnswerInv'
  <2> SUFFICES ASSUME AnswerInv, [McpNext]_mcpVars PROVE AnswerInv'
    OBVIOUS
  <2>1. CASE Eof \/ UNCHANGED mcpVars
    BY <2>1, OthersKeepAnswers DEF Eof, mcpVars
  <2>2. ASSUME NEW p \in DOMAIN pane, Start(p) \/ Finish(p) \/ Exit(p) PROVE AnswerInv'
    BY <2>2, OthersKeepAnswers DEF Start, Finish, Exit
  <2> QED BY <2>1, <2>2, RpcKeepsAnswers, PanicKeepsAnswers, AnswerQueues, WriteWrites,
             OthersKeepAnswers DEF McpNext
<1> QED BY <1>1, <1>2, PTL DEF McpSpec

\* A failed RPC, a pane that closed or a full channel costs pyre-mcp no answer and
\* doubles none; a task that panicked has none (handle, send_line and the writer of
\* main).
THEOREM AnsweredOnce == McpSpec => []NoAnswerLost
<1>0. <<"panicked">> # <<"sent">>
  OBVIOUS
<1>1. AnswerInv => NoAnswerLost
  BY <1>0 DEF AnswerInv, AnswerInOnePlace, Sent, Queued, NoAnswerLost
<1> QED BY <1>1, AnswersKept, PTL

-----------------------------------------------------------------------------
(* The MCP server: pane_run_command *)

\* The panes keep their types and are numbered as they are made.
PaneTypeOK ==
  /\ born.panes \in Nat
  /\ DOMAIN pane \subseteq 1 .. born.panes
  /\ \A p \in DOMAIN pane :
       /\ DOMAIN pane[p] = {"session", "live", "typed", "blocks"}
       /\ pane[p].typed \in Seq(Reqs)
       /\ pane[p].blocks \in Seq([cmd : Reqs \cup {0}, done : BOOLEAN])

\* Where a call of pane_run_command is.
AtPane(t)     == t = RunCommand
AtBaseline(t) == t = <<"baseline", "keys", "poll", "stdout">>
AtKeys(t)     == t = <<"keys", "poll", "stdout">>
AtPoll(t)     == t = <<"poll", "stdout">>
AtEnd(t)      == t = <<"stdout">> \/ t = <<>> \/ t = <<"sent">> \/ t = <<"panicked">>

\* The last block before the command was typed.
Before(q) == IF q.base = Null THEN 0 ELSE q.base

\* The command of request r, typed into pane p that had n blocks, waits, was lost
\* with the shell, or has the next block.
Typed(r, p, n) ==
  LET b == pane[p].blocks IN
  \/ Len(b) = n /\ pane[p].typed \in {<<r>>, <<>>}
  \/ Len(b) = n + 1 /\ pane[p].typed = <<>> /\ b[n + 1].cmd = r

\* A call that has its pane to itself: at its baseline the pane was idle, and since
\* then only its own command was typed.
RunOK(r) ==
  LET q == req[r] IN
  q.tool = "run_command" =>
    /\ AtPane(q.todo) \/ AtBaseline(q.todo) \/ AtKeys(q.todo) \/ AtPoll(q.todo) \/ AtEnd(q.todo)
    /\ ~AtEnd(q.todo) => q.block = Null
    /\ AtBaseline(q.todo) \/ AtKeys(q.todo) \/ AtPoll(q.todo) => q.pane \in DOMAIN pane
    /\ AtKeys(q.todo) /\ ~q.shared => ~Busy(q.pane) /\ q.base = LastBlock(q.pane)
    /\ AtPoll(q.todo) /\ ~q.shared => Typed(r, q.pane, Before(q))
    /\ q.block # Null /\ ~q.shared => q.block = r

RunInv == PaneTypeOK /\ \A r \in Reqs : RunOK(r)

\* The steps of the method, told apart by their first RPC.
LEMMA Phases ==
  ASSUME NEW t
  PROVE  /\ AtPane(t) => Head(t) = "pane" /\ AtBaseline(Tail(t)) /\ Len(t) = 5
         /\ AtBaseline(t) => Head(t) = "baseline" /\ AtKeys(Tail(t)) /\ Len(t) = 4
         /\ AtKeys(t) => Head(t) = "keys" /\ AtPoll(Tail(t)) /\ Len(t) = 3
         /\ AtPoll(t) => Head(t) = "poll" /\ AtEnd(Tail(t)) /\ Len(t) = 2
         /\ AtEnd(t) => Len(t) <= 1
         /\ AtEnd(t) /\ t # <<>> => Head(t) \in {"stdout", "sent", "panicked"} /\ AtEnd(Tail(t))
<1>1. AtPane(t) => Head(t) = "pane" /\ AtBaseline(Tail(t)) /\ Len(t) = 5
  BY DEF AtPane, AtBaseline, RunCommand
<1>2. AtBaseline(t) => Head(t) = "baseline" /\ AtKeys(Tail(t)) /\ Len(t) = 4
  BY DEF AtBaseline, AtKeys
<1>3. AtKeys(t) => Head(t) = "keys" /\ AtPoll(Tail(t)) /\ Len(t) = 3
  BY DEF AtKeys, AtPoll
<1>4. AtPoll(t) => Head(t) = "poll" /\ AtEnd(Tail(t)) /\ Len(t) = 2
  BY DEF AtPoll, AtEnd
<1>5. AtEnd(t) => Len(t) <= 1
  <2>1. t = <<>> => Len(t) <= 1
    OBVIOUS
  <2>2. t = <<"stdout">> \/ t = <<"sent">> => Len(t) <= 1
    OBVIOUS
  <2>3. t = <<"panicked">> => Len(t) <= 1
    OBVIOUS
  <2> QED BY <2>1, <2>2, <2>3 DEF AtEnd
<1>6. AtEnd(t) /\ t # <<>> => Head(t) \in {"stdout", "sent", "panicked"} /\ AtEnd(Tail(t))
  <2>1. CASE t = <<"stdout">>
    BY <2>1 DEF AtEnd
  <2>2. CASE t = <<"sent">>
    BY <2>2 DEF AtEnd
  <2>3. CASE t = <<"panicked">>
    BY <2>3 DEF AtEnd
  <2> QED BY <2>1, <2>2, <2>3 DEF AtEnd
<1> QED BY <1>1, <1>2, <1>3, <1>4, <1>5, <1>6

LEMMA OnePhase ==
  ASSUME NEW t
  PROVE  /\ AtEnd(t) => ~AtPane(t) /\ ~AtBaseline(t) /\ ~AtKeys(t) /\ ~AtPoll(t)
         /\ AtPane(t) => ~AtBaseline(t) /\ ~AtKeys(t) /\ ~AtPoll(t)
         /\ AtBaseline(t) => ~AtKeys(t) /\ ~AtPoll(t)
         /\ AtKeys(t) => ~AtPoll(t)
BY Phases

\* A pane that nobody types into and whose shell starts nothing: it may die.
Quieter(p) ==
  /\ p \in DOMAIN pane'
  /\ pane'[p].blocks = pane[p].blocks
  /\ pane'[p].typed = pane[p].typed \/ pane'[p].typed = <<>>

\* A call that a step does not advance keeps its invariant, if its pane stays quiet
\* or it is marked as sharing the pane.
LEMMA RunFrame ==
  ASSUME NEW x \in Reqs, RunOK(x), DOMAIN pane \subseteq DOMAIN pane',
         req'[x].tool = req[x].tool, req'[x].todo = req[x].todo, req'[x].block = req[x].block,
         req'[x].pane = req[x].pane, req'[x].base = req[x].base,
         req[x].shared => req'[x].shared,
         req'[x].shared \/ (req[x].pane \in DOMAIN pane => Quieter(req[x].pane))
  PROVE  RunOK(x)'
<1> DEFINE q == req[x]
<1> SUFFICES ASSUME q.tool = "run_command" PROVE RunOK(x)'
  BY DEF RunOK
<1>1. ASSUME AtKeys(q.todo), ~req'[x].shared
      PROVE  ~Busy(q.pane)' /\ q.base = LastBlock(q.pane)'
  <2>1. ~Busy(q.pane) /\ q.base = LastBlock(q.pane) /\ Quieter(q.pane)
    BY <1>1 DEF RunOK
  <2> QED BY <2>1 DEF Busy, LastBlock, Finished, Quieter
<1>2. ASSUME AtPoll(q.todo), ~req'[x].shared
      PROVE  Typed(x, q.pane, Before(q))'
  <2>1. Typed(x, q.pane, Before(q)) /\ Quieter(q.pane)
    BY <1>2 DEF RunOK
  <2>2. Before(q)' = Before(q)
    BY DEF Before
  <2> QED BY <2>1, <2>2 DEF Typed, Quieter
<1> QED BY <1>1, <1>2 DEF RunOK

\* So do all calls, where no request changes and every pane stays quiet.
LEMMA PanesQuiet ==
  ASSUME RunInv, req' = req, \A p \in DOMAIN pane : Quieter(p)
  PROVE  \A x \in Reqs : RunOK(x)'
BY RunFrame DEF RunInv, Quieter

\* A request that is gone wrong, answered or of another tool.
LEMMA RunEnds ==
  ASSUME NEW r \in Reqs, RunOK(r), AtEnd(req'[r].todo), req'[r].tool = req[r].tool,
         req'[r].block = Null \/ (req'[r].block = req[r].block /\ req'[r].shared = req[r].shared)
  PROVE  RunOK(r)'
BY OnePhase DEF RunOK

\* The RPCs of a call itself.  Its pane is the one it resolved ...
LEMMA ResolveRun ==
  ASSUME ReqTypeOK, RunInv, NEW r \in Reqs, Resolve(r)
  PROVE  RunInv'
<1>0. /\ pane' = pane /\ born' = born /\ req[r].todo # <<>>
      /\ DOMAIN req = Reqs /\ DOMAIN req[r] = ReqFields /\ RunOK(r)
      /\ Head(req[r].todo) \in {"pane", "session"}
  BY DEF Resolve, Fails, ReqTypeOK, RunInv, Now
<1>1. PaneTypeOK'
  BY <1>0 DEF RunInv, PaneTypeOK
<1>2. \A x \in Reqs \ {r} : req'[x] = req[x]
  BY <1>0 DEF Resolve, Fails, Goes
<1>3. \A x \in Reqs \ {r} : RunOK(x)'
  BY <1>0, <1>2, RunFrame DEF RunInv, Quieter
<1>4. RunOK(r)'
  <2>1. CASE Fails(r)
    <3>1. /\ req'[r].todo = <<>> /\ req'[r].tool = req[r].tool /\ req'[r].block = req[r].block
          /\ req'[r].shared = req[r].shared
      BY <1>0, <2>1 DEF Fails, ReqFields
    <3> QED BY <1>0, <3>1, RunEnds DEF AtEnd
  <2>2. ASSUME NEW p \in Live, Head(req[r].todo) = "pane",
               Goes(r, [req[r] EXCEPT !.prefix = {}, !.pane = p])
        PROVE  RunOK(r)'
    <3>1. /\ req'[r].todo = Tail(req[r].todo) /\ req'[r].tool = req[r].tool
          /\ req'[r].block = req[r].block /\ req'[r].pane = p /\ p \in DOMAIN pane'
      BY <1>0, <2>2 DEF Goes, ReqFields, Live
    <3>2. req[r].tool = "run_command" => AtPane(req[r].todo) /\ req[r].block = Null
      BY <1>0, <2>2, Phases, OnePhase DEF RunOK
    <3>3. req[r].tool = "run_command" => AtBaseline(req'[r].todo)
      BY <3>1, <3>2, Phases
    <3> QED BY <1>0, <3>1, <3>2, <3>3, OnePhase DEF RunOK
  <2>3. ASSUME NEW m, Head(req[r].todo) = "session", Goes(r, [req[r] EXCEPT !.sess = m])
        PROVE  RunOK(r)'
    <3>1. req'[r].tool = req[r].tool
      BY <1>0, <2>3 DEF Goes, ReqFields
    <3>2. req[r].tool # "run_command"
      BY <1>0, <2>3, Phases DEF RunOK
    <3> QED BY <3>1, <3>2 DEF RunOK
  <2>4. \/ Fails(r)
        \/ \E p \in Live : /\ Head(req[r].todo) = "pane"
                           /\ Goes(r, [req[r] EXCEPT !.prefix = {}, !.pane = p])
        \/ \E m : Head(req[r].todo) = "session" /\ Goes(r, [req[r] EXCEPT !.sess = m])
    <3>1. CASE Now(r, "pane")
      <4> DEFINE m == Live \intersect req[r].prefix
                 p == CHOOSE x \in m : TRUE
      <4>1. Fails(r) \/ (Cardinality(m) = 1 /\ Goes(r, [req[r] EXCEPT !.prefix = {}, !.pane = p]))
        <5>1. ~Now(r, "session")
          BY <3>1 DEF Now
        <5> QED BY <3>1, <5>1 DEF Resolve
      <4>2. Cardinality(m) = 1 => m # {}
        BY FS_EmptySet
      <4>3. Cardinality(m) = 1 => p \in Live
        BY <4>2
      <4> QED BY <3>1, <4>1, <4>3 DEF Now
    <3>2. CASE Now(r, "session")
      <4>1. ~Now(r, "pane")
        BY <3>2 DEF Now
      <4>2. Fails(r) \/ \E m : Goes(r, [req[r] EXCEPT !.sess = m])
        BY <4>1 DEF Resolve
      <4> QED BY <3>2, <4>2 DEF Now
    <3> QED BY <3>1, <3>2 DEF Resolve
  <2> QED BY <2>1, <2>2, <2>3, <2>4
<1> QED BY <1>1, <1>3, <1>4 DEF RunInv

\* ... its baseline is the last block of that pane, which it then watches ...
LEMMA BaselineRun ==
  ASSUME ReqTypeOK, RunInv, NEW r \in Reqs, LastRpc(r)
  PROVE  RunInv'
<1> DEFINE p == req[r].pane
           base == [req[r] EXCEPT !.base = LastBlock(p), !.shared = Busy(p)]
<1>0. /\ pane' = pane /\ born' = born /\ req[r].todo # <<>>
      /\ DOMAIN req = Reqs /\ DOMAIN req[r] = ReqFields /\ RunOK(r)
      /\ \/ Head(req[r].todo) = "baseline" /\ Goes(r, base)
         \/ Head(req[r].todo) = "last" /\ Goes(r, req[r])
  BY DEF LastRpc, ReqTypeOK, RunInv, Now
<1>1. PaneTypeOK'
  BY <1>0 DEF RunInv, PaneTypeOK
<1>2. \A x \in Reqs \ {r} : req'[x] = req[x]
  BY <1>0 DEF Goes
<1>3. \A x \in Reqs \ {r} : RunOK(x)'
  BY <1>0, <1>2, RunFrame DEF RunInv, Quieter
<1>4. CASE Head(req[r].todo) = "last" /\ Goes(r, req[r])
  <2>1. req'[r].tool = req[r].tool
    BY <1>0, <1>4 DEF Goes, ReqFields
  <2>2. req[r].tool # "run_command"
    BY <1>0, <1>4, Phases DEF RunOK
  <2> QED BY <1>1, <1>3, <2>1, <2>2 DEF RunOK, RunInv
<1>5. CASE Head(req[r].todo) = "baseline" /\ Goes(r, base)
  <2>1. /\ req'[r].todo = Tail(req[r].todo) /\ req'[r].tool = req[r].tool
        /\ req'[r].block = req[r].block /\ req'[r].pane = p
        /\ req'[r].base = LastBlock(p) /\ req'[r].shared = Busy(p)
    BY <1>0, <1>5 DEF Goes, ReqFields
  <2>2. req[r].tool = "run_command" =>
          AtBaseline(req[r].todo) /\ req[r].block = Null /\ p \in DOMAIN pane
    BY <1>0, <1>5, Phases, OnePhase DEF RunOK
  <2>3. req[r].tool = "run_command" => AtKeys(req'[r].todo)
    BY <2>1, <2>2, Phases
  <2>4. (Busy(p)' <=> Busy(p)) /\ LastBlock(p)' = LastBlock(p)
    BY <1>0, <2>1 DEF Busy, LastBlock, Finished
  <2>5. RunOK(r)'
    BY <1>0, <2>1, <2>2, <2>3, <2>4, OnePhase DEF RunOK, Busy, LastBlock, Finished
  <2> QED BY <1>1, <1>3, <2>5 DEF RunInv
<1> QED BY <1>0, <1>4, <1>5

\* ... its command is typed into an idle pane, or it knows that it shares it: so
\* does every other call on the pane ...
LEMMA KeysRun ==
  ASSUME ReqTypeOK, RunInv, NEW r \in Reqs, Keys(r)
  PROVE  RunInv'
<1> DEFINE p == req[r].pane
           q == [req[r] EXCEPT !.shared = @ \/ Busy(p)]
           touched(x) == x # r /\ req[x].tool = "run_command" /\ req[x].pane = p
<1>0. /\ req[r].todo # <<>> /\ Head(req[r].todo) \in {"keys", "cmd"}
      /\ DOMAIN req = Reqs /\ DOMAIN req[r] = ReqFields /\ req[r].shared \in BOOLEAN /\ RunOK(r)
      /\ PaneTypeOK
  BY DEF Keys, ReqTypeOK, RunInv, Now
<1>1. CASE Fails(r)
  <2>1. /\ pane' = pane /\ born' = born /\ \A x \in Reqs \ {r} : req'[x] = req[x]
        /\ req'[r].todo = <<>> /\ req'[r].tool = req[r].tool /\ req'[r].block = req[r].block
        /\ req'[r].shared = req[r].shared
    BY <1>0, <1>1 DEF Fails, ReqFields
  <2>2. RunOK(r)'
    BY <1>0, <2>1, RunEnds DEF AtEnd
  <2>3. \A x \in Reqs \ {r} : RunOK(x)'
    BY <2>1, RunFrame DEF RunInv, Quieter
  <2> QED BY <1>0, <2>1, <2>2, <2>3 DEF RunInv, PaneTypeOK
<1>2. CASE ~Fails(r)
  <2>1. /\ p \in DOMAIN pane /\ born' = born
        /\ pane' = [pane EXCEPT ![p].typed = Append(@, r)]
        /\ req' = [x \in Reqs |-> IF x = r THEN [q EXCEPT !.todo = Tail(@), !.ok = TRUE]
                                  ELSE IF touched(x) THEN [req[x] EXCEPT !.shared = TRUE] ELSE req[x]]
    BY <1>2 DEF Keys, Live
  <2>2. /\ DOMAIN pane[p] = {"session", "live", "typed", "blocks"}
        /\ pane[p].typed \in Seq(Reqs) /\ Append(pane[p].typed, r) \in Seq(Reqs)
    BY <1>0, <2>1 DEF PaneTypeOK
  <2>3. /\ DOMAIN pane' = DOMAIN pane /\ DOMAIN pane'[p] = DOMAIN pane[p]
        /\ pane'[p].typed = Append(pane[p].typed, r) /\ pane'[p].blocks = pane[p].blocks
        /\ \A x \in DOMAIN pane \ {p} : pane'[x] = pane[x]
    BY <2>1, <2>2
  <2>4. PaneTypeOK'
    BY <1>0, <2>1, <2>2, <2>3 DEF PaneTypeOK
  <2>5. ASSUME NEW x \in Reqs \ {r} PROVE RunOK(x)'
    <3>0. DOMAIN req[x] = ReqFields /\ RunOK(x)
      BY DEF ReqTypeOK, RunInv
    <3>1. CASE touched(x)
      <4>1. req'[x] = [req[x] EXCEPT !.shared = TRUE]
        BY <2>1, <2>5, <3>1
      <4>2. /\ req'[x].tool = req[x].tool /\ req'[x].todo = req[x].todo /\ req'[x].block = req[x].block
            /\ req'[x].pane = req[x].pane /\ req'[x].base = req[x].base /\ req'[x].shared
        BY <3>0, <4>1 DEF ReqFields
      <4> QED BY <2>3, <2>5, <3>0, <4>2, RunFrame
    <3>2. CASE ~touched(x)
      <4>1. req'[x] = req[x]
        BY <2>1, <2>5, <3>2
      <4>2. CASE req[x].tool # "run_command"
        BY <4>1, <4>2 DEF RunOK
      <4>3. CASE req[x].pane # p
        BY <2>3, <2>5, <3>0, <4>1, <4>3, RunFrame DEF Quieter
      <4> QED BY <2>5, <3>2, <4>2, <4>3
    <3> QED BY <3>1, <3>2
  <2>6. RunOK(r)'
    <3>1. /\ req'[r].todo = Tail(req[r].todo) /\ req'[r].tool = req[r].tool
          /\ req'[r].block = req[r].block /\ req'[r].pane = p /\ req'[r].base = req[r].base
          /\ req'[r].shared = (req[r].shared \/ Busy(p))
      <4>1. req'[r] = [q EXCEPT !.todo = Tail(@), !.ok = TRUE]
        BY <2>1
      <4>2. /\ DOMAIN q = ReqFields /\ q.tool = req[r].tool /\ q.todo = req[r].todo
            /\ q.block = req[r].block /\ q.pane = p /\ q.base = req[r].base
            /\ q.shared = (req[r].shared \/ Busy(p))
        BY <1>0 DEF ReqFields
      <4> HIDE DEF q
      <4> QED BY <4>1, <4>2 DEF ReqFields
    <3> SUFFICES ASSUME req[r].tool = "run_command" PROVE RunOK(r)'
      BY <3>1 DEF RunOK
    <3>2. AtKeys(req[r].todo) /\ req[r].block = Null
      BY <1>0, Phases, OnePhase DEF RunOK
    <3>3. AtPoll(req'[r].todo)
      BY <3>1, <3>2, Phases
    <3>4. ASSUME ~req'[r].shared PROVE Typed(r, p, Before(req[r]))'
      <4>1. ~Busy(p) /\ req[r].base = LastBlock(p)
        BY <1>0, <3>1, <3>2, <3>4 DEF RunOK
      <4>2. pane[p].typed = <<>>
        BY <4>1 DEF Busy
      <4>3. pane'[p].typed = <<r>>
        BY <2>3, <4>2
      <4>4. Len(pane[p].blocks) = Before(req[r])
        <5>1. pane[p].blocks \in Seq([cmd : Reqs \cup {0}, done : BOOLEAN])
          BY <1>0, <2>1 DEF PaneTypeOK
        <5>2. CASE pane[p].blocks = <<>>
          BY <4>1, <5>2 DEF LastBlock, Before
        <5>3. CASE pane[p].blocks # <<>>
          BY <4>1, <5>1, <5>3, NullAssumption DEF LastBlock, Before
        <5> QED BY <5>2, <5>3
      <4>5. Before(req[r])' = Before(req[r])
        BY <3>1 DEF Before
      <4> QED BY <2>3, <3>1, <4>3, <4>4, <4>5 DEF Typed
    <3>5. Before(req[r])' = Before(req'[r])
      BY DEF Before
    <3> QED BY <2>1, <2>3, <3>1, <3>2, <3>3, <3>4, <3>5, OnePhase DEF RunOK
  <2> QED BY <2>4, <2>5, <2>6 DEF RunInv
<1> QED BY <1>1, <1>2

\* ... and a poll takes a finished block that is not the baseline.
LEMMA PollRun ==
  ASSUME ReqTypeOK, RunInv, NEW r \in Reqs, Poll(r)
  PROVE  RunInv'
<1> DEFINE p == req[r].pane
           b == LastBlock(p)
<1>0. /\ pane' = pane /\ born' = born /\ req[r].todo # <<>> /\ Head(req[r].todo) = "poll"
      /\ DOMAIN req = Reqs /\ DOMAIN req[r] = ReqFields /\ RunOK(r) /\ PaneTypeOK
      /\ \/ /\ b # Null /\ IsNew(req[r].base, b)
            /\ Goes(r, [req[r] EXCEPT !.block = pane[p].blocks[b].cmd])
         \/ req' = [req EXCEPT ![r].todo = <<>>]
  BY DEF Poll, ReqTypeOK, RunInv, Now
<1>1. PaneTypeOK'
  BY <1>0 DEF PaneTypeOK
<1>2. \A x \in Reqs \ {r} : req'[x] = req[x]
  BY <1>0 DEF Goes
<1>3. \A x \in Reqs \ {r} : RunOK(x)'
  BY <1>0, <1>2, RunFrame DEF RunInv, Quieter
<1>4. CASE req' = [req EXCEPT ![r].todo = <<>>]
  <2>1. /\ req'[r].todo = <<>> /\ req'[r].tool = req[r].tool /\ req'[r].block = req[r].block
        /\ req'[r].shared = req[r].shared
    BY <1>0, <1>4 DEF ReqFields
  <2> QED BY <1>0, <1>1, <1>3, <2>1, RunEnds DEF AtEnd, RunInv
<1>5. CASE /\ b # Null /\ IsNew(req[r].base, b)
           /\ Goes(r, [req[r] EXCEPT !.block = pane[p].blocks[b].cmd])
  <2>1. /\ req'[r].todo = Tail(req[r].todo) /\ req'[r].tool = req[r].tool
        /\ req'[r].block = pane[p].blocks[b].cmd /\ req'[r].shared = req[r].shared
    BY <1>0, <1>5 DEF Goes, ReqFields
  <2>2. ASSUME req[r].tool = "run_command" PROVE RunOK(r)'
    <3>1. AtPoll(req[r].todo) /\ p \in DOMAIN pane
      BY <1>0, <2>2, Phases, OnePhase DEF RunOK
    <3>2. AtEnd(req'[r].todo)
      BY <2>1, <3>1, Phases
    <3>3. ASSUME ~req[r].shared PROVE pane[p].blocks[b].cmd = r
      <4>1. Typed(r, p, Before(req[r]))
        BY <1>0, <2>2, <3>1, <3>3 DEF RunOK
      <4>2. b = Len(pane[p].blocks) /\ pane[p].blocks # <<>>
        BY <1>5 DEF LastBlock
      <4>3. pane[p].blocks \in Seq([cmd : Reqs \cup {0}, done : BOOLEAN])
        BY <1>0, <3>1 DEF PaneTypeOK
      <4>4. Len(pane[p].blocks) # Before(req[r])
        BY <1>5, <4>2, <4>3 DEF IsNew, Before
      <4> QED BY <4>1, <4>2, <4>3, <4>4 DEF Typed
    <3> QED BY <2>1, <3>2, <3>3, OnePhase DEF RunOK
  <2>3. RunOK(r)'
    BY <2>1, <2>2 DEF RunOK
  <2> QED BY <1>1, <1>3, <2>3 DEF RunInv
<1> QED BY <1>0, <1>4, <1>5

\* An RPC of another method, and one that changes nothing here.
LEMMA OtherRpcRun ==
  ASSUME ReqTypeOK, RunInv, NEW r \in Reqs, RpcFails(r) \/ Open(r) \/ Find(r) \/ Close(r) \/ Read(r) \/ Subscribe(r)
  PROVE  RunInv'
<1>0. /\ DOMAIN req = Reqs /\ DOMAIN req[r] = ReqFields /\ RunOK(r) /\ PaneTypeOK
  BY DEF ReqTypeOK, RunInv
<1>1. ASSUME Fails(r) PROVE RunInv'
  <2>1. /\ pane' = pane /\ born' = born /\ \A x \in Reqs \ {r} : req'[x] = req[x]
        /\ req'[r].todo = <<>> /\ req'[r].tool = req[r].tool /\ req'[r].block = req[r].block
        /\ req'[r].shared = req[r].shared
    BY <1>0, <1>1 DEF Fails, ReqFields
  <2>2. RunOK(r)'
    BY <1>0, <2>1, RunEnds DEF AtEnd
  <2>3. \A x \in Reqs \ {r} : RunOK(x)'
    BY <2>1, RunFrame DEF RunInv, Quieter
  <2> QED BY <1>0, <2>1, <2>2, <2>3 DEF RunInv, PaneTypeOK
<1>2. ASSUME PaneTypeOK', \A p \in DOMAIN pane : Quieter(p), NEW q, Goes(r, q), q.tool = req[r].tool,
             DOMAIN q = ReqFields, req[r].tool # "run_command"
      PROVE  RunInv'
  <2>1. \A x \in Reqs \ {r} : req'[x] = req[x]
    BY <1>0, <1>2 DEF Goes
  <2>2. req'[r].tool = req[r].tool
    BY <1>0, <1>2 DEF Goes, ReqFields
  <2>3. RunOK(r)'
    BY <1>2, <2>2 DEF RunOK
  <2>4. \A x \in Reqs \ {r} : RunOK(x)'
    BY <1>2, <2>1, RunFrame DEF RunInv, Quieter
  <2> QED BY <1>2, <2>3, <2>4 DEF RunInv
<1>3. CASE Open(r)
  <2>1. CASE Fails(r)
    BY <1>1, <2>1
  <2>2. CASE ~Fails(r)
    <3> DEFINE p == born.panes + 1
               s == IF Now(r, "spawn") THEN born.sessions + 1
                    ELSE IF Now(r, "open") THEN req[r].sess
                    ELSE pane[req[r].pane].session
    <3>1. /\ pane' = [x \in DOMAIN pane \union {p} |->
                        IF x = p THEN [session |-> s, live |-> TRUE, typed |-> <<>>, blocks |-> <<>>] ELSE pane[x]]
          /\ born' = [sessions |-> IF s > born.sessions THEN s ELSE born.sessions, panes |-> p]
          /\ Goes(r, [req[r] EXCEPT !.pane = p, !.sess = s])
      BY <1>3, <2>2 DEF Open
    <3> HIDE DEF s
    <3>2. /\ p \in Nat /\ p \notin DOMAIN pane /\ born.panes <= p
      BY <1>0 DEF PaneTypeOK
    <3>3. /\ DOMAIN pane' = DOMAIN pane \cup {p} /\ \A x \in DOMAIN pane : pane'[x] = pane[x]
          /\ DOMAIN pane'[p] = {"session", "live", "typed", "blocks"}
          /\ pane'[p].typed = <<>> /\ pane'[p].blocks = <<>>
          /\ born'.panes = p
      BY <3>1, <3>2
    <3> DEFINE q == [req[r] EXCEPT !.pane = p, !.sess = s]
    <3>4. DOMAIN q = ReqFields /\ q.tool = req[r].tool
      BY <1>0 DEF ReqFields
    <3>5. Goes(r, q)
      BY <3>1
    <3> HIDE DEF q
    <3>6. PaneTypeOK'
      <4>1. \A x \in DOMAIN pane : x \in 1 .. p
        BY <1>0, <3>2 DEF PaneTypeOK
      <4>2. DOMAIN pane' \subseteq 1 .. p
        <5>1. p \in 1 .. p
          BY <1>0 DEF PaneTypeOK
        <5> HIDE DEF p
        <5> QED BY <3>3, <4>1, <5>1
      <4> HIDE DEF p
      <4>3. <<>> \in Seq(Reqs) /\ <<>> \in Seq([cmd : Reqs \cup {0}, done : BOOLEAN])
        OBVIOUS
      <4> QED BY <1>0, <3>1, <3>2, <3>3, <4>2, <4>3 DEF PaneTypeOK
    <3>7. \A x \in DOMAIN pane : Quieter(x)
      BY <3>3 DEF Quieter
    <3>8. req[r].tool # "run_command"
      BY <1>0, <1>3, Phases DEF RunOK, Open, Now
    <3> QED BY <1>2, <3>4, <3>5, <3>6, <3>7, <3>8
  <2> QED BY <2>1, <2>2
<1>4. CASE Close(r)
  <2>1. Goes(r, req[r]) /\ born' = born /\ req[r].tool # "run_command"
    BY <1>0, <1>4, Phases DEF Close, RunOK, Now
  <2>2. \/ pane' = pane
        \/ pane' = [p \in DOMAIN pane |-> IF pane[p].session = req[r].sess THEN Dead(p) ELSE pane[p]]
    BY <1>4 DEF Close
  <2>3. DOMAIN pane' = DOMAIN pane
    BY <2>2
  <2>4. ASSUME NEW p \in DOMAIN pane
        PROVE  /\ Quieter(p) /\ DOMAIN pane'[p] = {"session", "live", "typed", "blocks"}
               /\ pane'[p].typed \in Seq(Reqs) /\ pane'[p].blocks = pane[p].blocks
    <3>1. pane'[p] \in {pane[p], Dead(p)}
      BY <2>2
    <3>2. /\ DOMAIN pane[p] = {"session", "live", "typed", "blocks"} /\ pane[p].typed \in Seq(Reqs)
      BY <1>0 DEF PaneTypeOK
    <3>3. /\ DOMAIN Dead(p) = DOMAIN pane[p] /\ Dead(p).typed = <<>> /\ Dead(p).blocks = pane[p].blocks
      BY <3>2 DEF Dead
    <3>4. <<>> \in Seq(Reqs)
      OBVIOUS
    <3>5. CASE pane'[p] = pane[p]
      BY <2>3, <3>2, <3>5 DEF Quieter
    <3>6. CASE pane'[p] = Dead(p)
      BY <2>3, <3>2, <3>3, <3>4, <3>6 DEF Quieter
    <3> QED BY <3>1, <3>5, <3>6
  <2>5. PaneTypeOK'
    BY <1>0, <2>1, <2>3, <2>4 DEF PaneTypeOK
  <2> QED BY <1>0, <1>2, <2>1, <2>4, <2>5
<1>5. CASE Find(r) \/ Read(r) \/ Subscribe(r)
  <2>1. /\ pane' = pane /\ born' = born /\ Goes(r, req[r]) /\ req[r].todo # <<>>
        /\ Head(req[r].todo) \in {"find_pane", "find_session", "list", "stdout", "set", "wait", "cmd",
                                  "subscribe", "unsubscribe"}
    BY <1>5 DEF Find, Read, Subscribe, Now
  <2>2. PaneTypeOK' /\ \A p \in DOMAIN pane : Quieter(p)
    BY <1>0, <2>1 DEF PaneTypeOK, Quieter
  <2>3. CASE req[r].tool # "run_command"
    BY <1>0, <1>2, <2>1, <2>2, <2>3
  <2>4. CASE req[r].tool = "run_command"
    <3>1. AtEnd(req[r].todo)
      BY <1>0, <2>1, <2>4, Phases DEF RunOK
    <3>2. /\ req'[r].todo = Tail(req[r].todo) /\ req'[r].tool = req[r].tool
          /\ req'[r].block = req[r].block /\ req'[r].shared = req[r].shared
          /\ \A x \in Reqs \ {r} : req'[x] = req[x]
      BY <1>0, <2>1 DEF Goes, ReqFields
    <3>3. RunOK(r)'
      BY <1>0, <2>1, <3>1, <3>2, Phases, RunEnds
    <3>4. \A x \in Reqs \ {r} : RunOK(x)'
      BY <2>1, <3>2, RunFrame DEF RunInv, Quieter
    <3> QED BY <2>2, <3>3, <3>4 DEF RunInv
  <2> QED BY <2>3, <2>4
<1> QED BY <1>1, <1>3, <1>4, <1>5 DEF RpcFails

\* The shells: the only command that a call's pane can start is the call's own.
LEMMA ShellsRun ==
  ASSUME ReqTypeOK, RunInv, NEW p \in DOMAIN pane, Start(p) \/ Finish(p) \/ Exit(p)
  PROVE  RunInv'
<1> DEFINE b == pane[p].blocks
           Block == [cmd : Reqs \cup {0}, done : BOOLEAN]
<1>0. /\ req' = req /\ born' = born /\ PaneTypeOK
      /\ DOMAIN pane[p] = {"session", "live", "typed", "blocks"}
      /\ pane[p].typed \in Seq(Reqs) /\ b \in Seq(Block)
  BY DEF Start, Finish, Exit, RunInv, PaneTypeOK
<1>1. CASE Exit(p)
  <2>1. /\ DOMAIN pane' = DOMAIN pane /\ \A x \in DOMAIN pane \ {p} : pane'[x] = pane[x]
        /\ pane'[p].typed = <<>> /\ pane'[p].blocks = b
        /\ DOMAIN pane'[p] = {"session", "live", "typed", "blocks"}
    BY <1>0, <1>1 DEF Exit, Dead
  <2>2. PaneTypeOK'
    <3>1. <<>> \in Seq(Reqs)
      OBVIOUS
    <3> QED BY <1>0, <2>1, <3>1 DEF PaneTypeOK
  <2>3. \A x \in DOMAIN pane : Quieter(x)
    BY <2>1 DEF Quieter
  <2> QED BY <1>0, <2>2, <2>3, PanesQuiet DEF RunInv
<1>2. CASE Start(p)
  <2> DEFINE new == [cmd |-> Head(pane[p].typed), done |-> FALSE]
  <2>0. pane[p].typed # <<>>
    BY <1>2 DEF Start
  <2>1. /\ DOMAIN pane' = DOMAIN pane /\ \A x \in DOMAIN pane \ {p} : pane'[x] = pane[x]
        /\ pane'[p].typed = Tail(pane[p].typed) /\ pane'[p].blocks = Append(b, new)
        /\ DOMAIN pane'[p] = {"session", "live", "typed", "blocks"}
    BY <1>0, <1>2 DEF Start
  <2>2. new \in Block /\ Tail(pane[p].typed) \in Seq(Reqs)
    BY <1>0, <2>0
  <2>3. Append(b, new) \in Seq(Block) /\ Len(Append(b, new)) = Len(b) + 1
        /\ Append(b, new)[Len(b) + 1] = new
    BY <1>0, <2>2
  <2>4. PaneTypeOK'
    BY <1>0, <2>1, <2>2, <2>3 DEF PaneTypeOK
  <2>5. ASSUME NEW x \in Reqs PROVE RunOK(x)'
    <3>0. RunOK(x)
      BY DEF RunInv
    <3>1. CASE req[x].pane # p \/ req[x].shared
      BY <1>0, <2>1, <3>0, <3>1, RunFrame DEF Quieter
    <3>2. CASE req[x].pane = p /\ ~req[x].shared /\ req[x].tool = "run_command"
      <4>1. ~AtKeys(req[x].todo)
        BY <2>0, <3>0, <3>2 DEF RunOK, Busy
      <4>2. ASSUME AtPoll(req[x].todo) PROVE Typed(x, p, Before(req[x]))'
        <5>1. Len(b) = Before(req[x]) /\ pane[p].typed = <<x>>
          BY <2>0, <3>0, <3>2, <4>2 DEF RunOK, Typed
        <5>2. pane'[p].typed = <<>> /\ new.cmd = x
          BY <2>1, <5>1
        <5> HIDE DEF new
        <5> QED BY <1>0, <2>1, <2>3, <5>1, <5>2 DEF Typed, Before
      <4> QED BY <1>0, <2>1, <3>0, <3>2, <4>1, <4>2 DEF RunOK, Before
    <3>3. CASE req[x].tool # "run_command"
      BY <1>0, <3>3 DEF RunOK
    <3> QED BY <3>1, <3>2, <3>3
  <2> QED BY <2>4, <2>5 DEF RunInv
<1>3. CASE Finish(p)
  <2> DEFINE n == Len(b)
             done == [b EXCEPT ![n] = [b[n] EXCEPT !.done = TRUE]]
  <2>0. b # <<>> /\ ~Finished(p, n) /\ n \in Nat /\ n >= 1 /\ b[n] \in Block
    <3>1. b # <<>> /\ ~Finished(p, n)
      BY <1>3 DEF Finish
    <3> HIDE DEF Block
    <3>2. n \in Nat /\ n >= 1 /\ b[n] \in Block
      BY <1>0, <3>1
    <3> QED BY <3>1, <3>2
  <2>1. /\ DOMAIN pane' = DOMAIN pane /\ \A x \in DOMAIN pane \ {p} : pane'[x] = pane[x]
        /\ pane'[p].typed = pane[p].typed /\ pane'[p].blocks = done
        /\ DOMAIN pane'[p] = {"session", "live", "typed", "blocks"}
    <3>1. pane' = [pane EXCEPT ![p] = [pane[p] EXCEPT !.blocks = done]]
      BY <1>3 DEF Finish
    <3> HIDE DEF done
    <3> QED BY <1>0, <3>1
  <2>2. done \in Seq(Block) /\ Len(done) = n
        /\ \A i \in 1 .. n : done[i].cmd = b[i].cmd
    <3> DEFINE e == [b[n] EXCEPT !.done = TRUE]
    <3>1. e \in Block /\ e.cmd = b[n].cmd
      BY <2>0
    <3> HIDE DEF e, Block
    <3>2. n \in 1 .. Len(b) /\ done = [b EXCEPT ![n] = e]
      BY <2>0 DEF e
    <3> HIDE DEF done
    <3> QED BY <1>0, <2>0, <3>1, <3>2, ExceptSeq
  <2>3. PaneTypeOK'
    BY <1>0, <2>1, <2>2 DEF PaneTypeOK
  <2>4. ASSUME NEW x \in Reqs PROVE RunOK(x)'
    <3>0. RunOK(x)
      BY DEF RunInv
    <3>1. CASE req[x].pane # p \/ req[x].shared
      BY <1>0, <2>1, <3>0, <3>1, RunFrame DEF Quieter
    <3>2. CASE req[x].pane = p /\ ~req[x].shared /\ req[x].tool = "run_command"
      <4>1. ~AtKeys(req[x].todo)
        BY <1>0, <2>0, <3>0, <3>2 DEF RunOK, Busy
      <4>2. ASSUME AtPoll(req[x].todo) PROVE Typed(x, p, Before(req[x]))'
        <5>1. Typed(x, p, Before(req[x]))
          BY <3>0, <3>2, <4>2 DEF RunOK
        <5> HIDE DEF done
        <5> QED BY <1>0, <2>0, <2>1, <2>2, <5>1 DEF Typed, Before
      <4> QED BY <1>0, <2>1, <3>0, <3>2, <4>1, <4>2 DEF RunOK, Before
    <3>3. CASE req[x].tool # "run_command"
      BY <1>0, <3>3 DEF RunOK
    <3> QED BY <3>1, <3>2, <3>3
  <2> QED BY <2>3, <2>4 DEF RunInv
<1> QED BY <1>1, <1>2, <1>3

\* A line of stdin, an answer, and what is not about panes and requests.
LEMMA ServerRun ==
  ASSUME ReqTypeOK, RunInv,
         \/ \E r \in Reqs, tool \in DOMAIN Method : \E named, prefix : Receive(r, tool, named, prefix)
         \/ \E r \in Reqs : Answer(r) \/ Panic(r)
         \/ UNCHANGED <<req, pane, born>>
  PROVE  RunInv'
<1>1. ASSUME NEW r \in Reqs, NEW tool \in DOMAIN Method, NEW named, NEW prefix,
             Receive(r, tool, named, prefix)
      PROVE  RunInv'
  <2>1. /\ pane' = pane /\ born' = born /\ \A x \in Reqs \ {r} : req'[x] = req[x]
        /\ req'[r].tool = tool /\ req'[r].todo = Method[tool] /\ req'[r].block = Null
    BY <1>1 DEF Receive, ReqTypeOK, Free
  <2>2. Method["run_command"] = RunCommand
    BY DEF Method
  <2>3. tool = "run_command" => AtPane(req'[r].todo)
    BY <2>1, <2>2 DEF AtPane
  <2>4. RunOK(r)'
    BY <2>1, <2>3, OnePhase DEF RunOK
  <2>5. \A x \in Reqs \ {r} : RunOK(x)'
    BY <2>1, RunFrame DEF RunInv, Quieter
  <2> QED BY <2>1, <2>4, <2>5 DEF RunInv, PaneTypeOK
<1>2. ASSUME NEW r \in Reqs, Answer(r) PROVE RunInv'
  <2>1. /\ pane' = pane /\ born' = born /\ \A x \in Reqs \ {r} : req'[x] = req[x]
        /\ req'[r].tool = req[r].tool /\ req'[r].todo = <<"sent">> /\ req'[r].block = Null
    BY <1>2 DEF Answer, ReqTypeOK, Free
  <2>2. RunOK(r)'
    BY <2>1, RunEnds DEF AtEnd, RunInv
  <2>3. \A x \in Reqs \ {r} : RunOK(x)'
    BY <2>1, RunFrame DEF RunInv, Quieter
  <2> QED BY <2>1, <2>2, <2>3 DEF RunInv, PaneTypeOK
<1>3. ASSUME NEW r \in Reqs, Panic(r) PROVE RunInv'
  <2>1. /\ pane' = pane /\ born' = born /\ \A x \in Reqs \ {r} : req'[x] = req[x]
        /\ req'[r].tool = req[r].tool /\ req'[r].todo = <<"panicked">>
        /\ req'[r].block = req[r].block /\ req'[r].shared = req[r].shared
    BY <1>3 DEF Panic, ReqTypeOK, ReqFields
  <2>2. RunOK(r)'
    BY <2>1, RunEnds DEF AtEnd, RunInv
  <2>3. \A x \in Reqs \ {r} : RunOK(x)'
    BY <2>1, RunFrame DEF RunInv, Quieter
  <2> QED BY <2>1, <2>2, <2>3 DEF RunInv, PaneTypeOK
<1>4. CASE UNCHANGED <<req, pane, born>>
  BY <1>4, RunFrame DEF RunInv, PaneTypeOK, Quieter
<1> QED BY <1>1, <1>2, <1>3, <1>4

\* A call that has its pane to itself watches nothing but its own command.
THEOREM RunSound == McpSpec => []RunInv
<1>1. McpInit => RunInv
  <2> SUFFICES ASSUME McpInit PROVE RunInv
    OBVIOUS
  <2>1. /\ req = [r \in Reqs |-> Free] /\ born.panes = 1 /\ DOMAIN pane = {1}
        /\ DOMAIN pane[1] = {"session", "live", "typed", "blocks"}
        /\ pane[1].typed = <<>> /\ pane[1].blocks = <<[cmd |-> 0, done |-> TRUE]>>
    BY DEF McpInit
  <2>2. PaneTypeOK
    <3>1. <<>> \in Seq(Reqs) /\ pane[1].blocks \in Seq([cmd : Reqs \cup {0}, done : BOOLEAN])
      BY <2>1
    <3>2. born.panes \in Nat /\ DOMAIN pane \subseteq 1 .. born.panes
      BY <2>1
    <3>3. pane[1].typed \in Seq(Reqs)
      BY <2>1, <3>1
    <3>4. \A p \in DOMAIN pane : p = 1
      BY <2>1
    <3> QED BY <2>1, <3>1, <3>2, <3>3, <3>4 DEF PaneTypeOK
  <2>3. ASSUME NEW r \in Reqs PROVE RunOK(r)
    <3>1. req[r].todo = <<>> /\ req[r].block = Null
      BY <2>1 DEF Free
    <3>2. AtEnd(req[r].todo)
      BY <3>1 DEF AtEnd
    <3> QED BY <3>1, <3>2, OnePhase DEF RunOK
  <2> QED BY <2>2, <2>3 DEF RunInv
<1>2. AnswerInv /\ RunInv /\ [McpNext]_mcpVars => RunInv'
  <2> SUFFICES ASSUME AnswerInv, RunInv, [McpNext]_mcpVars PROVE RunInv'
    OBVIOUS
  <2>0. ReqTypeOK
    BY DEF AnswerInv
  <2>1. ASSUME NEW r \in Reqs, Rpc(r) PROVE RunInv'
    BY <2>0, <2>1, ResolveRun, BaselineRun, KeysRun, PollRun, OtherRpcRun DEF Rpc
  <2>2. CASE ParseError \/ Write \/ Notify \/ Eof \/ UNCHANGED mcpVars
    BY <2>0, <2>2, ServerRun DEF ParseError, Write, Notify, Eof, mcpVars
  <2> QED BY <2>0, <2>1, <2>2, ServerRun, ShellsRun DEF McpNext
<1> QED BY <1>1, <1>2, AnswersKept, PTL DEF McpSpec

\* pane_run_command reports the command it typed, if it had the pane to itself
\* (tool_pane_run_command).
THEOREM RunReported == McpSpec => []RunReportsOwnBlock
<1>1. RunInv => RunReportsOwnBlock
  BY DEF RunInv, RunOK, RunReportsOwnBlock
<1> QED BY <1>1, RunSound, PTL

=============================================================================
