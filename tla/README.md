# Verification of pyre

TLA+ models of pyre, a terminal multiplexer written as a Rust workspace: a
daemon (`pyred`) owns the shells; clients (`pyre-tui`, `pyre-gpu`, `pyre-mcp`,
`pyrec`, the desktop GUI) talk to it over a Unix socket with tarpc RPCs and raw
stream connections. Paths below are relative to `src/crates/` unless they start
with `docs/` or `gui/`.

## 1. Inventory

| Component | State | Operations | What is hard |
|---|---|---|---|
| Session registry, single daemon (`pyred/src/session.rs`, `server.rs`, `pty.rs`) | sessions, windows, panes, layout trees in memory; their rows in SQLite | spawn, new/rename/close window, open/split/close pane, weights, kill, close_session, gc | every RPC is its own task and releases its locks at each `await`; shells exit at any time |
| Pane-event bus (`session.rs`, `supervisor.rs::PaneEventBus`) and the clients' poll loops | sequence counter, ring of 256, broadcast; a cursor per client | emit_event, events_after, next_pane_event | counter, ring and broadcast are three steps; timeouts, lag, restarts |
| Pane output (`pty.rs`, `stream.rs`, `worker.rs`, `ringbuf.rs`) | replay ring, broadcast, close token | reader thread, attach, detach, EOF | attach races the reader; slow clients; end of the pane |
| Migration to the hybrid layout (`migration.rs`) | legacy database, shards, index, sentinel on disk | migrate_to_hybrid on boot | crash or error between any two writes; retry on the next boot |
| Search index (`index.rs`, `migration.rs`, `pty.rs`) | tantivy directory, block rows | schema migration, backfill, add on block end | cut-short boots, adds nobody waits for |
| Supervisor (`supervisor.rs`) and workers (`worker.rs`, `shard.rs`) | worker registry, pane index, shards | spawn, register, heartbeat, SIGCHLD respawn, pane_closed, startup reattach and GC | two processes, late and lost RPCs, respawn races |
| Pane mirror hub (`supervisor.rs`) | one worker connection per pane, many clients | proxy_stream_to_worker | get-then-insert of the hub, attach in mid-stream |
| Block pipeline (`parser.rs`, `pty.rs`, `supervisor.rs`) | open block, writers, raw-event queue, block rows | OSC 133 parser, batcher, finalize | chunks on separate tasks, failing store, events after the close |
| Pane state tracker (`state.rs`, `agent_detect.rs`) | state, evidence, timestamps | marker, silence, foreground process, override | evidence from two threads, the engine a third |
| TUI (`pyre-tui`) | sessions, tabs, slots, focus; overlays, prompts, pager, search, menu | run loop, reconcile, attach, keys, mouse | lists raced by streams and events; indices into lists that change; docs/INVARIANTS.md I-1 to I-7 |
| MCP server (`pyre-mcp`) | requests in progress, subscriptions, stdout queue | tools of several RPCs, one writer | one task per request, panes that close in between |
| GPU client (`pyre-gpu`) | cached layout, streams, search, toasts | split, close, layout snapshots, push events | local changes race snapshots |
| Desktop GUI (`gui/src`, `gui/src-tauri`) | store, terminals, bridge streams; connection; GitHub link | handlers with awaits, reconnect poll, device flow | every await lets other handlers run |
| SQLite store (`store.rs`), layout tree (`pyre-proto/src/layout.rs`) | rows; tree of splits | as the parts above use them | not transactional |
| CLI, wire protocol, themes, config, hooks, git, process inspection | none between calls | formatting, I/O | - |

What makes each correct, in one line: registry - memory and SQLite agree, dead
panes and empty sessions go, healthy panes stay; event bus - a client misses
nothing; output and hub - no gap between replay and live bytes, and an end;
migration - the sentinel means that the data is there; index - every stored block
is found; supervisor - one id per pane slot, live panes in the shard, dead workers
noticed; blocks - a row ends and holds its own output; state - an active pane is
not called waiting; clients - their view becomes the daemon's again, a late answer
does not win, no key or click hits another pane.

`PROJECT.json` lists the hazards, each with its line, and the properties that
answer it.

## 2. Modules

| Module | Models | Run with |
|---|---|---|
| `PaneEvents`, `PaneEvents_proofs` | event bus, long poll, clients' cursors | `PaneEvents.cfg`, `PaneEvents_lost.cfg` |
| `Registry`, `MCRegistry`, `Registry_proofs` | session registry, its RPCs and child-wait tasks | `MCRegistry.cfg` |
| `Hybrid`, `MCHybrid`, `Hybrid_proofs` | supervisor, worker process and shard of one session | `MCHybrid.cfg`, `MCHybrid_slot.cfg` |
| `Migration`, `MCMigration`, `Boot_proofs` | migrate_to_hybrid across boots | `MCDaemon.cfg`, `MCMigration_crash.cfg` |
| `SearchIndex`, `Boot_proofs` | schema migration, backfill and adds across boots | `MCDaemon.cfg` |
| `Stream`, `Pane_proofs` | output of one pane and a stream connection, in both daemons | `MCDaemon.cfg` |
| `RingBuf`, `ReplayLog`, `Pane_proofs` | the circular buffer, and what it promises | `MCDaemon.cfg` |
| `Mirror`, `Pane_proofs` | the hubs of the supervisor and the clients that share them | `MCDaemon.cfg` |
| `Blocks`, `Pane_proofs` | from the bytes of a shell to block rows and blobs, in both daemons | `MCDaemon.cfg`, `Blocks_late.cfg` |
| `PaneState`, `Pane_proofs` | tracker and engine of a pane's state, in both daemons | `MCDaemon.cfg`, `PaneState_worker.cfg` |
| `Tui`, `TuiInput`, `MCTui`, `Tui_proofs` | the terminal client: what follows the daemon; overlays, keys and mouse | `MCTui.cfg` |
| `GuiStore`, `GuiStore_proofs` | store and handlers of the desktop GUI, streams of its bridge | `MCClients.cfg` |
| `Gpu`, `Mcp`, `Clients_proofs` | the GPU client; the MCP server | `MCClients.cfg` |
| `GuiConn`, `GuiLink`, `MCGuiLive` | connection of the desktop GUI; its GitHub device flow | `MCGuiLive.cfg` |

`MCDaemon`, `MCClients`, `MCTui` and `MCGuiLive` put parts that share no state
into one run. A variable says which part is active; the others rest in one initial
(or quiet) state and take no step, so the state space is the union of those of the
parts and not their product, and each part's fairness is that of its own
behaviours. The properties are those of the parts. The modules of a part
that proofs are about are extended, so that the run and the proofs are about the same
definitions; that is why their specifications bear names of their own (`StreamSpec`,
`MirrorNext`).

Definitions whose comment starts with "Mutant:" are wrong on purpose: each is a
plausible bug in the operator that follows it and shows, put in its place, that
a property can fail. `PROJECT.json` ("mutants") pairs them.

**PaneEvents.** An event is its sequence number. `emit_event` is three actions
(draw the number, push under the ring lock, broadcast), because tasks on other
threads run between them. `next_pane_event` is subscribe, read the ring, wait,
on lag subscribe and read again, coalesce for 1 ms, reply; the client's cursor
becomes the number of the last event of the batch. A poll may fail anywhere (a
broken socket, tarpc's deadline of 10 s that expires before the poll's 30 s) and
is repeated with the same cursor. A restart resets the bus and not the cursors.
The broadcast is the sequence of all that was sent and a position per receiver;
a receiver more than `RingCap` behind has lagged. The history variable `emits`
remembers whether two emits ever overlapped or the daemon was restarted.

**Registry.** A task is a record with the RPC it runs and where it is; a step
ends where the code drops a lock or awaits. Ids are drawn once from finite sets,
a layout tree is its set of leaves, SQLite writes succeed. An evicted session
keeps its panes and windows, because tasks reach it through the `Arc` they
cloned. A shell goes through running, dead (exited), reaped (wait returned) and
removed (remove_pane ran); `kill` reaches it until it is reaped. A split works on the
window of its parent, looked up before the pane is opened. close_window drops the
window, asks whether the session has one left and removes the session in three steps,
each under a lock of its own.

**Stream.** Chunks are numbered; ring buffer and broadcast hold the newest of
them. `owner` says whether the single daemon (snapshot, send, subscribe) or a
worker (subscribe, snapshot, send) owns the pane. A worker's broadcast closes
when reader thread and pane map have both dropped their sender; the single
daemon's never does, since the connection's own `Arc` holds one, and there the
close token ends the connection.

**RingBuf** keeps the index arithmetic of `push` and `snapshot`; **ReplayLog** is
the sequence of the newest `Cap` bytes. The refinement maps the log to
`snapshot()`.

**Migration.** The disk outlives the boot; `Fail` ends a boot between any two
writes, by an error that `?` propagates or by a crash of the process (not of the
machine: a committed write stays). `Swallow` marks the errors the code logs or
drops before it goes on. The default paths of the single daemon's store and of
the migration differ (`dirs::data_dir()/pyre` and `$XDG_STATE_HOME/pyre`), so that
without configuration `legacy` is FALSE; both cases are initial states.

**SearchIndex.** `BlockIndex` keeps its files in `<index>/v3`, but the schema
check opens `<index>`, which fails for every index this version built; the
directory is then moved aside and all blocks are indexed again. That detour is
also what repairs an index whose backfill was cut short.

**Hybrid.** One session of the hybrid daemon (every map of the supervisor is keyed
by session). `index`, `next` and `dead` are the three fields of `PaneIndex`,
`handle` the entry of `WorkerRegistry`, `pending` the oneshot of a waiting spawn;
`proc`, `shell` and `shard` are the worker processes, the shells with the
`close_pane` call each is in, and the rows of the shard. Workers are numbered as
they are started. `registry.remove` takes two locks and is two steps wherever it
is called: pane_closed, kill, close_session, gc_stale_sessions, the SIGCHLD
handler and the heartbeat monitor. `ListAllPanes` and `Report`
bring a slot to `get_or_alloc_pane_by_slot`, from the worker's list or from an event
(pane_state_changed, the first block event of a pane). `hist` remembers that the
session was removed, and that a spawn which failed or timed out, or an open which
failed, left its slot in the index. A call in flight is served or lost when a worker
ends under it. A restart clears the supervisor and leaves its workers running,
cut off (`linked`), and starts the reattach task. SQLite writes succeed, and
tarpc's 10 s deadline is not reached while both processes live.

**Mirror.** Every await of `proxy_stream_to_worker` ends a step, so two first
clients may both create a hub; a hub bears the name of its creator. Frames are
numbered, the accumulated snapshot is a range of them, and a receiver more than
`OutCap` behind lags. The input queue of a hub is drained by one task.

**Blocks.** The tape is what the shell writes: prompts, command starts, ends, text and
escape sequences, each item in a read of its own. `BlockMachine` implements print,
execute and osc_dispatch of `vte::Perform` and nothing else (`parser.rs:66-118`), so
that CSI and ESC sequences do not reach a blob. The single daemon parses the items in
order; a worker sends each in a task of its own, and `Deliver` takes them in any
order. The batcher collects, flushes on its tick and finalizes on `pane_closed`.
`failed` bounds and remembers what the store refused: a row, a blob file, a write,
the end of a row (in the drain at EOF too), or a message to a full finalize channel.
`registry.remove` clears the dead slots, so pane_closed may leave the slot unmarked.

**PaneState.** Time passes in seconds and an instant is kept as its age, which
stops where no comparison sees it. The reader thread touches the tracker before it
passes the chunk on, the parser pushes the marker later, the engine reads both.
`after` stands for the comparison of the last output with the last end marker. The
rules of `evaluate` are in their order; the run scales the four thresholds down and
keeps their order, `state_worker` has them as they are in the code.

**Tui** is the one task of `run_tui` cut at the awaits whose answers it uses:
between a list and the attach that follows, other clients split, close and spawn,
shells exit, streams end with or without a frame, an attach fails, and the Closed
notice may be dropped; `open_new_tab` is two RPCs. The mouse hits the chips that the last
drawn frame had (`frame`), and while the session-lost overlay is shown no frame is
drawn (`frame.rs:171-175`). A chip whose session or tab is gone leads to `astray`,
where the behaviour ends: the code indexes out of bounds (`mouse.rs:335-376`,
`run.rs:719-721`), unless a list that comes first happens to repair the index. **TuiInput** is the dispatch of keys and mouse through overlays, prompts,
pager, picker, menu and search, with slots that end and lists that change below an
open overlay; a text is its version, a list its length.

**GuiStore** treats an async function as the sequence of its calls: a call is
served in one step and its answer applied in a later one with the code up to the
next call, so that answers of different handlers come in any order. `view.stale`
remembers that an older answer replaced a newer one; those views are not followed
further (see section 4). Both daemons are there (`script.single`): they differ in who
prunes a tree, in when events come, and in what a call leaves half done (`halves`). The
supervisor does not enter the first pane of a window made by new_window into its tree
(`supervisor.rs:956-971`); between the tree update of open_pane_split and the entry in
`pane_window_map` (`supervisor.rs:1870-1905`) a get_window_layout takes the new leaf for
a ghost and prunes it for good; a session it has closed still reports its panes later,
under ids no client knows. The single daemon's remove_pane leaves a dead leaf in its
tree, which the GUI attaches again and again. `missed` has the live panes that such a
step, or a failed attach or close, has left without a terminal for good. Two cuts: a
window that gets a pane while it is being closed stays, and the panes closed by
close_window do not fail. **GuiConn** has boot with its retries, the reconnect
interval whose attempts overlap, two buttons, and the event loop, over the cached
client of the bridge and its mutex. `ensure_client` returns the cached client dead or
alive (`gui/src-tauri/src/lib.rs:169-171`); only `reconnect`, which the buttons call
while the GUI shows itself disconnected, drops it. **GuiLink** has the chains of polls and timers
of the device flow, with what finishAuthorized fetches and a disconnect that may fail;
cancelling stops a timer and not a poll in flight.

**Mcp.** A method is the sequence of its RPCs; every request is a task; answers,
notifications and the errors of lines that do not parse share one bounded queue to
stdout. A line without an id is a notification whatever its method, and gets no answer;
to bound the run three methods come without one (`Unnamed`). The deadline of
pane_run_command overflows for a huge `timeout_secs` (`main.rs:1673`), and its task
panics. **Gpu** is the winit thread with the channels it drains: output, new panes,
layout snapshots, toasts, search. Enter in the overlay runs nothing: run_query_now takes
the text out of the queue before tick_debounce looks there (`search.rs:153-159`). The
empty text clears the list and keeps the channel of the query before it
(`search.rs:120-124`).

## 3. Runs

| Run | Shows | Bounds |
|---|---|---|
| `events` | waiting polls have no gap; cursors only grow; without overlapping emits nothing is lost and what stays in the ring arrives | 2 emitters, 1 client, ring of 2, 4 events (so that a receiver lags and the ring drops), 1 failed RPC, 1 restart |
| `events_lost` | the unconditional promise fails: 2 is pushed, sent and checkpointed before 1 | no fault needed |
| `registry` | memory = SQLite at rest, closed panes leave the tree, emptied sessions are evicted, healthy panes stay, dead panes leave for good | 1 session; three scenarios: all ten RPCs one at a time with 2 windows and 2 panes, the layout RPCs one at a time with 3 panes, five RPCs two at a time with 2 panes; shells exit anywhere |
| `hybrid` | until the session is first removed from the registry one PaneId per slot and every live pane in the shard; a worker that ended by itself is not respawned; a dead worker does not stay registered; a worker told to shut down ends | 2 workers, 3 PaneIds, 2 shells, 2 slots, 2 RPCs at once; ten scenarios, each a set of RPCs with one kind of fault or none (crash, timeout of a spawn or a heartbeat, failed fork, failed open, restart) |
| `hybrid_slot` | after crash and respawn the next open_pane gets slot 0 again and replaces the recovered pane | 3 shells, one RPC at a time, one crash |
| `daemon` | migration: index complete, loss bounded by failed boots, sentinel final; index: history found after any boots; RingBuf refines ReplayLog; streams and hubs: no gap, an end, no dead hub; blocks: no ghost row, blobs hold the text of their command; state: an active pane is not waiting | migration: 3 sessions, 3 panes, 2 blocks, 2 failed boots, 1 passed-over error. Index: 3 blocks, batch of 2, 2 failed boots, 1 failed add. Ring: capacity 3, chunks of 0 to 4 bytes. Stream: 6 chunks through a ring and a broadcast of 2. Mirror: 2 clients, 3 frames, snapshot of 2, broadcast of 1; or 2 keys each. Blocks: 5 items (3 in hybrid mode, whose events change places), 1 failure. State: thresholds 1, 3, 4, grace 1 |
| `migration_crash` | the sentinel is written with panes missing | 1 failed boot |
| `blocks_late` | an event taken after the finalization of its pane begins a block that never ends | 3 items, no failure |
| `state_worker` | in a worker an agent that writes is called waiting | the thresholds of the code |
| `tui` | sessions, tabs, slots and focus fit together, and a click misses only from behind the session-lost overlay; only the user closes a live pane; a dead pane leaves; a menu kills its own pane; search results never go back; Esc leads out of everything | ten scenarios of what the daemon and the user do, up to 3 panes, 3 operations and one refused or silent stream; ten groups of keys and events, up to 6 of the user and 3 of the world |
| `clients` | the GUI's rail and panes and the GPU client's layout agree with the daemon once all is through, but for what failed; the GPU's list is that of the last query; every MCP request with an id is answered once, with its own block | GUI: twelve scripts, of one or the other daemon, 3 windows, 4 panes, up to 2 actions of the user and 2 of others, 1 failure. GPU: 3 panes, 2 queries, 1 chunk, 4 commands; behaviours of all 4 commands are about the layout alone, or leave it alone (`Apart`: overlay, streams and layout share nothing but the user). MCP: 2 requests of any two tools, which are interchangeable (symmetry), a queue of 1 |
| `gui_live` | once the daemon stays up the GUI ends connected to it for good, or its bridge holds a dead client for good; a link attempt ends | 2 overlapping reconnect ticks, 2 event loops, 2 retries, 2 daemon restarts, 2 presses; 2 chains, 2 codes, 2 poll errors, 1 disconnect |

Deadlock is checked in `events`, `registry` and `migration_crash`. The other runs
switch the check off, because what they model may be at rest: a finished pane, a
session whose worker has ended, a user who has done all a scenario allows.

Scenarios keep a run small without hiding an interleaving: within one, every order
of its operations, faults and background tasks is explored.

**Fairness.** `events`: an emit once begun goes on (there is no await in
`emit_event`), and the client's loop and the handler it calls keep running; no
fairness is asked of new emits, failures or restarts. `registry`: a task that can
take a step takes one (tokio runs ready tasks), and a dead shell is reaped; no
fairness of requests or exits. `hybrid`: tasks of both processes that can go on do,
and the supervisor's loops (SIGCHLD, heartbeat) run; shells need never exit, so a
shutdown must not depend on SIGTERM. A heartbeat counts as late without a fault
only when no worker is left to send one and SIGCHLD has been handled, which takes
far less than the 15 s of the timeout. `daemon`: the reader thread broadcasts what
it pushed, connections and hubs run (threads and spawned tasks without a lock they
could starve on); the pane need not end. `tui`: the loop turns, its periodic list
comes round again and again, and for `EscLeadsOut` the user goes on pressing Esc.
`gui_live`: timers fire, calls are answered or fail, a device code expires; nobody
has to press anything, and the daemon need not come back.

## 4. What the conditions in the properties stand for

Some properties hold only under a condition; each condition is a case in which
the code does something else.

- `NothingLostInOrder` excludes overlapping emits (`events_lost`) and restarts:
  a new daemon counts from 0 and a client that kept its cursor (the TUI and MCP
  loops do) passes over the new events up to it.
- `StoredMatchesMemory`, `ClosedPaneLeavesTree` and `HealthyPaneStays` are stated
  for RPCs that do not overlap (`Serial`). Two overlapping splits clone the
  tree under the layout lock and write it after the lock is released, so SQLite
  may end with the older tree. `gc_stale_sessions` kills the sessions that had no
  pane when it read the list; a spawn under way loses its new pane. If a session's
  only shell exits while `open_pane` is spawning a second one, the session is
  evicted and the new pane runs in a session nobody lists.
- `DeadPaneLeaves` starts from a listed pane: `spawn_pty` starts the child-wait
  task before `open_pane` inserts the pane, so a shell that exits at once is
  removed first and inserted afterwards, and stays listed.
- `NoGapInWorker` is about workers and connections that did not
  lag. The single daemon takes the snapshot, sends it and then subscribes, so a
  chunk in between is in neither; there the cancelled token may also win over
  chunks that were not received yet.
- `LossBoundedByFailures`, `IndexRebuilt` exclude passed-over errors: a failed
  query of the legacy database counts as an empty one, and the sentinel follows.
- `BootIndexesHistory` excludes an upgrade from schema v2, after which a backfill
  cut short is never taken up again.
- The safety properties of `Hybrid` hold until the session is first removed from
  the registry (`Untouched`). `registry.remove` clears the slot counter and the
  dead slots also when the session goes on: after a respawn slots are handed out
  again (`hybrid_slot`), reports that arrive together give a recovered slot two
  PaneIds, and an open that overlaps the eviction leaves a pane nobody can
  address. A worker replaced for a late heartbeat is not stopped and works on the
  same shard as its successor.
- `CleanExitNotRespawned` is about a worker with nothing open, opening or closing.
  Of two overlapping closes the first to see the map empty ends the worker, and
  the `pane_closed` of the other may never be sent. It also excludes a session
  with a slot left by a failed open or a failed or timed-out spawn: nothing takes
  that PaneId out of the index.
- `LivePanesPersisted` is one direction. A row written after its pane has already
  been closed stays in the shard.
- `MirrorNoGap` is about clients that have not lagged: `Lagged` is only logged,
  the skipped frames are gone. It is a property of a client and its own hub; two
  hubs for one pane (the registry is read, unlocked and written) each see all of
  the output.
- `NoGhostBlock` excludes a refused or dropped finalize (the store fails, the
  finalize channel is full), in the single daemon a blob file that could not be
  opened (its drain finalizes only blocks with a writer), and blocks a late event
  begins after the close (`blocks_late`). The next boot stamps such rows.
- `BlobIsOutput` is about the single daemon. A worker sends each chunk in a task of
  its own, and nothing puts them back in order. It is about text: ADR-002
  (`docs/ARCHITECTURE.md:136`) says that ANSI sequences are preserved, and the parser
  drops them.
- `ViewConsistent` excepts clicks from behind the session-lost overlay (`astray`).
- `ActiveNotWaiting` is about the single daemon, whose reader touches the tracker
  (`state_worker` shows the worker), and excludes a state a client has set.
- `RailConverges` and `LivePanesServed` exclude views in which an older answer has
  replaced a newer one (`view.stale`). The code has no guard against that: the
  next poll or event repairs the view, and the run does not follow it further.
  `LivePanesServed` also excludes the panes in `missed`: nothing tries a failed
  attach again, because the terminal is mounted (`gui/src/session-ops.ts:135-137`),
  and closePaneAction disposes of the terminal also when the close failed
  (`gui/src/actions.ts:256-262`). It lets the pane-closed handler be busy, which a dead
  leaf of the single daemon keeps so for ever; `RailConverges` holds at rest.
- `Reconnects` excepts a bridge that ends with the client of a daemon that died
  (`Stale`). `gui/src/main.ts:53-54` and `309-311` say that the UI heals itself when the
  daemon returns; with the cached client of a dead daemon it counts as connected while
  no call works, and the buttons, which alone drop the client, are for the case that it
  does not.
- `LayoutConverges` excludes failed RPCs: the push-event task advances its cursor
  before it fetches, so a failed fetch loses the snapshot. It also relies on the
  LayoutChanged events that the bus may lose (`events_lost`).
- `ResultsOfLastQuery` allows a list that the emptied text has cleared. A query in
  flight at that moment still answers, and its results come back under an empty text.
- `NoAnswerLost` excepts a task that panicked: it answers nothing.
- `RunReportsOwnBlock` excludes panes that two `run_command` requests or a user
  share: the tool takes the newest block after its own start, whoever typed it.
- The TUI's `DeadPaneLeaves` ends where the daemon is lost: `daemon_lost` is never
  reset.

### Observations

Met while modelling, and not among the runs.

- Registry: an error after the shell was started (`pyred/src/pty.rs:280`) leaves it
  running; `shard.rs:90` counts an unreadable shard as one without panes, which the
  startup GC then removes; `backfill_windows` (`store.rs:572`) is no transaction.
- Mirror: `proxy_stream_to_worker` keeps the hub's `Arc`, so that a client's output
  task never sees the broadcast close, and a client of an ended pane gets no EOF.
- Blocks: the batcher caches the PaneId of a slot also across a respawn; blocks the
  single daemon's drain finalizes are not indexed.
- TUI: paste goes past the overlays, mouse presses past the prompts; keys go to the
  focused pane while a zoomed one is drawn; `input_tx.send` may block the loop; a
  pane can be attached twice (`run.rs:456` and the comment at `511`).
- GPU: `about_to_wait` takes a chunk off a stream to see whether there is one and drops it
  (`main.rs:386`); closing a focused pane that is not in the cached layout ends the
  client; Enter in the search overlay cancels the query it should run; keys for a pane without a stream are dropped.
- MCP: the default deadline of tarpc is 10 s, the waits ask for 30 s; a
  `session_layout` that fails midway leaves its session; EOF on stdin drops the
  answers in progress.
- GUI: the user can be left without an active session; a
  disconnect while the long poll is in flight, followed by a reconnect, leaves a
  connected client without an event loop (`gui/src/main.ts:98`); cancelling the device
  flow does not stop a poll in flight, which may still authorize.

## 5. Proofs

The theorems hold for every number of tasks, clients, sessions and panes and every
capacity, where the runs of section 3 check a few. Each proof has an inductive
invariant, which was model-checked before it was proved, and one case per action.

The only assumptions are the `ASSUME`s of the modules, and TLC evaluates every one of
them in a run.

**`PaneEvents_proofs`**, from `RingCap \in Nat \ {0}`:

- `TypeCorrect`: `TypeOK` is inductive as it stands.
- `NoGap`: `NoGapWhileWaiting` is inductive on top of `TypeOK`: an event enters
  the ring before it is sent, so an event found in the ring and not in the batch
  is ahead of the receiver or held by an emitter that is about to send it.
- `NothingLost`: the invariant is `SerialInv`. While emits are serial at most one
  task is in `emit_event` (`Alone`); the ring is then the newest run of
  consecutive numbers and the channel is 1..n (`BusInv`), and each poll's batch
  has every event of the ring between its `after` and its last one, and up to its
  receiver's position (`PollInv`). The property itself says nothing of polls in
  progress, hence the strengthening.
- `CursorMonotone`: `PollAhead` (a poll works from its client's cursor and
  collects only newer events) holds without any order of the emits.

**`Registry_proofs`**, from `None` not being an id:

- `TypeCorrect`: with `TypeOK` goes `FramesOK`, what the frame of each RPC holds at
  each of its steps (a task that is to insert a pane has a pane, a window and a
  session), and `HomesOK`, that a shell has a window from its start.
- `Evicted` (`EmptySessionEvicted`), for RPCs that overlap in any way. The invariant
  `Owned` says who owns what: the windows of a session are its own and listed once,
  a pane is in no session but its window's, and what an RPC works on belongs to the
  session it looked up, also after that session was evicted. Without it a close
  could empty one session and evict another.
- `Stored` (`StoredMatchesMemory`). Under `Serial` a tree that differs from its row
  is about to be written (`StoredKept`) and the writer holds the current tree
  (`PersistCurrent`); a window in the registry has its row or spawn is about to
  write it (`RowsKept`); rows are deleted only of windows that are out of the
  registry (`KilledGone`, `DeletedGone`).
- `ClosedLeaves` (`ClosedPaneLeavesTree`). A shell that was signalled has left the
  lists, and nobody opens or splits it (`ListedAlive`), so none comes back into a
  tree; a leaf that has one is the sole root, or its close has yet to reach the tree
  (`LeafClosed`); a leaf is a pane of its window (`LayoutHome`), so the close looks
  in the right tree.
- `HealthyStays` (`HealthyPaneStays`, an action property). gc works on sessions
  without a pane (`GcEmpty`), a listed pane with a running shell is in a window of
  its session (`RunningHome`), and close_window drops a window when all that ran in
  it was closed (`WindowClosed`).

**`Hybrid_proofs`**, from the bounds being numbers and the scenarios being records of
their type; the theorems cover all RPCs and all faults together, not only the
scenarios of the run:

- `TypeCorrect`.
- `StableId` (`StablePaneId`). While the session is untouched `next_slot` only grows
  and every slot below it has its PaneId or is dead (`IndexInv`); shells, shard rows
  and handlers name only such slots (`ShellsBelowNext`, `TasksBelowNext`), so
  `get_or_alloc_pane_by_slot` never has to make a second PaneId.
- `PanesPersisted` (`LivePanesPersisted`). The session has one worker, the one its
  spawn started, on a shard that was empty when it booted (`Workplace`), and a slot
  is handed to one open, which starts one shell in it (`PaneMap`): the row a close
  deletes is never that of another live pane.
- `CleanExit` (`CleanExitNotRespawned`). Unless a failed spawn or open has left its
  slot, every PaneId stands for a pane that is opening, open or closing
  (`PaneIdsStand`), and a worker told to stop has told the supervisor of its last
  pane (`FlagsTold`): one that ends by itself with nothing left has had its session
  removed before.

**`Boot_proofs`**, about `Migration` from the assumptions on the legacy database, and
about `SearchIndex` from a finite set of blocks:

- `TypeCorrect`; `SentinelIndex`: `IndexRebuilt` needs `SentinelInv`, which says
  what the blocks still to be added and those in the index amount to in each
  state of the boot, and that an unfinished boot has no sentinel; `SentinelFinal`.
- `SentinelLoss` (`LossBoundedByFailures`). A session with panes has a shard or is
  still to come (`Reached`), what the current shard lacks is still to be inserted
  (`CurrentRows`), and there are at most as many incomplete shards as failed boots
  (`BrokenBound`): a failed boot leaves behind the one it was filling.

- `BootIndexes` (`BootIndexesHistory` of `SearchIndex`). The invariant `IndexInv` says
  how far the boot is: a directory that is not there or of the first schema holds no
  document (`NoIndexNoDocs`), what commands and add tasks have in hand is newer than
  the history of this boot (`WorkIsNew`), and in an index of the boot's own making a
  reindex or a backfill has put in exactly what it is past, so that the count finds
  everything or nothing (`Progress`). A backfill that stops halfway leaves an index
  that is neither; the count of the next boot could not tell it from a complete one,
  and what saves it is that the schema check finds no index in the directory itself
  and sets it aside.

**`Pane_proofs`**, about what becomes of the output of one pane:

- `StreamComplete` (`NoGapInWorker`), from capacities of at least 1. A chunk is in the
  ring before it is broadcast, and a worker's connection subscribes before its
  snapshot, which then reaches as far as its receiver (`SnapshotCovers`).
- `RingIsReplayLog` (`IsReplayLog`), for any capacity and chunks of any length: the
  detailed buffer implements the abstract log. head and len stay within the buffer
  (`Rings`); a snapshot has, at each position, the byte that many places after head
  (`SnapshotSeq`); after n rounds of the loop of push the snapshot is the newest bytes
  of the old one followed by the first n of the chunk (`PushByteStep`, `PushEachIs`);
  and leaving out all but the last Cap bytes of a long chunk makes no difference
  (`PushIs`).
- `MirrorComplete` (`MirrorNoGap`), from capacities that are numbers, for one hub or
  several. A hub keeps a frame before it sends it (`KeptBeforeSent`), and a connection
  holds a hub that exists and is not ahead of it (`ConnOK`).
- `TableSound`, from the modes being those of the two daemons: a running block is held
  as open by the parser or the batcher (`RunningIsOpen`), in the single daemon with its
  writer (`RunningHasWriter`), and in a worker's session the end of the pane has taken
  it or is about to (`ClosedIsFinalized`). `NoGhost` (`NoGhostBlock`) follows from it.
- `BlobsComplete` (`BlobIsOutput`). The parse channel is the end of the tape
  (`InOrder`), the parser's current block is the one the last marker it has parsed
  belongs to, blocks are numbered as their commands are, and every blob is what its
  command printed up to there (`ParsedInv`); escape sequences are in none.
- `ActiveIsRunning` (`ActiveNotWaiting`, an action property) for the single daemon and
  for thresholds in the order they have in the code (the shell's idle time and the
  grace together below the block's, that below the agent's). The tracker's last output
  is the pane's (`OutputIsCurrent`), and an end marker no output has overtaken is at
  most the grace older than it (`BlockEndIsRecent`), however late the parser pushed it.

**`Tui_proofs`**, for any number of sessions, tabs, panes, keys and events:

- `ViewSound`: `ViewInv` holds between any two steps of the loop, whatever the daemon
  and its other clients do in the meantime. `PanesInv`: identifiers below `next` name
  what was created, windows of the daemon have leaves and share none, a slot whose
  stream ended after frames is that of a pane that is gone, and a close RPC is for a
  pane that is gone or that the user closed. `SessionsInv`: no session without a tab,
  no tab without a leaf, active tab and focus within their lists, and the active
  session too wherever the loop indexes it. `ListInv`: what was read before an await
  and is used after it (the listed sessions and the turn of the layout loop) still
  names a session of the view.
- `IndicesInBounds` (`ViewConsistent`) needs `ChipInv` besides: wherever the user can
  click and the overlay is not shown, the last frame has a chip for each session and
  each tab there is, and no other. `KillsAsked` (`OnlyUserKillsLive`) follows.
- `OverlaysSound`: slots only grow and never take another pane, an open menu stays on
  its slot (`MenuOK`), and the versions of the search text are in order (`SearchOK`):
  shown, under way, waiting, typed. `MenuKillsRight` (`MenuKillsItsPane`) and
  `SearchForward` (`ResultsNeverGoBack`, an action property) follow.

**`Clients_proofs`**, from `None` and `Null` being no numbers and 0 no request:

- `LayoutConverged` (`LayoutConverges`). When the push-event task has caught up, the
  newest snapshot in its channel is the daemon's layout, or the channel is empty and
  the window shows it but for closes under way (`LayoutInv`).
- `NewestResults` (`ResultsOfLastQuery`). The overlay listens to the channel of its
  last query only, and the answer to that is to come, has come, is shown, or was cleared
  with the text (`SearchInv`).
- `AnsweredOnce` (`NoAnswerLost`). The answer to a request with an id is in exactly one
  place: not yet sent, once in the channel, or written once; a notification and a
  panicked task have none (`AnswerInOnePlace`).
- `RunReported` (`RunReportsOwnBlock`). A call that has its pane to itself knows, before
  it types, the last block of a pane that is not busy, and after it that the only newer
  one is its own (`RunOK`, by the phase of the call).

**`GuiStore_proofs`**, for any handlers the user may call and any number of windows,
panes and handlers at once, from no assumption: `RailConverged` (`RailConverges`), from
`RailSound`. Every program under way is well formed (`IsProg`), and what it runs without
an await leaves the list of the rail as it is (`ExecKeeps`, `RunKeeps`). A list of sessions, shown or still in an answer, that is of the daemon's
present version is right (`ListOK`). `RailInv`: some right list is newer than every
wrong one (`Fresh`), or a spawned or closed event is still on the bus or the loop's
`list_sessions` is unanswered (`Pending`), unless an older answer has replaced a newer
one, which the property excepts.

Loops (`PushEach` of `RingBuf`; `Picked` and `CloseAll` of `Tui`; `Run` of `GuiStore`) are
recursive functions, and what they compute is proved by the least counterexample
(`LeastNumber`, from `WFMin`), as the library's induction theorems cannot be
instantiated. `SelectSeq`, `SortSeq` and the folds of the library are opaque to the
provers and appear only where no proof needs what they compute.

Only model-checked:

- all liveness, because fairness is out of the prover's reach: `EveryEventDelivered`,
  `DeadPaneLeaves`, `DeadHandleLeaves`, `ShutdownEnds`, `StreamEnds`, `DeadHubLeaves`,
  `LinkSettles`, `Reconnects`, `EscLeadsOut`;
- `LivePanesServed` of `GuiStore`, which relates layouts, terminals and pumps: an
  inductive invariant would have to say, for every pair of handlers under way, what
  each has still to fetch and attach.

## 6. Not modelled

Not modelled:

- the command-line client, the wire protocol, themes, configuration, hooks, git and
  process inspection: single calls, formatting and I/O without state between calls;
- rendering, glyphs, the DOM, key decoding, geometry of splits (a tree is its set
  or sequence of leaves);
- SQL migrations, `backfill_windows`, the boot reconcile of block rows, and the
  supervisor's windows and layouts, which repeat the registry's over the shard;
- `attach_pane_stream` of the GUI bridge called twice at once for one pane;
- tantivy, SQLite, tokio and tarpc beyond the behaviour the code relies on; loss of
  power.
