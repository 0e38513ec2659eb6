------------------------------- MODULE Blocks -------------------------------
(***************************************************************************)
(* From the bytes of a shell to the rows of the blocks table: the OSC 133  *)
(* parser (parser.rs), the parser task of the single daemon (pty.rs), and  *)
(* in hybrid mode the reader thread of the worker (worker.rs) and the      *)
(* block-event batcher of the supervisor (supervisor.rs).                  *)
(*                                                                         *)
(* tape is what the shell writes: prompts ("A"), starts ("C") and ends     *)
(* ("D") of commands, text ("o") and escape sequences ("e") with the       *)
(* command they are of, 0 for what is written at the prompt.  A read       *)
(* returns one item, and an item is known by its place on the tape.        *)
(***************************************************************************)
EXTENDS Naturals, Sequences, Functions

CONSTANTS
  Modes,       \* "single", "worker" or both
  MaxItems,    \* bound on the tape of the single daemon
  MaxEvents,   \* ... and on that of a worker, whose events may change places
  MaxRefused   \* bound on the failures of the store

ASSUME ModesAssumption == Modes \subseteq {"single", "worker"}

VARIABLES
  mode,
  tape,
  shell,     \* the command the shell runs, its number of commands, whether it has ended
  flying,    \* items whose block_event task has not reached the supervisor
  queue,     \* the parse channel, or event_rx
  batch,     \* the batcher: what it does, and the events it holds back
  dead,      \* pane_closed has come
  marked,    \* dead_slots has the slot
  final,     \* a message is in finalize_rx
  pipe,      \* parser and persistence state of the pane
  row,       \* the blocks table: each block's command, state and blob
  failed,    \* history: what failed in the store, one entry each
  late       \* history: blocks begun when the slot was dead

bvars == <<mode, tape, shell, flying, queue, batch, dead, marked, final, pipe, row, failed, late>>
src   == <<mode, tape, shell>>

May(f)   == Len(failed) < MaxRefused /\ failed' = Append(failed, f)
Fine     == UNCHANGED failed
Failed(f) == f \in Range(failed)

-----------------------------------------------------------------------------
(* The shell *)

Items ==
  {[k |-> "o", cmd |-> shell.cmd], [k |-> "e", cmd |-> shell.cmd]}
    \cup (IF shell.cmd = 0 THEN {[k |-> "C", cmd |-> shell.n + 1]}
          ELSE {[k |-> "D", cmd |-> shell.cmd], [k |-> "A", cmd |-> shell.cmd]})

\* Something is written and read: the parser task of the single daemon gets it
\* through a channel, the supervisor by an RPC in a task of its own.
Write(x) ==
  /\ ~shell.over
  /\ Len(tape) < (IF mode = "single" THEN MaxItems ELSE MaxEvents)
  /\ tape' = Append(tape, x)
  /\ shell' = CASE x.k = "C" -> [shell EXCEPT !.cmd = x.cmd, !.n = x.cmd]
                [] x.k \in {"A", "D"} -> [shell EXCEPT !.cmd = 0]
                [] OTHER -> shell
  /\ IF mode = "single" THEN queue' = Append(queue, Len(tape')) /\ UNCHANGED flying
                        ELSE flying' = flying \cup {Len(tape')} /\ UNCHANGED queue
  /\ UNCHANGED <<mode, batch, dead, marked, final, pipe, row, failed, late>>

\* The reader sees EOF: the parse channel closes, or the pane is closed.
ShellEnds ==
  /\ ~shell.over
  /\ shell' = [shell EXCEPT !.over = TRUE]
  /\ UNCHANGED <<mode, tape, flying, queue, batch, dead, marked, final, pipe, row, failed, late>>

-----------------------------------------------------------------------------
(* The parser and what is done about its events *)

\* Mutant: a prompt does not end the command that had no end of its own.
MutantPrompt(p) == p

\* OSC 133;A.
Prompt(p) == [p EXCEPT !.cur = 0]

\* create_block: the row of a block, if it could be made.
CreateBlock(x, made) == [cmd |-> x.cmd, st |-> IF made THEN "running" ELSE "none", blob |-> <<>>]

\* OSC 133;C, CommandStart: a row, a blob file and the buffers, if the row could
\* be made; the parser is in the block in any case.
CommandStart(x) ==
  LET b == Len(row) + 1 IN
  /\ \/ /\ Fine
        /\ pipe' = [pipe EXCEPT !.cur = b, !.meta = @ \cup {b}, !.writers = @ \cup {b}]
     \/ /\ May("create")
        /\ pipe' = [pipe EXCEPT !.cur = b]
     \/ /\ May("open")
        /\ pipe' = [pipe EXCEPT !.cur = b, !.meta = @ \cup {b}]
  /\ row' = Append(row, CreateBlock(x, b \in pipe'.meta))
  /\ late' = IF dead THEN late \cup {b} ELSE late

\* BlobWriter::write, to a file that is empty when it is opened.
BlobWrite(r, i) == [r EXCEPT !.blob = Append(@, i)]

\* OutputChunk: the text to the blob file.  A failed write costs the supervisor the file.
OutputChunk(i) ==
  /\ UNCHANGED late
  /\ IF pipe.cur \notin pipe.writers THEN Fine /\ UNCHANGED <<pipe, row>>
     ELSE \/ /\ Fine
             /\ row' = [row EXCEPT ![pipe.cur] = BlobWrite(@, i)]
             /\ UNCHANGED pipe
          \/ /\ May("write")
             /\ pipe' = IF mode = "single" THEN pipe
                        ELSE [pipe EXCEPT !.writers = @ \ {pipe.cur}]
             /\ UNCHANGED row

\* finalize_block; of a block that has no row it changes nothing.
Ended(r) == IF r.st = "running" THEN [r EXCEPT !.st = "ended"] ELSE r

\* OSC 133;D, BlockEnd.
BlockEnd ==
  /\ UNCHANGED late
  /\ IF pipe.cur = 0 THEN Fine /\ UNCHANGED <<pipe, row>>
     ELSE /\ pipe' = [pipe EXCEPT !.cur = 0, !.meta = @ \ {pipe.cur}, !.writers = @ \ {pipe.cur}]
          /\ \/ Fine /\ row' = [row EXCEPT ![pipe.cur] = Ended(@)]
             \/ May("finalize") /\ UNCHANGED row

\* csi_dispatch and esc_dispatch of vte::Perform, which BlockMachine leaves as
\* they are: they do nothing.
Escape == Fine /\ UNCHANGED <<pipe, row, late>>

\* parser.feed and the loop over its events: BlockMachine hears of what is printed
\* or executed and of the OSC sequences, of which those of 133 count.
Feed(i) ==
  LET x == tape[i] IN
  CASE x.k = "A" -> pipe' = Prompt(pipe) /\ Fine /\ UNCHANGED <<row, late>>
    [] x.k = "C" -> CommandStart(x)
    [] x.k = "o" -> OutputChunk(i)
    [] x.k = "e" -> Escape
    [] x.k = "D" -> BlockEnd

-----------------------------------------------------------------------------
(* The parser task of the single daemon *)

Parse ==
  /\ mode = "single"
  /\ queue # <<>>
  /\ Feed(Head(queue))
  /\ queue' = Tail(queue)
  /\ UNCHANGED <<src, flying, batch, dead, marked, final>>

\* The channel is closed and empty: the blocks that have a blob file end, but for
\* those that finalize_block fails for.
Drain ==
  /\ mode = "single"
  /\ shell.over /\ queue = <<>> /\ pipe.writers # {}
  /\ \E lost \in SUBSET pipe.writers :
       /\ IF lost = {} THEN Fine ELSE May("finalize")
       /\ row' = [b \in DOMAIN row |-> IF b \in pipe.writers \ lost THEN Ended(row[b]) ELSE row[b]]
  /\ pipe' = [pipe EXCEPT !.writers = {}]
  /\ UNCHANGED <<src, flying, queue, batch, dead, marked, final, late>>

-----------------------------------------------------------------------------
(* The supervisor *)

\* block_event: the tasks of the worker get there in any order.
Deliver(i) ==
  /\ i \in flying
  /\ flying' = flying \ {i}
  /\ queue' = Append(queue, i)
  /\ UNCHANGED <<src, batch, dead, marked, final, pipe, row, failed, late>>

\* pane_closed: the slot is dead, which registry.remove forgets again if it was
\* the session's last; and the batcher is told, unless finalize_rx is full.
PaneClosed ==
  /\ mode = "worker"
  /\ shell.over /\ ~dead
  /\ dead' = TRUE /\ marked' \in BOOLEAN
  /\ \/ Fine /\ final' = TRUE
     \/ May("finalize") /\ UNCHANGED final
  /\ UNCHANGED <<src, flying, queue, batch, pipe, row, late>>

Select == mode = "worker" /\ batch.pc = "select"

\* event_rx.recv.
Receive ==
  /\ Select
  /\ queue # <<>>
  /\ batch' = [batch EXCEPT !.held = Append(@, Head(queue))]
  /\ queue' = Tail(queue)
  /\ UNCHANGED <<src, flying, dead, marked, final, pipe, row, failed, late>>

\* The 50 ms tick, or a message of finalize_rx: first come the events held.
Tick ==
  /\ Select
  /\ batch.held # <<>>
  /\ batch' = [batch EXCEPT !.pc = "flush"]
  /\ UNCHANGED <<src, flying, queue, dead, marked, final, pipe, row, failed, late>>

Finalize ==
  /\ Select
  /\ final
  /\ final' = FALSE
  /\ batch' = [batch EXCEPT !.pc = "finalize"]
  /\ UNCHANGED <<src, flying, queue, dead, marked, pipe, row, failed, late>>

\* process_raw_event: the PaneId is resolved once, and that is when the event
\* of a dead slot is discarded.
ProcessRawEvent ==
  /\ mode = "worker" /\ batch.pc # "select"
  /\ batch.held # <<>>
  /\ IF ~pipe.known
     THEN /\ pipe' = [pipe EXCEPT !.known = ~marked]
          /\ batch' = IF marked THEN [batch EXCEPT !.held = Tail(@)] ELSE batch
          /\ UNCHANGED <<row, failed, late>>
     ELSE /\ Feed(Head(batch.held))
          /\ batch' = [batch EXCEPT !.held = Tail(@)]
  /\ UNCHANGED <<src, flying, queue, dead, marked, final>>

Flushed ==
  /\ batch.pc = "flush"
  /\ batch.held = <<>>
  /\ batch' = [batch EXCEPT !.pc = "select"]
  /\ UNCHANGED <<src, flying, queue, dead, marked, final, pipe, row, failed, late>>

\* Mutant: only blocks that have a blob file are looked at.
MutantOpenBlocks(p) == p.writers

\* "block_meta is the authoritative set of in-progress blocks".
OpenBlocks(p) == p.meta

\* finalize_one_pane_state.
FinalizePane ==
  /\ batch.pc = "finalize"
  /\ batch.held = <<>>
  /\ \/ Fine /\ row' = [b \in DOMAIN row |-> IF b \in OpenBlocks(pipe) THEN Ended(row[b]) ELSE row[b]]
     \/ OpenBlocks(pipe) # {} /\ May("finalize") /\ UNCHANGED row
  /\ pipe' = [pipe EXCEPT !.meta = {}, !.writers = {}]
  /\ batch' = [batch EXCEPT !.pc = "select"]
  /\ UNCHANGED <<src, flying, queue, dead, marked, final, late>>

-----------------------------------------------------------------------------
BlocksInit ==
  /\ mode \in Modes
  /\ tape = <<>>
  /\ shell = [cmd |-> 0, n |-> 0, over |-> FALSE]
  /\ flying = {} /\ queue = <<>>
  /\ batch = [pc |-> "select", held |-> <<>>]
  /\ dead = FALSE /\ marked = FALSE /\ final = FALSE
  /\ pipe = [cur |-> 0, known |-> FALSE, meta |-> {}, writers |-> {}]
  /\ row = <<>>
  /\ failed = <<>> /\ late = {}

Batcher == Receive \/ Tick \/ Finalize \/ ProcessRawEvent \/ Flushed \/ FinalizePane

BlocksNext ==
  \/ \E x \in Items : Write(x)
  \/ ShellEnds \/ Parse \/ Drain
  \/ \E i \in flying : Deliver(i)
  \/ PaneClosed \/ Batcher

BlocksSpec == BlocksInit /\ [][BlocksNext]_bvars

-----------------------------------------------------------------------------
(* Properties *)

\* Nothing of the pane is left in a channel, a task or the batcher.
Quiet ==
  /\ shell.over /\ flying = {} /\ queue = <<>>
  /\ IF mode = "single" THEN pipe.writers = {}
     ELSE dead /\ ~final /\ batch = [pc |-> "select", held |-> <<>>]

\* "Otherwise they stay ended_at IS NULL forever (ghost running block)": a
\* closed pane leaves no running block, although a prompt may come without the
\* end of the command, the shell may end in the middle of one, and a blob file
\* may fail to open.  (The single daemon forgets a block without a blob file;
\* and a block that a late event begins after pane_closed is a ghost.)
NoGhostBlock ==
  /\ Quiet
  /\ ~Failed("finalize")
  /\ mode = "single" => ~Failed("open")
  => \A b \in DOMAIN row : row[b].st # "running" \/ b \in late

\* The blob of a block is the text its command wrote, in its order: nothing of
\* the prompt, of an earlier or of a later command, no escape sequence, and all
\* the text that the parser has had.  (In hybrid mode the chunks may change
\* places on their way to the batcher.  ADR-002 of docs/ARCHITECTURE.md would have
\* the escape sequences preserved.)
Printed(c) == {i \in DOMAIN tape : tape[i] = [k |-> "o", cmd |-> c]}
Ascending(s) == \A i, j \in DOMAIN s : i < j => s[i] < s[j]
BlobIsOutput ==
  mode = "single" /\ failed = <<>> =>
    \A b \in DOMAIN row :
      /\ Ascending(row[b].blob)
      /\ Range(row[b].blob) = Printed(row[b].cmd) \ Range(queue)

\* "If the slot has already been closed (marked dead in the PaneIndex), skip
\* this event entirely": no event that comes late leaves an orphaned block.
NoOrphanedBlocks ==
  Quiet /\ failed = <<>> => \A b \in DOMAIN row : row[b].st # "running"
=============================================================================
