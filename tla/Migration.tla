----------------------------- MODULE Migration -----------------------------
(***************************************************************************)
(* migrate_to_hybrid (migration.rs): the one-time split of the monolithic  *)
(* state.db into one shard per session, run before the supervisor binds    *)
(* its socket.  The disk outlives the process: an I/O error returned with  *)
(* `?` and a crash both end the boot, and the next boot starts again from  *)
(* what is on disk.                                                        *)
(*                                                                         *)
(* A shard is the set of pane rows committed to it; a file that is missing *)
(* or has no panes table yet has no rows (shard.rs counts both so).        *)
(* The search index is the set of blocks committed to it.                  *)
(***************************************************************************)
EXTENDS Naturals, FiniteSets

CONSTANTS
  Sessions, Panes, Blocks,
  PaneSessions,  \* sessions with a row in the legacy panes table
  LegacyPanes,   \* the open ones among the rows of each session
  BlockSession,  \* session of each row of the legacy blocks table
  NoSession,     \* the loop is between two sessions
  MaxFailures,   \* bound on the boots that end in an error or a crash
  MaxSwallowed   \* bound on the errors that are logged and passed over

ASSUME LegacyAssumption ==
  /\ LegacyPanes \in [Sessions -> SUBSET Panes]
  /\ {s \in Sessions : LegacyPanes[s] # {}} \subseteq PaneSessions
  /\ PaneSessions \subseteq Sessions
  /\ BlockSession \in [Blocks -> Sessions]
ASSUME NoneAssumption  == NoSession \notin Sessions
ASSUME BoundAssumption == MaxFailures \in Nat /\ MaxSwallowed \in Nat

VARIABLES
  legacy,     \* the monolithic state.db exists
  sentinel,   \* the migration_completed file exists
  backup,     \* some state.db.bak.* exists
  exists,     \* sessions whose sessions/<id>/state.db exists
  shard,      \* pane rows in the shard of each session
  index,      \* the blocks in the rebuilt search index
  pc,         \* where the boot is
  todo,       \* sessions the loop has not reached
  cur,        \* session whose shard is being filled
  rows,       \* its panes not inserted yet
  blocks,     \* blocks still to be read or added
  failures, swallowed

disk  == <<legacy, sentinel, backup, exists, shard, index>>
boot  == <<pc, todo, cur, rows, blocks>>
vars  == <<disk, boot, failures, swallowed>>

BlockSessions == {BlockSession[b] : b \in Blocks}

\* An error that the code logs, or drops, before it goes on.
Swallow == swallowed < MaxSwallowed /\ swallowed' = swallowed + 1

-----------------------------------------------------------------------------
(* The steps of one boot *)

Boot ==
  /\ pc = "down"
  /\ pc' = "check"
  /\ UNCHANGED <<disk, todo, cur, rows, blocks, failures, swallowed>>

\* The sentinel is there: nothing to do.
AlreadyDone ==
  /\ pc = "check"
  /\ sentinel
  /\ pc' = "serving"
  /\ UNCHANGED <<disk, todo, cur, rows, blocks, failures, swallowed>>

\* No legacy database: the sentinel is written at once.
NoLegacy ==
  /\ pc = "check"
  /\ ~sentinel
  /\ ~legacy
  /\ sentinel' = TRUE
  /\ pc' = "serving"
  /\ UNCHANGED <<legacy, backup, exists, shard, index, todo, cur, rows, blocks,
                 failures, swallowed>>

\* Mutant: the sentinel is written before the work it stands for.
BackupThenSentinel ==
  /\ pc = "check"
  /\ ~sentinel
  /\ legacy
  /\ backup' = TRUE
  /\ sentinel' = TRUE
  /\ pc' = "collect"
  /\ UNCHANGED <<legacy, exists, shard, index, todo, cur, rows, blocks, failures, swallowed>>

\* Mutant: a boot does not check the sentinel before it copies.
BackupAlways ==
  /\ pc = "check"
  /\ legacy
  /\ backup' = TRUE
  /\ pc' = "collect"
  /\ UNCHANGED <<legacy, sentinel, exists, shard, index, todo, cur, rows, blocks,
                 failures, swallowed>>

\* The legacy database is copied aside before anything is written.
Backup ==
  /\ pc = "check"
  /\ ~sentinel
  /\ legacy
  /\ backup' = TRUE
  /\ pc' = "collect"
  /\ UNCHANGED <<legacy, sentinel, exists, shard, index, todo, cur, rows, blocks,
                 failures, swallowed>>

\* The union of the two SELECT DISTINCT queries.  A query that fails counts as
\* one with no rows.
CollectSessions ==
  /\ pc = "collect"
  /\ \/ todo' = PaneSessions \cup BlockSessions /\ UNCHANGED swallowed
     \/ todo' \in {PaneSessions, BlockSessions} /\ Swallow
  /\ pc' = "collect_blocks"
  /\ UNCHANGED <<disk, cur, rows, blocks, failures>>

CollectBlocks ==
  /\ pc = "collect_blocks"
  /\ \/ blocks' = Blocks /\ UNCHANGED swallowed
     \/ blocks' = {} /\ Swallow
  /\ pc' = "split"
  /\ UNCHANGED <<disk, todo, cur, rows, failures>>

\* Partial migration recovery: a shard that exists is taken for migrated.
SkipSession(s) ==
  /\ pc = "split" /\ cur = NoSession
  /\ s \in todo
  /\ s \in exists
  /\ todo' = todo \ {s}
  /\ UNCHANGED <<disk, pc, cur, rows, blocks, failures, swallowed>>

\* open_shard: the file and its panes table come into being.
OpenShard(s) ==
  /\ pc = "split" /\ cur = NoSession
  /\ s \in todo
  /\ s \notin exists
  /\ exists' = exists \cup {s}
  /\ cur' = s
  /\ pc' = "fetch"
  /\ UNCHANGED <<legacy, sentinel, backup, shard, index, todo, rows, blocks,
                 failures, swallowed>>

\* fetch_panes_for_session: here too a failed query is an empty result.
FetchPanes ==
  /\ pc = "fetch"
  /\ \/ rows' = LegacyPanes[cur] /\ UNCHANGED swallowed
     \/ rows' = {} /\ Swallow
  /\ pc' = "split"
  /\ UNCHANGED <<disk, todo, cur, blocks, failures>>

\* One INSERT .. ON CONFLICT, committed by itself.
InsertPane(p) ==
  /\ pc = "split" /\ cur # NoSession
  /\ p \in rows
  /\ shard' = [shard EXCEPT ![cur] = @ \cup {p}]
  /\ rows' = rows \ {p}
  /\ UNCHANGED <<legacy, sentinel, backup, exists, index, pc, todo, cur, blocks,
                 failures, swallowed>>

CloseShard ==
  /\ pc = "split" /\ cur # NoSession
  /\ rows = {}
  /\ todo' = todo \ {cur}
  /\ cur' = NoSession
  /\ UNCHANGED <<disk, pc, rows, blocks, failures, swallowed>>

\* Mutant: an index that is already there is kept.
RemoveIndexIfEmpty ==
  /\ pc = "split" /\ cur = NoSession /\ todo = {}
  /\ pc' = "rebuild"
  /\ blocks' = IF index = {} THEN blocks ELSE {}
  /\ UNCHANGED <<disk, todo, cur, rows, failures, swallowed>>

\* rebuild_tantivy_index removes the directory and opens an empty index ...
RemoveIndex ==
  /\ pc = "split" /\ cur = NoSession /\ todo = {}
  /\ index' = {}
  /\ pc' = "rebuild"
  /\ UNCHANGED <<legacy, sentinel, backup, exists, shard, todo, cur, rows, blocks,
                 failures, swallowed>>

\* ... and adds the blocks one commit at a time; a failed add is only logged.
AddBlock(b) ==
  /\ pc = "rebuild"
  /\ b \in blocks
  /\ blocks' = blocks \ {b}
  /\ \/ index' = index \cup {b} /\ UNCHANGED swallowed
     \/ index' = index /\ Swallow
  /\ UNCHANGED <<legacy, sentinel, backup, exists, shard, pc, todo, cur, rows, failures>>

WriteSentinel ==
  /\ pc = "rebuild"
  /\ blocks = {}
  /\ sentinel' = TRUE
  /\ pc' = "serving"
  /\ UNCHANGED <<legacy, backup, exists, shard, index, todo, cur, rows, blocks,
                 failures, swallowed>>

-----------------------------------------------------------------------------
(* The end of a boot *)

\* The locals of the boot are gone with the process.
Forget ==
  /\ pc' = "down"
  /\ todo' = {}
  /\ cur' = NoSession
  /\ rows' = {}
  /\ blocks' = {}

\* An error propagated with `?` out of main, or a crash.
Fail ==
  /\ pc \notin {"down", "serving"}
  /\ failures < MaxFailures
  /\ failures' = failures + 1
  /\ Forget
  /\ UNCHANGED <<disk, swallowed>>

\* The supervisor is stopped, to be started again.
Shutdown ==
  /\ pc = "serving"
  /\ Forget
  /\ UNCHANGED <<disk, failures, swallowed>>

Init ==
  /\ legacy \in BOOLEAN
  /\ sentinel = FALSE
  /\ backup = FALSE
  /\ exists = {}
  /\ shard = [s \in Sessions |-> {}]
  /\ index = {}
  /\ pc = "down"
  /\ todo = {} /\ cur = NoSession /\ rows = {} /\ blocks = {}
  /\ failures = 0 /\ swallowed = 0

Step ==
  \/ Boot \/ AlreadyDone \/ NoLegacy \/ Backup
  \/ CollectSessions \/ CollectBlocks
  \/ \E s \in Sessions : SkipSession(s) \/ OpenShard(s)
  \/ FetchPanes \/ CloseShard
  \/ \E p \in Panes : InsertPane(p)
  \/ RemoveIndex \/ WriteSentinel
  \/ \E b \in Blocks : AddBlock(b)

Next == Step \/ Fail \/ Shutdown

Spec     == Init /\ [][Next]_vars

-----------------------------------------------------------------------------
(* Properties *)

\* The disk and the locals of the boot keep their types; open_shard has left a
\* session to fetch the panes of.
TypeOK ==
  /\ legacy \in BOOLEAN /\ sentinel \in BOOLEAN /\ backup \in BOOLEAN
  /\ exists \subseteq Sessions
  /\ shard \in [Sessions -> SUBSET Panes]
  /\ index \subseteq Blocks
  /\ pc \in {"down", "check", "collect", "collect_blocks", "split", "fetch",
             "rebuild", "serving"}
  /\ todo \subseteq Sessions
  /\ cur \in Sessions \cup {NoSession} /\ (pc = "fetch" => cur \in Sessions)
  /\ rows \subseteq Panes
  /\ blocks \subseteq Blocks
  /\ failures \in 0..MaxFailures
  /\ swallowed \in 0..MaxSwallowed

\* The sessions whose open panes are not all in their shard.
Incomplete == {s \in Sessions : shard[s] # LegacyPanes[s]}

\* Each boot that fails costs the panes of at most one session: once the sentinel
\* is written, no more sessions are incompletely copied than boots have failed.
\* (migrate_to_hybrid skips a session whose shard exists, however little of it
\* was copied.)
LossBoundedByFailures ==
  sentinel /\ legacy /\ swallowed = 0 => Cardinality(Incomplete) <= failures

\* A sentinel stands for a complete search index, however many boots failed half
\* way through rebuild_tantivy_index.
IndexRebuilt ==
  sentinel /\ legacy /\ swallowed = 0 => index = Blocks

\* The sentinel is final: no later boot touches a shard or the index ("a sentinel
\* file ... prevents re-running").
DoneIsFinal ==
  [][sentinel => UNCHANGED <<sentinel, exists, shard, index>>]_vars

\* What the module documentation promises: "Any IO or DB failure aborts BEFORE
\* writing sentinel so retry on next boot works", so that the sentinel means that
\* every open pane was copied to the shard of its session.
SentinelMeansCopied == sentinel /\ legacy => Incomplete = {}
=============================================================================
