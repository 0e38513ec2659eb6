---------------------------- MODULE SearchIndex ----------------------------
(***************************************************************************)
(* The full-text index of finished blocks across restarts of the single    *)
(* daemon (migration.rs, index.rs, main.rs, pty.rs): the schema migration  *)
(* and the backfill of a boot, and the block that a running daemon adds    *)
(* when its command ends.                                                  *)
(*                                                                         *)
(* BlockIndex lives in <index>/v3, but the schema check opens <index>      *)
(* itself, where only the indexes of schema v1 and v2 were kept: a         *)
(* directory with nothing but v3/ in it cannot be read as an index.        *)
(***************************************************************************)
EXTENDS Naturals, FiniteSets

CONSTANTS
  IndexBlocks,
  Batch,            \* BACKFILL_BATCH_SIZE
  MaxBootFailures,  \* bound on the boots that end in an error or a crash
  MaxLostAdds       \* bound on the adds that fail and are only logged

\* A store holds finitely many blocks.
ASSUME IndexBlocksAssumption == IsFiniteSet(IndexBlocks)
ASSUME BatchAssumption == Batch \in Nat \ {0}
ASSUME IndexBoundAssumption == {MaxBootFailures, MaxLostAdds} \subseteq Nat

VARIABLES
  root,       \* <index>: "absent", "v1", "v2" or "bare" (no index of its own)
  docs,       \* documents of each block committed in <index>/v3
  pend,       \* blocks added to the writer, not committed
  created,    \* rows of the blocks table
  running,    \* blocks whose command has not ended
  adding,     \* blocks handed to a spawn_blocking add_block
  bootPc,     \* where the boot is
  unindexed,  \* blocks the reindex or the backfill has not reached
  seen,       \* blocks the backfill has gone through
  history,    \* history variable: the rows found by the boot that serves
  bootFailures, lostAdds

xwork == <<running, adding>>
xvars == <<root, docs, pend, created, xwork, bootPc, unindexed, seen, history,
           bootFailures, lostAdds>>

NoDocs     == [b \in IndexBlocks |-> 0]
NumDocs    == Cardinality({b \in IndexBlocks : docs[b] > 0})
LoseAdd    == lostAdds < MaxLostAdds /\ lostAdds' = lostAdds + 1
Stored(bs) == [b \in IndexBlocks |-> docs[b] + IF b \in bs THEN 1 ELSE 0]

-----------------------------------------------------------------------------
(* maybe_migrate_tantivy_schema *)

IndexBoot ==
  /\ bootPc = "down"
  /\ bootPc' = "schema"
  /\ UNCHANGED <<root, docs, pend, created, xwork, unindexed, seen, history,
                 bootFailures, lostAdds>>

\* Mutant: the schema check looks at the v3 index that the directory holds.
SchemaCurrentAtV3 ==
  /\ bootPc = "schema"
  /\ root \in {"absent", "v2", "bare"}
  /\ bootPc' = "open"
  /\ UNCHANGED <<root, docs, pend, created, xwork, unindexed, seen, history,
                 bootFailures, lostAdds>>

\* No directory, or an index whose schema has the exit_code field.
SchemaCurrent ==
  /\ bootPc = "schema"
  /\ root \in {"absent", "v2"}
  /\ bootPc' = "open"
  /\ UNCHANGED <<root, docs, pend, created, xwork, unindexed, seen, history,
                 bootFailures, lostAdds>>

\* No exit_code field, or the index cannot be read: the directory is renamed to
\* index.bak.<time>, whatever it holds.
SetAside ==
  /\ bootPc = "schema"
  /\ root \in {"v1", "bare"}
  /\ root' = "absent"
  /\ docs' = NoDocs
  /\ bootPc' = "mkdir"
  /\ UNCHANGED <<pend, created, xwork, unindexed, seen, history, bootFailures, lostAdds>>

\* create_dir_all, BlockIndex::open and list_blocks.
Mkdir ==
  /\ bootPc = "mkdir"
  /\ root' = "bare"
  /\ unindexed' = created
  /\ bootPc' = "reindex"
  /\ UNCHANGED <<docs, pend, created, xwork, seen, history, bootFailures, lostAdds>>

\* add_block commits every block by itself; an error is only logged.
Reindex(b) ==
  /\ bootPc = "reindex"
  /\ b \in unindexed
  /\ unindexed' = unindexed \ {b}
  /\ \/ docs' = Stored({b}) /\ UNCHANGED lostAdds
     \/ docs' = docs /\ LoseAdd
  /\ UNCHANGED <<root, pend, created, xwork, bootPc, seen, history, bootFailures>>

ReindexDone ==
  /\ bootPc = "reindex"
  /\ unindexed = {}
  /\ bootPc' = "open"
  /\ UNCHANGED <<root, docs, pend, created, xwork, unindexed, seen, history,
                 bootFailures, lostAdds>>

-----------------------------------------------------------------------------
(* BlockIndex::open and backfill_index_if_empty *)

\* open creates <index>/v3 where it is missing.
OpenIndex ==
  /\ bootPc = "open"
  /\ root' = IF root = "absent" THEN "bare" ELSE root
  /\ bootPc' = "count"
  /\ UNCHANGED <<docs, pend, created, xwork, unindexed, seen, history, bootFailures, lostAdds>>

\* doc_count() > 0, or no block in the store.
NothingToBackfill ==
  /\ bootPc = "count"
  /\ NumDocs > 0 \/ created = {}
  /\ history' = created
  /\ bootPc' = "serving"
  /\ UNCHANGED <<root, docs, pend, created, xwork, unindexed, seen, bootFailures, lostAdds>>

Backfill ==
  /\ bootPc = "count"
  /\ NumDocs = 0 /\ created # {}
  /\ unindexed' = created
  /\ seen' = {}
  /\ bootPc' = "backfill"
  /\ UNCHANGED <<root, docs, pend, created, xwork, history, bootFailures, lostAdds>>

\* One block of the batch; every Batch-th one commits, unless its add failed.
\* An add that fails, and a commit that fails here, are only logged.
BackfillAdd(b) ==
  /\ bootPc = "backfill"
  /\ b \in unindexed
  /\ unindexed' = unindexed \ {b}
  /\ seen' = seen \cup {b}
  /\ \/ /\ IF Cardinality(seen') % Batch = 0
             THEN docs' = Stored(pend \cup {b}) /\ pend' = {}
             ELSE pend' = pend \cup {b} /\ UNCHANGED docs
        /\ UNCHANGED lostAdds
     \/ UNCHANGED <<docs, pend>> /\ LoseAdd
     \/ /\ Cardinality(seen') % Batch = 0
        /\ pend' = pend \cup {b} /\ UNCHANGED docs
        /\ LoseAdd
  /\ UNCHANGED <<root, created, xwork, bootPc, history, bootFailures>>

\* The final commit; then the daemon starts to accept connections.
BackfillCommit ==
  /\ bootPc = "backfill"
  /\ unindexed = {}
  /\ docs' = Stored(pend)
  /\ pend' = {}
  /\ history' = created
  /\ bootPc' = "serving"
  /\ UNCHANGED <<root, created, xwork, unindexed, seen, bootFailures, lostAdds>>

-----------------------------------------------------------------------------
(* The block pipeline of a running daemon *)

\* CommandStart: create_block.
IndexCommandStart(b) ==
  /\ bootPc = "serving"
  /\ b \notin created
  /\ created' = created \cup {b}
  /\ running' = running \cup {b}
  /\ UNCHANGED <<root, docs, pend, adding, bootPc, unindexed, seen, history,
                 bootFailures, lostAdds>>

\* BlockEnd: finalize_block, then add_block on a blocking thread nobody awaits.
IndexBlockEnd(b) ==
  /\ b \in running
  /\ running' = running \ {b}
  /\ adding' = adding \cup {b}
  /\ UNCHANGED <<root, docs, pend, created, bootPc, unindexed, seen, history,
                 bootFailures, lostAdds>>

\* The pane is gone with the block open: it is finalized and not indexed.
DrainRunning(b) ==
  /\ b \in running
  /\ running' = running \ {b}
  /\ UNCHANGED <<root, docs, pend, created, adding, bootPc, unindexed, seen, history,
                 bootFailures, lostAdds>>

IndexAddBlock(b) ==
  /\ b \in adding
  /\ adding' = adding \ {b}
  /\ \/ docs' = Stored({b}) /\ UNCHANGED lostAdds
     \/ docs' = docs /\ LoseAdd
  /\ UNCHANGED <<root, pend, created, running, bootPc, unindexed, seen, history, bootFailures>>

\* What the process holds is gone; the commits it made stay.
ProcessGone ==
  /\ bootPc' = "down"
  /\ pend' = {} /\ running' = {} /\ adding' = {} /\ unindexed' = {} /\ seen' = {}
  /\ UNCHANGED <<root, docs, created, history, lostAdds>>

\* An error out of the boot, or a crash in it.
BootFails ==
  /\ bootPc \notin {"down", "serving"}
  /\ bootFailures < MaxBootFailures
  /\ bootFailures' = bootFailures + 1
  /\ ProcessGone

\* The daemon stops or is killed, with whatever commands and adds are under way.
DaemonStops ==
  /\ bootPc = "serving"
  /\ ProcessGone
  /\ UNCHANGED bootFailures

-----------------------------------------------------------------------------
\* A first start, or an upgrade from a daemon whose index was v1 or v2.
IndexInit ==
  /\ root \in {"absent", "v1", "v2"}
  /\ created \in SUBSET IndexBlocks
  /\ docs = NoDocs
  /\ pend = {} /\ running = {} /\ adding = {}
  /\ bootPc = "down" /\ unindexed = {} /\ seen = {} /\ history = {}
  /\ bootFailures = 0 /\ lostAdds = 0

Startup ==
  \/ IndexBoot \/ SchemaCurrent \/ SetAside \/ Mkdir \/ ReindexDone
  \/ OpenIndex \/ NothingToBackfill \/ Backfill \/ BackfillCommit
  \/ \E b \in IndexBlocks : Reindex(b) \/ BackfillAdd(b)

IndexRun ==
  \E b \in IndexBlocks : IndexCommandStart(b) \/ IndexBlockEnd(b) \/ DrainRunning(b) \/ IndexAddBlock(b)

IndexNext == Startup \/ IndexRun \/ BootFails \/ DaemonStops

IndexSpec == IndexInit /\ [][IndexNext]_xvars

-----------------------------------------------------------------------------
(* Properties *)

\* A daemon that serves has indexed every block it found in the store, though
\* earlier boots may have failed in the middle of a reindex or of a backfill and
\* earlier daemons with a block running or its add outstanding.  (Not after an
\* upgrade from schema v2: there the boot never reindexes, and a backfill cut
\* short after its first commit is never taken up again.)
BootIndexesHistory ==
  bootPc = "serving" /\ root = "bare" /\ lostAdds = 0 =>
    \A b \in history : docs[b] = 1

=============================================================================
