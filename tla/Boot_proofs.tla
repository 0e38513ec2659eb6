----------------------------- MODULE Boot_proofs -----------------------------
(***************************************************************************)
(* Proofs about what a boot of the daemon does to its files.               *)
(*                                                                         *)
(* The search index across boots, for any finite set of blocks, any batch  *)
(* size and any number of failed boots.                                    *)
(*                                                                         *)
(* Migration, for any legacy database and any number of boots that fail:   *)
(* its types, that the sentinel stands for a complete search index, that   *)
(* it is final, and how many sessions the failed boots cost.               *)
(***************************************************************************)
EXTENDS Migration, SearchIndex, FiniteSetTheorems, TLAPS

-----------------------------------------------------------------------------
(* The search index *)

BootPlaces ==
  {"down", "schema", "mkdir", "reindex", "open", "count", "backfill", "serving"}

\* The index, the store and the boot keep their types.
IndexTypeOK ==
  /\ root \in {"absent", "v1", "v2", "bare"}
  /\ docs \in [IndexBlocks -> Nat]
  /\ created \subseteq IndexBlocks
  /\ pend \subseteq seen
  /\ seen \subseteq created /\ unindexed \subseteq created /\ history \subseteq created
  /\ running \subseteq created /\ adding \subseteq created
  /\ bootPc \in BootPlaces
  /\ lostAdds \in Nat

\* Where <index> is not there yet, or is one of schema v1, <index>/v3 holds nothing;
\* such a directory is gone or made over before the daemon counts the documents.
NoIndexNoDocs ==
  /\ root \in {"absent", "v1"} => docs = NoDocs
  /\ root = "absent" => bootPc \in {"down", "schema", "mkdir", "open"}
  /\ root = "v1" => bootPc \in {"down", "schema"}
  /\ bootPc = "mkdir" => root = "absent"

\* Only a daemon that serves has commands and adds under way; they are of blocks
\* that the boot did not find.
WorkIsNew ==
  /\ bootPc # "serving" => running = {} /\ adding = {}
  /\ bootPc \notin {"backfill", "serving"} => pend = {}
  /\ (running \cup adding) \cap history = {}
  /\ running \cap adding = {}

\* Block by block, what the index holds: exactly the blocks of bs, once.
Holds(bs) == \A b \in IndexBlocks : docs[b] = IF b \in bs THEN 1 ELSE 0

\* How far the boot has got, if no add was lost: a reindex or a backfill has put
\* in what it is past; a count finds everything or nothing.
Progress ==
  root = "bare" /\ lostAdds = 0 =>
    /\ bootPc = "reindex" => Holds(created \ unindexed)
    /\ bootPc = "open" => Holds(created)
    /\ bootPc = "count" => Holds(created) \/ Holds({})
    /\ bootPc = "backfill" =>
         Holds(seen \ pend) /\ seen \cup unindexed = created /\ seen \cap unindexed = {}
    /\ bootPc = "serving" => \A b \in history : docs[b] = 1

IndexInv == IndexTypeOK /\ NoIndexNoDocs /\ WorkIsNew /\ Progress

\* doc_count tells an index that holds something from an empty one.
LEMMA NumDocsZero ==
  ASSUME docs \in [IndexBlocks -> Nat]
  PROVE  /\ NumDocs \in Nat
         /\ NumDocs = 0 <=> Holds({})
<1> DEFINE S == {b \in IndexBlocks : docs[b] > 0}
<1>1. IsFiniteSet(S)
  BY IndexBlocksAssumption, FS_Subset
<1>2. Cardinality(S) \in Nat
  BY <1>1, FS_CardinalityType
<1>3. Cardinality(S) = 0 <=> S = {}
  BY <1>1, FS_EmptySet
<1>4. S = {} <=> Holds({})
  BY DEF Holds
<1> QED BY <1>2, <1>3, <1>4 DEF NumDocs

\* A commit adds one document of each of its blocks.
LEMMA StoredOne ==
  ASSUME IndexTypeOK, NEW bs \in SUBSET IndexBlocks
  PROVE  /\ Stored(bs) \in [IndexBlocks -> Nat]
         /\ \A b \in IndexBlocks : Stored(bs)[b] = docs[b] + IF b \in bs THEN 1 ELSE 0
BY DEF Stored, IndexTypeOK

LEMMA EmptyIndex ==
  /\ NoDocs \in [IndexBlocks -> Nat]
  /\ docs = NoDocs => Holds({})
BY DEF NoDocs, Holds

\* An index that held bs, to which blocks not in bs are committed, holds both.
LEMMA HoldsMore ==
  ASSUME IndexTypeOK, NEW bs \in SUBSET IndexBlocks, NEW new \in SUBSET IndexBlocks,
         Holds(bs), bs \cap new = {}, docs' = Stored(new)
  PROVE  \A b \in IndexBlocks : docs'[b] = IF b \in bs \cup new THEN 1 ELSE 0
<1> SUFFICES ASSUME NEW b \in IndexBlocks
             PROVE  docs'[b] = IF b \in bs \cup new THEN 1 ELSE 0
  OBVIOUS
<1>1. docs'[b] = docs[b] + IF b \in new THEN 1 ELSE 0
  BY StoredOne
<1>2. docs[b] = IF b \in bs THEN 1 ELSE 0
  BY DEF Holds
<1> QED BY <1>1, <1>2

\* Every step of the boot keeps the invariant.
LEMMA StartupStep ==
  ASSUME IndexInv, Startup
  PROVE  IndexInv'
<1> USE DEF IndexInv, IndexTypeOK, BootPlaces, xwork
<1>1. CASE IndexBoot
  BY <1>1 DEF IndexBoot, NoIndexNoDocs, WorkIsNew, Progress, Holds, NoDocs
<1>2. CASE SchemaCurrent
  BY <1>2 DEF SchemaCurrent, NoIndexNoDocs, WorkIsNew, Progress, Holds, NoDocs
<1>3. CASE SetAside
  BY <1>3, EmptyIndex DEF SetAside, NoIndexNoDocs, WorkIsNew, Progress, NoDocs
<1>4. CASE Mkdir
  BY <1>4 DEF Mkdir, NoIndexNoDocs, WorkIsNew, Progress, Holds, NoDocs
<1>5. CASE ReindexDone
  BY <1>5 DEF ReindexDone, NoIndexNoDocs, WorkIsNew, Progress, Holds, NoDocs
<1>6. CASE OpenIndex
  BY <1>6 DEF OpenIndex, NoIndexNoDocs, WorkIsNew, Progress, Holds, NoDocs
<1>7. CASE NothingToBackfill
  <2>1. Holds({}) => created = {}
    BY <1>7, NumDocsZero DEF NothingToBackfill
  <2>2. Progress'
    BY <1>7, <2>1 DEF NothingToBackfill, Progress, Holds
  <2> QED BY <1>7, <2>2 DEF NothingToBackfill, NoIndexNoDocs, WorkIsNew, NoDocs
<1>8. CASE Backfill
  <2>1. Holds({})
    BY <1>8, NumDocsZero DEF Backfill
  <2>2. Progress'
    BY <1>8, <2>1 DEF Backfill, Progress, WorkIsNew, Holds
  <2> QED BY <1>8, <2>2 DEF Backfill, NoIndexNoDocs, WorkIsNew, NoDocs
<1>9. CASE BackfillCommit
  <2>1. pend \in SUBSET IndexBlocks /\ seen \ pend \in SUBSET IndexBlocks
    OBVIOUS
  <2>2. ASSUME root = "bare", lostAdds = 0
        PROVE  \A b \in created : docs'[b] = 1
    <3>1. Holds(seen \ pend) /\ seen = created
      BY <1>9, <2>2 DEF BackfillCommit, Progress
    <3>2. \A b \in IndexBlocks : docs'[b] = IF b \in (seen \ pend) \cup pend THEN 1 ELSE 0
      BY <1>9, <2>1, <3>1, HoldsMore DEF BackfillCommit
    <3> QED BY <3>1, <3>2
  <2>3. docs' \in [IndexBlocks -> Nat]
    BY <1>9, <2>1, StoredOne DEF BackfillCommit
  <2> QED BY <1>9, <2>2, <2>3 DEF BackfillCommit, NoIndexNoDocs, WorkIsNew, Progress
<1>10. ASSUME NEW b \in IndexBlocks, Reindex(b)
       PROVE  IndexInv'
  <2>1. docs' \in [IndexBlocks -> Nat]
    BY <1>10, StoredOne DEF Reindex
  <2>2. ASSUME root' = "bare", lostAdds' = 0
        PROVE  Holds(created \ unindexed)'
    <3>1. docs' = Stored({b}) /\ lostAdds = 0
      BY <1>10, <2>2 DEF Reindex, LoseAdd
    <3>2. Holds(created \ unindexed)
      BY <1>10, <2>2, <3>1 DEF Reindex, Progress
    <3>3. \A x \in IndexBlocks : docs'[x] = IF x \in (created \ unindexed) \cup {b} THEN 1 ELSE 0
      BY <1>10, <3>1, <3>2, HoldsMore DEF Reindex
    <3>4. (created \ unindexed) \cup {b} = created' \ unindexed'
      BY <1>10 DEF Reindex
    <3> QED BY <3>3, <3>4 DEF Holds
  <2>3. lostAdds' \in Nat
    BY <1>10 DEF Reindex, LoseAdd
  <2> QED BY <1>10, <2>1, <2>2, <2>3 DEF Reindex, NoIndexNoDocs, WorkIsNew, Progress
<1>11. ASSUME NEW b \in IndexBlocks, BackfillAdd(b)
       PROVE  IndexInv'
  <2>1. /\ pend \cup {b} \in SUBSET IndexBlocks /\ seen \ pend \in SUBSET IndexBlocks
        /\ root \notin {"absent", "v1"}
    BY <1>11 DEF BackfillAdd, NoIndexNoDocs
  <2>2. /\ docs' \in [IndexBlocks -> Nat] /\ lostAdds' \in Nat
        /\ pend' \subseteq seen' /\ seen' \subseteq created'
    BY <1>11, <2>1, StoredOne DEF BackfillAdd, LoseAdd
  <2>3. ASSUME root' = "bare", lostAdds' = 0
        PROVE  /\ Holds(seen \ pend)'
               /\ seen' \cup unindexed' = created' /\ seen' \cap unindexed' = {}
    <3>1. /\ lostAdds = 0 /\ b \in unindexed /\ seen' = seen \cup {b}
          /\ unindexed' = unindexed \ {b} /\ created' = created
          /\ \/ docs' = Stored(pend \cup {b}) /\ pend' = {}
             \/ pend' = pend \cup {b} /\ docs' = docs
      BY <1>11, <2>3 DEF BackfillAdd, LoseAdd
    <3>2. /\ Holds(seen \ pend) /\ seen \cup unindexed = created
          /\ seen \cap unindexed = {}
      BY <1>11, <2>3, <3>1 DEF BackfillAdd, Progress
    <3>3. CASE docs' = Stored(pend \cup {b}) /\ pend' = {}
      <4>1. (seen \ pend) \cap (pend \cup {b}) = {}
        BY <3>1, <3>2
      <4>2. \A x \in IndexBlocks :
              docs'[x] = IF x \in (seen \ pend) \cup (pend \cup {b}) THEN 1 ELSE 0
        BY <2>1, <3>2, <3>3, <4>1, HoldsMore
      <4>3. (seen \ pend) \cup (pend \cup {b}) = seen' \ pend'
        BY <3>1, <3>3
      <4> QED BY <3>1, <3>2, <4>2, <4>3 DEF Holds
    <3>4. CASE pend' = pend \cup {b} /\ docs' = docs
      <4>1. seen' \ pend' = seen \ pend
        BY <3>1, <3>2, <3>4
      <4> QED BY <3>1, <3>2, <3>4, <4>1 DEF Holds
    <3> QED BY <3>1, <3>3, <3>4
  <2>4. /\ bootPc' = "backfill" /\ bootPc = "backfill" /\ root' = root /\ created' = created
        /\ history' = history /\ running' = running /\ adding' = adding
        /\ unindexed' \subseteq created
    BY <1>11 DEF BackfillAdd
  <2>5. NoIndexNoDocs' /\ WorkIsNew' /\ Progress'
    BY <2>1, <2>3, <2>4 DEF NoIndexNoDocs, WorkIsNew, Progress
  <2> QED BY <2>2, <2>4, <2>5
<1> QED
  BY <1>1, <1>2, <1>3, <1>4, <1>5, <1>6, <1>7, <1>8, <1>9, <1>10, <1>11 DEF Startup

\* So does what a daemon that serves does, and its end.
LEMMA ServingStep ==
  ASSUME IndexInv, IndexRun \/ BootFails \/ DaemonStops
  PROVE  IndexInv'
<1> USE DEF IndexInv, IndexTypeOK, BootPlaces, xwork
<1>1. ASSUME NEW b \in IndexBlocks, IndexCommandStart(b)
      PROVE  IndexInv'
  BY <1>1 DEF IndexCommandStart, NoIndexNoDocs, WorkIsNew, Progress, Holds, NoDocs
<1>2. ASSUME NEW b \in IndexBlocks, IndexBlockEnd(b) \/ DrainRunning(b)
      PROVE  IndexInv'
  BY <1>2 DEF IndexBlockEnd, DrainRunning, NoIndexNoDocs, WorkIsNew, Progress, Holds, NoDocs
<1>3. ASSUME NEW b \in IndexBlocks, IndexAddBlock(b)
      PROVE  IndexInv'
  <2>1. /\ bootPc = "serving" /\ b \notin history
        /\ root \notin {"absent", "v1"}
    BY <1>3 DEF IndexAddBlock, WorkIsNew, NoIndexNoDocs
  <2>2. /\ docs' \in [IndexBlocks -> Nat] /\ lostAdds' \in Nat
        /\ lostAdds' = 0 => lostAdds = 0
        /\ \A x \in history : docs'[x] = docs[x]
    BY <1>3, <2>1, StoredOne DEF IndexAddBlock, LoseAdd
  <2> QED BY <1>3, <2>1, <2>2 DEF IndexAddBlock, NoIndexNoDocs, WorkIsNew, Progress
<1>4. CASE BootFails \/ DaemonStops
  BY <1>4 DEF BootFails, DaemonStops, ProcessGone, NoIndexNoDocs, WorkIsNew, Progress, NoDocs
<1> QED BY <1>1, <1>2, <1>3, <1>4 DEF IndexRun

\* The inductive invariant of the index.
THEOREM IndexSound == IndexSpec => []IndexInv
<1>1. IndexInit => IndexInv
  BY EmptyIndex
  DEF IndexInit, IndexInv, IndexTypeOK, BootPlaces, NoIndexNoDocs, WorkIsNew, Progress
<1>2. IndexInv /\ [IndexNext]_xvars => IndexInv'
  <2> SUFFICES ASSUME IndexInv, [IndexNext]_xvars PROVE IndexInv'
    OBVIOUS
  <2>1. CASE IndexNext
    BY <2>1, StartupStep, ServingStep DEF IndexNext
  <2>2. CASE UNCHANGED xvars
    BY <2>2 DEF xvars, xwork, IndexInv, IndexTypeOK, BootPlaces, NoIndexNoDocs, WorkIsNew,
       Progress, Holds, NoDocs
  <2> QED BY <2>1, <2>2
<1> QED BY <1>1, <1>2, PTL DEF IndexSpec

\* A daemon that serves has indexed every block it found in the store, whatever
\* boots before it failed in a reindex or a backfill (index.rs, migration.rs).
THEOREM BootIndexes == IndexSpec => []BootIndexesHistory
<1>1. IndexInv => BootIndexesHistory
  BY DEF IndexInv, Progress, BootIndexesHistory
<1> QED BY <1>1, IndexSound, PTL

-----------------------------------------------------------------------------
(* The migration to the hybrid layout *)

USE DEF BlockSessions

-----------------------------------------------------------------------------
LEMMA TypeInit == Init => TypeOK
<1> SUFFICES ASSUME Init PROVE TypeOK
  OBVIOUS
<1>1. legacy \in BOOLEAN /\ sentinel \in BOOLEAN /\ backup \in BOOLEAN
  BY Zenon DEF Init
<1>2. failures \in 0..MaxFailures /\ swallowed \in 0..MaxSwallowed
  BY BoundAssumption DEF Init
<1> QED
  BY <1>1, <1>2 DEF Init, TypeOK

LEMMA TypeStep == TypeOK /\ [Next]_vars => TypeOK'
<1> SUFFICES ASSUME TypeOK, [Next]_vars PROVE TypeOK'
  OBVIOUS
<1> USE LegacyAssumption, BoundAssumption DEF TypeOK, disk, Swallow
<1>1. CASE Boot
  BY <1>1 DEF Boot
<1>2. CASE AlreadyDone
  BY <1>2 DEF AlreadyDone
<1>3. CASE NoLegacy
  BY <1>3 DEF NoLegacy
<1>4. CASE Backup
  BY <1>4 DEF Backup
<1>5. CASE CollectSessions
  BY <1>5 DEF CollectSessions
<1>6. CASE CollectBlocks
  BY <1>6 DEF CollectBlocks
<1>7. ASSUME NEW s \in Sessions, SkipSession(s) PROVE TypeOK'
  BY <1>7 DEF SkipSession
<1>8. ASSUME NEW s \in Sessions, OpenShard(s) PROVE TypeOK'
  BY <1>8 DEF OpenShard
<1>9. CASE FetchPanes
  \* A shard is only open for a session of the database.
  <2>1. rows' \subseteq Panes
    BY <1>9 DEF FetchPanes
  <2> QED
    BY <1>9, <2>1 DEF FetchPanes
<1>10. CASE CloseShard
  BY <1>10 DEF CloseShard
<1>11. ASSUME NEW p \in Panes, InsertPane(p) PROVE TypeOK'
  BY <1>11 DEF InsertPane
<1>12. CASE RemoveIndex
  BY <1>12 DEF RemoveIndex
<1>13. CASE WriteSentinel
  BY <1>13 DEF WriteSentinel
<1>14. ASSUME NEW b \in Blocks, AddBlock(b) PROVE TypeOK'
  BY <1>14 DEF AddBlock
<1>15. CASE Fail
  BY <1>15 DEF Fail, Forget
<1>16. CASE Shutdown
  BY <1>16 DEF Shutdown, Forget
<1>17. CASE UNCHANGED vars
  BY <1>17 DEF vars, boot
<1> QED
  BY <1>1, <1>2, <1>3, <1>4, <1>5, <1>6, <1>7, <1>8, <1>9, <1>10, <1>11, <1>12,
     <1>13, <1>14, <1>15, <1>16, <1>17 DEF Next, Step

\* The variables of Migration keep their types whatever the legacy database holds
\* and however often migrate_to_hybrid is cut short.
THEOREM TypeCorrect == Spec => []TypeOK
  BY TypeInit, TypeStep, PTL DEF Spec

-----------------------------------------------------------------------------
(* The sentinel                                                            *)
(*                                                                         *)
(* IndexRebuilt is not inductive: it says nothing of the boot that is      *)
(* under way.  While that boot collects and copies, every block is still   *)
(* to be added (AllToAdd); while it rebuilds, a block is in the index or   *)
(* still to be added (AddedOrToAdd).  A boot that is under way has found   *)
(* no sentinel (Unfinished), so a rebuild never spoils a finished one.     *)

Unfinished == sentinel => pc \in {"down", "check", "serving"}
AllToAdd ==
  swallowed = 0 /\ pc \in {"split", "fetch"} => blocks = Blocks
AddedOrToAdd ==
  swallowed = 0 /\ pc = "rebuild" => index \cup blocks = Blocks

\* The inductive invariant behind IndexRebuilt and DoneIsFinal.
SentinelInv ==
  /\ TypeOK
  /\ Unfinished
  /\ AllToAdd
  /\ AddedOrToAdd
  /\ IndexRebuilt

LEMMA SentinelInit == Init => SentinelInv
  BY TypeInit
  DEF Init, SentinelInv, Unfinished, AllToAdd, AddedOrToAdd, IndexRebuilt

LEMMA SentinelStep == SentinelInv /\ [Next]_vars => SentinelInv'
<1> SUFFICES ASSUME SentinelInv, [Next]_vars PROVE SentinelInv'
  OBVIOUS
<1>0. TypeOK'
  BY TypeStep DEF SentinelInv
<1> DEFINE Rest == Unfinished /\ AllToAdd /\ AddedOrToAdd /\ IndexRebuilt
<1>r. Rest /\ TypeOK
  BY DEF SentinelInv
<1> HIDE DEF Rest
<1> SUFFICES Rest'
  BY <1>0 DEF SentinelInv, Rest
<1> USE <1>r DEF Rest, Unfinished, AllToAdd, AddedOrToAdd, IndexRebuilt, disk
<1>1. CASE Boot
  BY <1>1 DEF Boot
<1>2. CASE AlreadyDone
  BY <1>2 DEF AlreadyDone
<1>3. CASE NoLegacy
  BY <1>3 DEF NoLegacy
<1>4. CASE Backup
  BY <1>4 DEF Backup
<1>5. CASE CollectSessions
  BY <1>5 DEF CollectSessions, Swallow
<1>6. CASE CollectBlocks
  <2>1. swallowed' = 0 => blocks' = Blocks
    BY <1>6 DEF CollectBlocks, Swallow, TypeOK
  <2> QED
    BY <1>6, <2>1 DEF CollectBlocks
<1>7. ASSUME NEW s \in Sessions, SkipSession(s) PROVE Rest'
  BY <1>7 DEF SkipSession
<1>8. ASSUME NEW s \in Sessions, OpenShard(s) PROVE Rest'
  BY <1>8 DEF OpenShard
<1>9. CASE FetchPanes
  \* A swallowed error leaves swallowed > 0, and the invariant has nothing to say.
  <2>1. swallowed' = 0 => swallowed = 0
    BY <1>9 DEF FetchPanes, Swallow, TypeOK
  <2> QED
    BY <1>9, <2>1 DEF FetchPanes
<1>10. CASE CloseShard
  BY <1>10 DEF CloseShard
<1>11. ASSUME NEW p \in Panes, InsertPane(p) PROVE Rest'
  BY <1>11 DEF InsertPane
<1>12. CASE RemoveIndex
  \* The index is emptied while every block is still to be added.
  BY <1>12 DEF RemoveIndex
<1>13. CASE WriteSentinel
  <2>1. swallowed = 0 => index = Blocks
    BY <1>13 DEF WriteSentinel
  <2> QED
    BY <1>13, <2>1 DEF WriteSentinel
<1>14. ASSUME NEW b \in Blocks, AddBlock(b) PROVE Rest'
  <2>1. swallowed' = 0 => swallowed = 0 /\ index' = index \cup {b}
    BY <1>14 DEF AddBlock, Swallow, TypeOK
  <2>2. swallowed' = 0 => index' \cup blocks' = Blocks
    BY <1>14, <2>1 DEF AddBlock
  <2> QED
    BY <1>14, <2>2 DEF AddBlock
<1>15. CASE Fail
  BY <1>15 DEF Fail, Forget
<1>16. CASE Shutdown
  BY <1>16 DEF Shutdown, Forget
<1>17. CASE UNCHANGED vars
  BY <1>17 DEF vars, boot
<1> QED
  BY <1>1, <1>2, <1>3, <1>4, <1>5, <1>6, <1>7, <1>8, <1>9, <1>10, <1>11, <1>12,
     <1>13, <1>14, <1>15, <1>16, <1>17 DEF Next, Step

\* When migrate_to_hybrid has written its sentinel and no error was passed over,
\* every block of the legacy database is in the search index, however many boots
\* were cut short before.
THEOREM SentinelIndex == Spec => []IndexRebuilt
<1>1. SentinelInv => IndexRebuilt
  BY DEF SentinelInv
<1> QED
  BY SentinelInit, SentinelStep, <1>1, PTL DEF Spec

\* No boot after the one that wrote the sentinel changes a shard or the index, or
\* removes the sentinel.
THEOREM SentinelFinal == Spec => DoneIsFinal
<1>1. SentinelInv /\ [Next]_vars
        => [sentinel => UNCHANGED <<sentinel, exists, shard, index>>]_vars
  <2> SUFFICES ASSUME Unfinished, Next, sentinel
               PROVE  UNCHANGED <<sentinel, exists, shard, index>>
    BY DEF SentinelInv
  <2> USE DEF Unfinished, disk
  <2>1. CASE Boot \/ AlreadyDone \/ NoLegacy \/ Backup
    BY <2>1 DEF Boot, AlreadyDone, NoLegacy, Backup
  <2>2. CASE CollectSessions \/ CollectBlocks \/ FetchPanes \/ CloseShard
    BY <2>2 DEF CollectSessions, CollectBlocks, FetchPanes, CloseShard
  <2>3. CASE RemoveIndex \/ WriteSentinel
    BY <2>3 DEF RemoveIndex, WriteSentinel
  <2>4. ASSUME NEW s \in Sessions, SkipSession(s) \/ OpenShard(s)
        PROVE  UNCHANGED <<sentinel, exists, shard, index>>
    BY <2>4 DEF SkipSession, OpenShard
  <2>5. ASSUME NEW p \in Panes, InsertPane(p)
        PROVE  UNCHANGED <<sentinel, exists, shard, index>>
    BY <2>5 DEF InsertPane
  <2>6. ASSUME NEW b \in Blocks, AddBlock(b)
        PROVE  UNCHANGED <<sentinel, exists, shard, index>>
    BY <2>6 DEF AddBlock
  <2>7. CASE Fail \/ Shutdown
    BY <2>7 DEF Fail, Shutdown
  <2> QED
    BY <2>1, <2>2, <2>3, <2>4, <2>5, <2>6, <2>7 DEF Next, Step
<1> QED
  BY SentinelInit, SentinelStep, <1>1, PTL DEF Spec, DoneIsFinal
-----------------------------------------------------------------------------
(* What the failed boots cost                                              *)
(*                                                                         *)
(* A boot leaves a shard incomplete only when it ends while it fills that  *)
(* one: every other shard that exists was closed with all its rows, or was *)
(* left behind by an earlier boot (Broken).  A boot that gets as far as    *)
(* the sentinel has reached every session with panes (Reached).            *)

\* The shards that were left incomplete.
Broken == {s \in exists : s # cur /\ shard[s] # LegacyPanes[s]}
BrokenBound ==
  swallowed = 0 => IsFiniteSet(Broken) /\ Cardinality(Broken) <= failures

\* Only an open shard is being filled, and a shard has no rows before it is opened.
Filling ==
  /\ pc \notin {"split", "fetch"} => cur = NoSession
  /\ cur # NoSession => cur \in exists
  /\ \A s \in Sessions : s \notin exists => shard[s] = {}

\* What the current shard lacks is still to be inserted.
CurrentRows ==
  swallowed = 0 /\ cur # NoSession =>
    /\ pc = "fetch" => shard[cur] = {}
    /\ pc = "split" => shard[cur] \cup rows = LegacyPanes[cur]

\* A session with panes has a shard or is still to come.
Reached ==
  swallowed = 0 =>
    /\ pc \in {"collect_blocks", "split", "fetch"} => PaneSessions \subseteq exists \cup todo
    /\ pc = "rebuild" \/ (sentinel /\ legacy) => PaneSessions \subseteq exists

LossInv == TypeOK /\ Unfinished /\ Filling /\ CurrentRows /\ Reached /\ BrokenBound

LEMMA LossInit == Init => LossInv
<1> SUFFICES ASSUME Init PROVE LossInv
  OBVIOUS
<1>1. TypeOK /\ Unfinished /\ Filling /\ CurrentRows /\ Reached
  BY TypeInit DEF Init, Unfinished, Filling, CurrentRows, Reached
<1>2. Broken = {}
  BY DEF Init, Broken
<1>3. IsFiniteSet(Broken) /\ Cardinality(Broken) = 0 /\ failures = 0
  BY <1>2, FS_EmptySet DEF Init
<1> QED BY <1>1, <1>3 DEF LossInv, BrokenBound

\* Every step keeps the bookkeeping of the boot.
LEMMA LossSteps ==
  ASSUME LossInv, [Next]_vars
  PROVE  Unfinished' /\ Filling' /\ CurrentRows' /\ Reached'
<1> DEFINE Rest == Unfinished /\ Filling /\ CurrentRows /\ Reached
<1>r. Rest /\ TypeOK
  BY DEF LossInv
<1> HIDE DEF Rest
<1> SUFFICES Rest'
  BY DEF Rest
<1> USE <1>r, NoneAssumption, LegacyAssumption
    DEF Rest, Unfinished, Filling, CurrentRows, Reached, disk, TypeOK
<1>1. CASE Boot \/ AlreadyDone \/ NoLegacy \/ Backup
  BY <1>1 DEF Boot, AlreadyDone, NoLegacy, Backup
<1>5. CASE CollectSessions
  BY <1>5 DEF CollectSessions, Swallow
<1>6. CASE CollectBlocks
  BY <1>6 DEF CollectBlocks, Swallow
<1>7. ASSUME NEW s \in Sessions, SkipSession(s) PROVE Rest'
  BY <1>7 DEF SkipSession
<1>8. ASSUME NEW s \in Sessions, OpenShard(s) PROVE Rest'
  BY <1>8 DEF OpenShard
<1>9. CASE FetchPanes
  BY <1>9 DEF FetchPanes, Swallow
<1>10. CASE CloseShard
  BY <1>10 DEF CloseShard
<1>11. ASSUME NEW p \in Panes, InsertPane(p) PROVE Rest'
  <2>1. cur \in Sessions /\ cur \in exists
    BY <1>11 DEF InsertPane
  <2>2. shard'[cur] \cup rows' = shard[cur] \cup rows
    BY <1>11, <2>1 DEF InsertPane
  <2>3. \A s \in Sessions : s \notin exists => shard'[s] = shard[s]
    BY <1>11, <2>1 DEF InsertPane
  <2> QED BY <1>11, <2>1, <2>2, <2>3 DEF InsertPane
<1>12. CASE RemoveIndex
  BY <1>12 DEF RemoveIndex
<1>13. CASE WriteSentinel
  BY <1>13 DEF WriteSentinel
<1>14. ASSUME NEW b \in Blocks, AddBlock(b) PROVE Rest'
  BY <1>14 DEF AddBlock, Swallow
<1>15. CASE Fail \/ Shutdown
  BY <1>15 DEF Fail, Shutdown, Forget
<1>17. CASE UNCHANGED vars
  BY <1>17 DEF vars, boot
<1> QED
  BY <1>1, <1>5, <1>6, <1>7, <1>8, <1>9, <1>10, <1>11, <1>12, <1>13, <1>14, <1>15, <1>17
  DEF Next, Step

\* A boot that fails leaves at most the shard it was filling incomplete; no other
\* step leaves one.
LEMMA BrokenStep ==
  ASSUME LossInv, [Next]_vars
  PROVE  BrokenBound'
<1> USE DEF LossInv, disk
<1>0. swallowed' = 0 => swallowed = 0
  BY DEF Next, Step, Boot, AlreadyDone, NoLegacy, Backup, CollectSessions, CollectBlocks,
         SkipSession, OpenShard, FetchPanes, CloseShard, InsertPane, RemoveIndex,
         WriteSentinel, AddBlock, Fail, Shutdown, Swallow, TypeOK, vars
<1> SUFFICES ASSUME swallowed = 0
             PROVE  IsFiniteSet(Broken') /\ Cardinality(Broken') <= failures'
  BY <1>0 DEF BrokenBound
<1>1. IsFiniteSet(Broken) /\ Cardinality(Broken) <= failures /\ failures \in Nat
  BY BoundAssumption DEF BrokenBound, TypeOK
<1>2. ASSUME Broken' = Broken, failures' = failures
      PROVE  IsFiniteSet(Broken') /\ Cardinality(Broken') <= failures'
  BY <1>1, <1>2
<1>3. CASE UNCHANGED <<exists, shard, cur, failures>>
  BY <1>2, <1>3 DEF Broken
<1>4. ASSUME NEW s \in Sessions, OpenShard(s)
      PROVE  IsFiniteSet(Broken') /\ Cardinality(Broken') <= failures'
  <2>1. Broken' = Broken
    BY <1>4, NoneAssumption DEF OpenShard, Broken, TypeOK, Filling
  <2> QED BY <1>2, <1>4, <2>1 DEF OpenShard
<1>5. CASE CloseShard
  <2>1. shard[cur] = LegacyPanes[cur]
    BY <1>5 DEF CloseShard, CurrentRows
  <2>2. Broken' = Broken
    BY <1>5, <2>1, NoneAssumption DEF CloseShard, Broken, TypeOK
  <2> QED BY <1>2, <1>5, <2>2 DEF CloseShard
<1>6. ASSUME NEW p \in Panes, InsertPane(p)
      PROVE  IsFiniteSet(Broken') /\ Cardinality(Broken') <= failures'
  <2>1. Broken' = Broken
    BY <1>6 DEF InsertPane, Broken, TypeOK
  <2> QED BY <1>2, <1>6, <2>1 DEF InsertPane
<1>7. CASE Fail
  <2>1. Broken' \subseteq Broken \cup {cur} /\ failures' = failures + 1
    BY <1>7 DEF Fail, Forget, Broken
  <2>2. IsFiniteSet(Broken \cup {cur}) /\ Cardinality(Broken \cup {cur}) <= Cardinality(Broken) + 1
    BY <1>1, FS_AddElement, FS_CardinalityType
  <2>3. IsFiniteSet(Broken') /\ Cardinality(Broken') <= Cardinality(Broken \cup {cur})
    BY <2>1, <2>2, FS_Subset
  <2>4. /\ Cardinality(Broken) \in Nat /\ Cardinality(Broken') \in Nat
        /\ Cardinality(Broken \cup {cur}) \in Nat
    BY <1>1, <2>2, <2>3, FS_CardinalityType
  <2> QED BY <1>1, <2>1, <2>2, <2>3, <2>4
<1>8. CASE Shutdown
  <2>1. Broken' = Broken
    BY <1>8 DEF Shutdown, Forget, Broken, Filling
  <2> QED BY <1>2, <1>8, <2>1 DEF Shutdown
<1> QED
  BY <1>3, <1>4, <1>5, <1>6, <1>7, <1>8
  DEF Next, Step, Boot, AlreadyDone, NoLegacy, Backup, CollectSessions, CollectBlocks,
      SkipSession, FetchPanes, RemoveIndex, WriteSentinel, AddBlock, vars, boot

\* A sentinel that was written without a passed-over error stands for all but as
\* many sessions as boots have failed: for any legacy database, each boot that is
\* cut short costs the panes of at most one session.
THEOREM SentinelLoss == Spec => []LossBoundedByFailures
<1>1. LossInv /\ [Next]_vars => LossInv'
  BY TypeStep, LossSteps, BrokenStep DEF LossInv
<1>2. LossInv => LossBoundedByFailures
  <2> SUFFICES ASSUME LossInv, sentinel, legacy, swallowed = 0
               PROVE  Cardinality(Incomplete) <= failures
    BY DEF LossBoundedByFailures
  <2>1. Incomplete \subseteq Broken
    <3> SUFFICES ASSUME NEW s \in Sessions, shard[s] # LegacyPanes[s] PROVE s \in Broken
      BY DEF Incomplete
    <3>1. cur = NoSession /\ s # cur
      BY NoneAssumption DEF LossInv, Unfinished, Filling
    <3>2. s \in exists
      BY LegacyAssumption DEF LossInv, Filling, Reached
    <3> QED BY <3>1, <3>2 DEF Broken
  <2>2. IsFiniteSet(Broken) /\ Cardinality(Broken) <= failures /\ failures \in Nat
    BY BoundAssumption DEF LossInv, BrokenBound, TypeOK
  <2>3. IsFiniteSet(Incomplete) /\ Cardinality(Incomplete) <= Cardinality(Broken)
    BY <2>1, <2>2, FS_Subset
  <2>4. Cardinality(Incomplete) \in Nat /\ Cardinality(Broken) \in Nat
    BY <2>2, <2>3, FS_CardinalityType
  <2> QED BY <2>2, <2>3, <2>4
<1> QED BY LossInit, <1>1, <1>2, PTL DEF Spec
=============================================================================
