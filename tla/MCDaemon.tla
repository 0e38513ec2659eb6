------------------------------ MODULE MCDaemon ------------------------------
(***************************************************************************)
(* Parts of the daemons that share no state, in one run: the migration,    *)
(* the search index, the replay buffer, the output stream of a pane, the   *)
(* mirror hub, the block pipeline and the state tracker.  A behaviour is   *)
(* one of the active part; the others rest in an initial state of theirs,  *)
(* the migration in that of a daemon that has nothing to migrate.          *)
(***************************************************************************)
EXTENDS MCMigration, SearchIndex, RingBuf, Stream, Mirror, Blocks, PaneState

VARIABLES active

MCLoads == {[frames |-> 3, keys |-> 0], [frames |-> 0, keys |-> 2]}

rbv == <<ring, input>>

all == <<active, vars, xvars, rbv, svars, mvars, bvars, pvars>>

-----------------------------------------------------------------------------
MigrationRests == legacy = FALSE
IndexRests     == root = "absent" /\ created = {}
StreamRests    == owner = "single"
MirrorRests    == load.keys = 0
BlocksRest     == mode = "single"

MCInit ==
  /\ Init /\ IndexInit /\ RingInit /\ StreamInit /\ MirrorInit /\ BlocksInit /\ StateInit
  /\ active \in {"migration", "index", "ring", "stream", "mirror", "blocks", "state"}
  /\ active # "migration" => MigrationRests
  /\ active # "index" => IndexRests
  /\ active # "stream" => StreamRests
  /\ active # "mirror" => MirrorRests
  /\ active # "blocks" => BlocksRest

MigrationStep ==
  active = "migration" /\ Next /\ UNCHANGED <<active, xvars, rbv, svars, mvars, bvars, pvars>>
IndexStep ==
  active = "index" /\ IndexNext /\ UNCHANGED <<active, vars, rbv, svars, mvars, bvars, pvars>>
RingStep ==
  active = "ring" /\ RingNext /\ UNCHANGED <<active, vars, xvars, svars, mvars, bvars, pvars>>
StreamStep ==
  active = "stream" /\ StreamNext /\ UNCHANGED <<active, vars, xvars, rbv, mvars, bvars, pvars>>
MirrorStep ==
  active = "mirror" /\ MirrorNext /\ UNCHANGED <<active, vars, xvars, rbv, svars, bvars, pvars>>
BlocksStep ==
  active = "blocks" /\ BlocksNext /\ UNCHANGED <<active, vars, xvars, rbv, svars, mvars, pvars>>
StateStep ==
  active = "state" /\ StateNext /\ UNCHANGED <<active, vars, xvars, rbv, svars, mvars, bvars>>

MCNext ==
  \/ MigrationStep \/ IndexStep \/ RingStep \/ StreamStep
  \/ MirrorStep \/ BlocksStep \/ StateStep

\* The tasks of the active part run: the reader thread broadcasts, the
\* connections follow, the hubs forward.
Serve ==
  \/ /\ active = "stream" /\ (ReaderSend \/ \E c \in Connections : Follow(c))
     /\ UNCHANGED <<active, vars, xvars, rbv, mvars, bvars, pvars>>
  \/ /\ active = "mirror" /\ (\E h \in Clients : HubStep(h))
     /\ UNCHANGED <<active, vars, xvars, rbv, svars, bvars, pvars>>
Attach ==
  /\ active = "mirror" /\ (\E c \in Clients : ConnStep(c))
  /\ UNCHANGED <<active, vars, xvars, rbv, svars, bvars, pvars>>

MCSpec == MCInit /\ [][MCNext]_all /\ WF_all(Serve) /\ WF_all(Attach)

-----------------------------------------------------------------------------
\* When the pane is over, every connection to it ends: "giving clients EOF"
\* (pty.rs, stream.rs, worker.rs).
StreamEnds == []<>(PaneOver => \A c \in Connections : stage[c] # "live")
=============================================================================
