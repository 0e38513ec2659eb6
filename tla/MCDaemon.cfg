SPECIFICATION MCSpec
CONSTANTS
  s1 = s1  s2 = s2  s3 = s3
  p1 = p1  p2 = p2  p3 = p3
  b1 = b1  b2 = b2
  Sessions     <- MCSessions
  Panes        <- MCPanes
  Blocks       <- MCBlocks
  PaneSessions <- MCPaneSessions
  LegacyPanes  <- MCLegacyPanes
  BlockSession <- MCBlockSession
  NoSession = NoSession
  MaxFailures  = 2
  MaxSwallowed = 1
  IndexBlocks = {1, 2, 3}
  Batch = 2
  MaxBootFailures = 2
  MaxLostAdds = 1
  Byte = {0, 1, 2}
  Cap = 3
  MaxChunk = 4
  Owners = {"single", "worker"}
  Connections = {1}
  RingCap = 2
  BroadcastCap = 2
  MaxChunks = 6
  Clients = {1, 2}
  SnapCap = 2
  OutCap = 1
  Loads <- MCLoads
  Nil = Nil
  Modes = {"single", "worker"}
  MaxItems = 5
  MaxEvents = 3
  MaxRefused = 1
  Hosts = {"single"}
  ShellIdle = 1
  AgentIdle = 4
  BlockIdle = 3
  Grace = 1
  Window = 1
  MaxQueue = 1
  Reads = {"text", "A", "D1"}
  Foregrounds = {"shell", "interactive", "agent"}
  Reports = {"Done"}
  Nothing = Nothing
INVARIANTS
  LossBoundedByFailures
  IndexRebuilt
  BootIndexesHistory
  NoGapInWorker
  MirrorNoGap
  NoGhostBlock
  
PROPERTIES
  DoneIsFinal
  IsReplayLog
  StreamEnds
  DeadHubLeaves
  ActiveNotWaiting
CHECK_DEADLOCK FALSE
