SPECIFICATION FairSpec
CONSTANTS
  MaxWorkers = 2
  MaxPanes = 3
  MaxShells = 2
  MaxSlot = 1
  Tasks = {1, 2}
  Scenarios <- AllScenarios
  None = None
INVARIANTS
  StablePaneId
  LivePanesPersisted
  CleanExitNotRespawned
PROPERTIES
  DeadHandleLeaves
  ShutdownEnds
CHECK_DEADLOCK FALSE
