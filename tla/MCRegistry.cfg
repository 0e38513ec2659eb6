SPECIFICATION FairSpec
CONSTANTS
  Sessions = {1}
  Windows = {1, 2}
  Panes = {1, 2, 3}
  Tasks = {1, 2}
  Scenarios <- AllScenarios
  None = None
INVARIANTS
  StoredMatchesMemory
  ClosedPaneLeavesTree
  EmptySessionEvicted
PROPERTIES
  HealthyPaneStays
  DeadPaneLeaves
