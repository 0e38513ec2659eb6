SPECIFICATION MCSpec
CONSTANTS
  MaxPanes = 3
  Scenarios <- AllScenarios
  Nil = Nil
  MaxAttached = 3
  MaxText = 2
  Inputs <- AllInputs
  Absent = Absent
INVARIANTS
  ViewConsistent
  OnlyUserKillsLive
  MenuKillsItsPane
PROPERTIES
  DeadPaneLeaves
  ResultsNeverGoBack
  EscLeadsOut
CHECK_DEADLOCK FALSE
