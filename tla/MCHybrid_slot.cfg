SPECIFICATION Spec
CONSTANTS
  MaxWorkers = 2
  MaxPanes = 3
  MaxShells = 3
  MaxSlot = 1
  Tasks = {1, 2}
  Scenarios <- Crashes
  None = None
INVARIANTS
  SlotIsFree
CHECK_DEADLOCK FALSE
