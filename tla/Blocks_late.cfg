SPECIFICATION BlocksSpec
CONSTANTS
  Modes = {"worker"}
  MaxItems = 3
  MaxEvents = 3
  MaxRefused = 0
INVARIANT
  NoOrphanedBlocks
CHECK_DEADLOCK FALSE
