SPECIFICATION StateSpec
CONSTANTS
  Hosts = {"worker"}
  ShellIdle = 2
  AgentIdle = 15
  BlockIdle = 5
  Grace = 1
  Window = 1
  MaxQueue = 1
  Reads = {"text", "A", "D1"}
  Foregrounds = {"shell", "agent"}
  Reports = {}
  Nothing = Nothing
PROPERTY
  ActiveNotWaiting
CHECK_DEADLOCK FALSE
