SPECIFICATION Spec
CONSTANTS
  Nil = Nil
  MaxWindows = 3
  MaxPanes = 4
  Scripts <- AllScripts
  None = None
  Null = Null
  Reqs = {r1, r2}
  MaxMcpSessions = 2
  MaxMcpPanes = 2
  MaxOut = 1
  MaxGpuPanes = 3
  MaxChunks = 1
  MaxQueries = 2
  MaxCommands = 4
  MaxVisible = 1
CONSTRAINTS NotStale NotEnded Apart
SYMMETRY AnyOrder
INVARIANTS RailConverges LivePanesServed RunReportsOwnBlock NoAnswerLost LayoutConverges ResultsOfLastQuery
CHECK_DEADLOCK FALSE
