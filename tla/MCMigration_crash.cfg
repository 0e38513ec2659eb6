SPECIFICATION Spec
CONSTANTS
  s1 = s1  s2 = s2  s3 = s3
  p1 = p1  p2 = p2  p3 = p3
  b1 = b1  b2 = b2
  Sessions     <- MCSessions
  Panes        <- MCPanes
  Blocks       <- MCBlocks
  PaneSessions <- MCPaneSessions
  LegacyPanes  <- MCLegacyPanes
  BlockSession <- MCBlockSession
  NoSession = NoSession
  MaxFailures  = 1
  MaxSwallowed = 0
INVARIANT
  SentinelMeansCopied
