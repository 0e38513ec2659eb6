SPECIFICATION FairSpec
CONSTANTS
  Emitters = {e1, e2}
  Clients = {c1}
  RingCap = 2
  MaxSeq = 4
  MaxFails = 1
  MaxRestarts = 1
INVARIANTS
  NoGapWhileWaiting
  NothingLostInOrder
PROPERTIES
  CursorNeverGoesBack
  EveryEventDelivered
