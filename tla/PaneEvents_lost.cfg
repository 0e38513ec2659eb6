SPECIFICATION Spec
CONSTANTS
  Emitters = {e1, e2}
  Clients = {c1}
  RingCap = 3
  MaxSeq = 3
  MaxFails = 0
  MaxRestarts = 0
INVARIANTS
  NoEventPermanentlyLost
