SPECIFICATION Spec
CONSTANTS
  Clients = {c1, c2}
  Slots = {h1, h2}
  N = 2
  None = None
  MaxSessions = 2
  MaxLost = 0
  MaxCrashes = 0
  MaxFaults = 0
  StorageFails = FALSE
  CancelAllowed = FALSE
  Expiry = FALSE
SYMMETRY Symmetry
INVARIANT
  OneSessionPerToken
CHECK_DEADLOCK FALSE
