SPECIFICATION Spec
CONSTANTS
  Clients = {c1}
  Slots = {h1, h2}
  N = 2
  None = None
  MaxSessions = 1
  MaxLost = 0
  MaxCrashes = 0
  MaxFaults = 0
  StorageFails = FALSE
  CancelAllowed = FALSE
  Expiry = FALSE
SYMMETRY Symmetry
INVARIANT
  DoneIsNotAnError
CHECK_DEADLOCK FALSE
