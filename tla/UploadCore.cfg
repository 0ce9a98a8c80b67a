SPECIFICATION Spec
CONSTANTS
  Clients = {c1, c2}
  Slots = {h1, h2}
  N = 2
  None = None
  MaxSessions = 1
  MaxLost = 1
  MaxCrashes = 1
  MaxFaults = 1
  StorageFails = TRUE
  CancelAllowed = FALSE
  Expiry = TRUE
SYMMETRY Symmetry
INVARIANTS
  IntactFiles
  DoneHasFile
  OneFilePerSession
CHECK_DEADLOCK FALSE
