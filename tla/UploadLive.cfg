SPECIFICATION FairSpec
CONSTANTS
  Clients = {c1, c2}
  Slots = {h1, h2}
  N = 2
  None = None
  MaxSessions = 1
  MaxLost = 0
  MaxCrashes = 0
  MaxFaults = 1
  StorageFails = TRUE
  CancelAllowed = TRUE
  Expiry = FALSE
PROPERTY
  FinalizationEnds
CHECK_DEADLOCK FALSE
