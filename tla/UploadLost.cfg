SPECIFICATION FairSpec
CONSTANTS
  Clients = {c1, c2}
  Slots = {h1, h2, h3}
  N = 2
  None = None
  MaxSessions = 1
  MaxLost = 0
  MaxCrashes = 0
  MaxFaults = 0
  StorageFails = FALSE
  CancelAllowed = FALSE
  Expiry = FALSE
PROPERTY
  LandedIsFinalized
CHECK_DEADLOCK FALSE
