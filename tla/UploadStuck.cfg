SPECIFICATION FairSpec
CONSTANTS
  Clients = {c1, c2}
  Slots = {h1, h2}
  N = 1
  None = None
  MaxSessions = 1
  MaxLost = 0
  MaxCrashes = 1
  MaxFaults = 0
  StorageFails = FALSE
  CancelAllowed = FALSE
  Expiry = FALSE
PROPERTY
  ResumeEnds
CHECK_DEADLOCK FALSE
