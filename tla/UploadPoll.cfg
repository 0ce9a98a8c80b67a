SPECIFICATION FairSpec
CONSTANTS
  Clients = {c1, c2}
  Slots = {h1, h2}
  N = 1
  None = None
  MaxSessions = 1
  MaxLost = 0
  MaxCrashes = 0
  MaxFaults = 0
  StorageFails = TRUE
  CancelAllowed = FALSE
  Expiry = FALSE
PROPERTY
  TerminalStopsPoll
CHECK_DEADLOCK FALSE
