SPECIFICATION FairSpec
CONSTANTS
  Notes = {n1, n2}
  Files = {f1}
  Uploads = {u1}
  Handlers = {h1, h2}
  Cleaner = cleaner
  Prose = prose
  None = None
  Faults = TRUE
  TimePasses = TRUE
  MaxOps = 2
INVARIANTS
  AttachmentLives
PROPERTY
  PendingEnds
CHECK_DEADLOCK FALSE
