SPECIFICATION Spec
CONSTANTS
  Notes = {n1, n2}
  Files = {f1}
  Uploads = {u1}
  Handlers = {h1, h2}
  Cleaner = cleaner
  Prose = prose
  None = None
  Faults = FALSE
  TimePasses = FALSE
  MaxOps = 2
INVARIANT
  AttachmentStays
CHECK_DEADLOCK FALSE
