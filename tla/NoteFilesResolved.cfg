SPECIFICATION Spec
CONSTANTS
  Notes = {n1}
  Files = {f1}
  Uploads = {u1}
  Handlers = {h1}
  Cleaner = cleaner
  Prose = prose
  None = None
  Faults = FALSE
  TimePasses = FALSE
  MaxOps = 1
INVARIANT
  ResolvedFileLives
CHECK_DEADLOCK FALSE
