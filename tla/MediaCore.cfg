SPECIFICATION Spec
SYMMETRY Symmetry
CONSTANTS
  Files = {f1}
  Endpoints = {e1, e2}
  Workers = {w1, w2}
  Limit = 1
  Scenarios = {{"purges", "aborts", "removals", "crashes"},
               {"purges", "aborts", "crashes", "faults"},
               {"aborts", "removals", "crashes", "faults"}}
  None = None
INVARIANTS
  LiveIsReadable
  UploadedIsStored
CHECK_DEADLOCK FALSE
