SPECIFICATION Spec
CONSTANTS
  Files = {f1}
  Endpoints = {e1, e2}
  Workers = {w1}
  Limit = 1
  Scenarios = {{"purges"}}
  None = None
INVARIANT
  PurgeKeepsLive
CHECK_DEADLOCK FALSE
