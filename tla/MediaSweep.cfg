SPECIFICATION Spec
CONSTANTS
  Files = {f1, f2}
  Endpoints = {e1, e2}
  Workers = {w1}
  Limit = 1
  Scenarios = {{}}
  None = None
INVARIANT
  SweepReachesLive
CHECK_DEADLOCK FALSE
