SPECIFICATION Spec
CONSTANTS
  Workers = {w1, w2}
  Callers = {c1}
  RunIds = {r1, r2}
  Defs = {jan, stt}
  Janitor = jan
  CronDefs = {jan}
  RegSets <- MCRegSets
  Payloads = {p1}
  NoPayload = null
  CallerKeys <- MCTextKeys
  None = None
  Retention = 3
  MaxClock = 1
  MaxStarts = 2
  MaxFaults = 0
  ObserverPanics = FALSE
  jan = jan
  stt = stt
  p1 = p1
  null = null
SYMMETRY Symmetry
PROPERTIES
  EnqueueNeverFails
CHECK_DEADLOCK FALSE
