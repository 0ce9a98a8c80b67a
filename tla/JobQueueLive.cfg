SPECIFICATION FairSpec
CONSTANTS
  Workers = {w1, w2}
  Callers = {c1}
  RunIds = {r1, r2}
  Defs = {jan, stt}
  Janitor = jan
  CronDefs = {jan}
  RegSets <- MCRegSets
  Payloads = {p1}
  NoPayload = null
  CallerKeys <- MCTextKeys
  None = None
  Retention = 3
  MaxClock = 0
  MaxStarts = 2
  MaxFaults = 1
  ObserverPanics = TRUE
  jan = jan
  stt = stt
  p1 = p1
  null = null
PROPERTIES
  EveryRunSettles
CHECK_DEADLOCK FALSE
