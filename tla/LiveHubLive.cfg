SPECIFICATION FairSpec
CONSTANTS
  Conns = {c1, c2}
  Broadcasters = {b1}
  Devices = {d1}
  UserMaps <- MCEither
  Announces <- MCAnyDevice
  None = None
  Cap = 1
  MaxEvents = 3
  c1 = c1
  c2 = c2
  c3 = c3
  d1 = d1
  d2 = d2
  alice = alice
  bob = bob
INVARIANTS
  UserIsolation
  RouteToLatest
PROPERTY
  ClosedIsForgotten
CHECK_DEADLOCK FALSE
