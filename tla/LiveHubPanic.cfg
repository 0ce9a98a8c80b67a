SPECIFICATION Spec
CONSTANTS
  Conns = {c1, c2}
  Broadcasters = {b1}
  Devices = {d1}
  UserMaps <- MCOneUser
  Announces <- MCAnyDevice
  None = None
  Cap = 1
  MaxEvents = 2
  c1 = c1
  c2 = c2
  c3 = c3
  d1 = d1
  d2 = d2
  alice = alice
  bob = bob
PROPERTY
  BroadcastReachesAll
CHECK_DEADLOCK FALSE
