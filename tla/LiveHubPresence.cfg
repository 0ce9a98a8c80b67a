SPECIFICATION Spec
CONSTANTS
  Conns = {c1, c2, c3}
  Broadcasters = {}
  Devices = {d1, d2}
  UserMaps <- MCOneUser
  Announces <- MCReconnects
  None = None
  Cap = 4
  MaxEvents = 3
  c1 = c1
  c2 = c2
  c3 = c3
  d1 = d1
  d2 = d2
  alice = alice
  bob = bob
INVARIANT
  PresenceConverges
CHECK_DEADLOCK FALSE
