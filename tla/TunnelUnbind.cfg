SPECIFICATION FairSpec
CONSTANTS
  Conns = {c1}
  Reqs = {}
  ChanCap = 1
  DataCap = 1
  WireCap = 1
  MaxChunks = 3
  MaxDrops = 1
  None = None
  Peers = {p1, p2}
  Users = {u1, u2}
  u1 = u1
  u2 = u2
  PEER_TIMEOUT = 1
  CLEANUP_INTERVAL = 1
  HEALTH_CHECK_TIMEOUT = 1
  ROUTER_TTL = 2
  MESH_TTL = 2
  MESH_TIMEOUT = 1
  Statics = {"Nothing"}
  MaxTime = 4
  MaxEvents = 3
  Absent = Absent
  Foci = {"link"}
PROPERTY LostSessionUnbinds
CHECK_DEADLOCK FALSE
