\* One connection and one proxied request share channels with room for one
\* message, and the WebSocket is lost once.  The two loops may wait for each other
\* for ever, so the run does not look for deadlocks.
SPECIFICATION Spec
CONSTANTS
  Conns = {c1}
  Reqs = {q1}
  ChanCap = 1
  DataCap = 1
  WireCap = 1
  MaxChunks = 2
  MaxDrops = 1
  None = None
  Peers = {p1, p2}
  Users = {u1, u2}
  u1 = u1
  u2 = u2
  PEER_TIMEOUT = 1
  CLEANUP_INTERVAL = 1
  HEALTH_CHECK_TIMEOUT = 1
  ROUTER_TTL = 2
  MESH_TTL = 2
  MESH_TIMEOUT = 1
  Statics = {"Local", "Fallback"}
  MaxTime = 4
  MaxEvents = 3
  Absent = Absent
  Foci = {"link", "lan", "lookups"}
INVARIANTS
  EntriesHaveOwner
  PendingRequestIsAwaited
  OpenConnectionStays
  EndpointIsFresh
  SteadyPeerIsUsed
PROPERTY
  TunnelIsAPipe
CHECK_DEADLOCK FALSE
