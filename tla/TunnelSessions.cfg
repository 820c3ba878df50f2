\* Three sessions of one client, one of them an update's takeover, and one of
\* another client that shares a port and may be refused one.
SPECIFICATION Spec
CONSTANTS
  s1 = s1
  s2 = s2
  s3 = s3
  s4 = s4
  c1 = c1
  c2 = c2
  p1 = p1
  p2 = p2
  p3 = p3
  Sessions = {s1, s2, s3, s4}
  Clients = {c1, c2}
  ClientOf <- TwoClients
  Ports = {p1, p2, p3}
  PortsOf <- SharedPort
  Takeovers = {s3}
  Unlistenable = {p3}
  ConnectionsMayDrop = TRUE
  NoSession = NoSession
INVARIANTS
  TypeOK
  PortBindingHasOwner
  ClientEntryHasOwner
  SoloSessionIsReachable
