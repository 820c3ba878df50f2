\* An update's process takes over from the old one; no connection is lost.
SPECIFICATION Spec
CONSTANTS
  s1 = s1
  s2 = s2
  s3 = s3
  s4 = s4
  c1 = c1
  c2 = c2
  p1 = p1
  p2 = p2
  p3 = p3
  Sessions = {s1, s3}
  Clients = {c1}
  ClientOf <- TwoClients
  Ports = {p1, p2}
  PortsOf <- SharedPort
  Takeovers = {s3}
  Unlistenable = {}
  ConnectionsMayDrop = FALSE
  NoSession = NoSession
PROPERTY
  TakeoverKeepsPorts
