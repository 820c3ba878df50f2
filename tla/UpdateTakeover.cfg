\* A host in tunnel client mode, which restarts by takeover.
SPECIFICATION FairSpec
CONSTANTS
  Versions <- MCVersions
  FirstVersion <- MCFirst
  Broken <- MCBroken
  Checksummed <- MCChecksummed
  Updaters = {u1}
  Tasks = {}
  Modes = {"takeover"}
  RestartTools <- MCTools
  DataDir = FALSE
  MaxOrders = 1
  MaxFaults = 0
  None = None
CHECK_DEADLOCK FALSE
PROPERTY UpdateTakesEffect
