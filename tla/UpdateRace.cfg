\* Two updates at a time: why the theorems about the binary assume OneUpdater.
SPECIFICATION Spec
CONSTANTS
  Versions <- MCVersions
  FirstVersion <- MCFirst
  Broken <- MCBroken
  Checksummed <- MCChecksummed
  Updaters = {u1, u2}
  Tasks = {}
  Modes = {"unix_service"}
  RestartTools <- MCTools
  DataDir = FALSE
  MaxOrders = 2
  MaxFaults = 1
  None = None
INVARIANT AgentCanStart
CHECK_DEADLOCK FALSE
