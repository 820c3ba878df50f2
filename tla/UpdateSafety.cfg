\* One update at a time, every restart mode; two deployments, a fault and a crash.
SPECIFICATION FairSpec
CONSTANTS
  Versions <- MCVersions
  FirstVersion <- MCFirst
  Broken <- MCBroken
  Checksummed <- MCChecksummed
  Updaters = {u1}
  Tasks = {t1, t2}
  Modes <- AllModes
  RestartTools <- MCTools
  DataDir = FALSE
  MaxOrders = 1
  MaxFaults = 1
  None = None
INVARIANT AgentCanStart
INVARIANT FailedUpdateKeepsBinary
INVARIANT InstalledIsVerified
PROPERTY NoDowngrade
PROPERTY RestartTakesEffect
PROPERTY TaskSurvivesUpdate
CHECK_DEADLOCK FALSE
