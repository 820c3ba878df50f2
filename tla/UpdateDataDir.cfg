\* With XJP_DATA_DIR the canary shares queue.json with the agent that tests it.
SPECIFICATION FairSpec
CONSTANTS
  Versions <- MCVersions
  FirstVersion <- MCFirst
  Broken <- MCBroken
  Checksummed <- MCChecksummed
  Updaters = {u1}
  Tasks = {t1}
  Modes = {"unix_service"}
  RestartTools <- MCTools
  DataDir = TRUE
  MaxOrders = 1
  MaxFaults = 1
  None = None
CHECK_DEADLOCK FALSE
PROPERTY TaskSurvivesUpdate
