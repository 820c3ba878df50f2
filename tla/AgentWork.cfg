\* Two deployments at once, of every kind that meets another in Docker or the
\* registry, one command that fails and one timeout; the log stream of a
\* deployment with two readers; a call to the NFA service while the loop
\* restarts it; and the log reporter.
SPECIFICATION FairSpec
CONSTANTS
  d1 = d1
  d2 = d2
  Deploys = {d1, d2}
  Strategies <- AllPairs
  MaxFaults = 1
  MaxCancels = 1
  None = None
  Tags = {"app"}
  Tag <- OwnTag
  Images = {"good", "fatal", "frail"}
  OldImage = "good"
  CanaryName <- OwnName
  InspectsBare = FALSE
  Trees = {d1, d2}
  Tree <- OwnName
  ConfiguredTag <- NoTag
  MaxRestarts = 2
  U32 = 65536
  Readers = {r1, r2}
  Writers = {w1, w2}
  r1 = r1
  r2 = r2
  w1 = w1
  w2 = w2
  Capacity = 2
  MaxLines = 3
  Callers = {a1}
  max_concurrent = 1
  MaxExits = 1
  MaxSpawnFailures = 1
  Nobody = Nobody
  PartsPerSecond = 2
  UtcOffset = 2
  REPORT_INTERVAL = 2
  MAX_LINES_PER_BATCH = 1
  MaxClock = 5
  MaxJournal = 2
  Never = Never
  Foci = {"strategies", "logs", "nfa", "reporter"}
INVARIANTS
  StrategiesTypeOK
  StagesAgreeWithOutcome
  SoloSwapIsVerified
  SoloGoodImageDeploys
  NoCanaryLeftBehind
  PushedIsBuilt
  CenterLearnsOutcome
  StreamKeepsOrder
  NoStrayProcess
  NoLineBetweenReports
PROPERTIES
  TimeoutEndsCommand
  StreamEnds
  WantedServiceRuns
CHECK_DEADLOCK FALSE
