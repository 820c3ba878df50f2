\* The log reporter on a host whose local time is behind UTC.
SPECIFICATION Spec
CONSTANTS
  d1 = d1
  d2 = d2
  Deploys = {d1, d2}
  Strategies <- AllPairs
  MaxFaults = 1
  MaxCancels = 1
  None = None
  Tags = {"app"}
  Tag <- OwnTag
  Images = {"good", "fatal", "frail"}
  OldImage = "good"
  CanaryName <- OwnName
  InspectsBare = FALSE
  Trees = {d1, d2}
  Tree <- OwnName
  ConfiguredTag <- NoTag
  MaxRestarts = 2
  U32 = 65536
  Readers = {r1, r2}
  Writers = {w1, w2}
  r1 = r1
  r2 = r2
  w1 = w1
  w2 = w2
  Capacity = 2
  MaxLines = 3
  Callers = {a1}
  max_concurrent = 1
  MaxExits = 1
  MaxSpawnFailures = 1
  Nobody = Nobody
  PartsPerSecond = 2
  UtcOffset <- West
  REPORT_INTERVAL = 2
  MAX_LINES_PER_BATCH = 1
  MaxClock = 5
  MaxJournal = 2
  Never = Never
  Foci = {"reporter"}
INVARIANT JournalIsReported
CHECK_DEADLOCK FALSE
