\* Two projects, and a queue file that cannot always be written or read.
SPECIFICATION Spec
CONSTANTS
  r1 = r1
  r2 = r2
  r3 = r3
  r4 = r4
  p1 = p1
  p2 = p2
  Requests = {r1, r2, r3}
  TaskIds = {r1, r2, r3}
  TaskOf <- OwnTaskId
  Projects = {p1, p2}
  ProjectOf <- TwoProjects
  RemoteProjects = {}
  MAX_QUEUE_SIZE = 1
  MAX_TASK_HISTORY = 1
  SaveMayFail = TRUE
  LoadMayFail = TRUE
  CallersMayLeave = FALSE
  MaxCrashes = 1
  NoRequest = NoRequest
INVARIANTS
  HeldTaskIsRecorded
  RegistrationHasOwner
  QuietIsClean
