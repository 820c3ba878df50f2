SPECIFICATION Spec
CONSTANTS
  r1 = r1
  r2 = r2
  r3 = r3
  r4 = r4
  p1 = p1
  p2 = p2
  Requests = {r1, r2, r3}
  TaskIds = {r1, r2, r3}
  TaskOf <- OwnTaskId
  Projects = {p1}
  ProjectOf <- OneProject
  RemoteProjects = {}
  MAX_QUEUE_SIZE = 1
  MAX_TASK_HISTORY = 2
  SaveMayFail = FALSE
  LoadMayFail = FALSE
  CallersMayLeave = TRUE
  MaxCrashes = 0
  NoRequest = NoRequest
INVARIANTS
  RegistrationHasOwner
