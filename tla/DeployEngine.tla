----------------------------- MODULE DeployEngine -----------------------------
(***************************************************************************)
(* The deploy engine of the agent: the POST /trigger/:project handler      *)
(* (api/deploy.rs), the background drivers that execute deployments and    *)
(* drain the project queues (services/deploy), the shared maps they go     *)
(* through (state/app_state.rs, state/task_store.rs, state/log_hub.rs),    *)
(* the queue file (services/queue_persistence.rs), the periodic cleanup    *)
(* and the recovery at start-up (lib.rs).                                  *)
(*                                                                         *)
(* Tokio runs handlers and drivers on several threads, and every map has a *)
(* lock of its own that is released before the next call.  A step of the   *)
(* model therefore touches one shared map; calls that touch only the       *)
(* task's own entry (its task-store entry, its log channel) are joined to  *)
(* the neighbouring call on a map that others read.  A driver is named by  *)
(* the request whose handler, or whose recovered record, spawned it.       *)
(***************************************************************************)
EXTENDS QueuePersistence, TaskStore

CONSTANTS
  Projects,
  ProjectOf,        \* the project each request names
  RemoteProjects,   \* projects whose configuration is fetched from the
                    \* Deploy Center, a fetch that can fail at any time
  MAX_QUEUE_SIZE,   \* config/env.rs: 10
  SaveMayFail,      \* can writing queue.json fail (disk full, permissions)?
  LoadMayFail,      \* can queue.json be unreadable at a start, or not parse?
  CallersMayLeave,  \* can a caller hang up before it has its answer?
  MaxCrashes,       \* bound on the number of times the process dies
  NoRequest         \* an Option that is None

ASSUME EngineAssumption ==
  /\ ProjectOf \in [Requests -> Projects]
  /\ RemoteProjects \subseteq Projects
  /\ MAX_QUEUE_SIZE \in Nat
  /\ SaveMayFail \in BOOLEAN
  /\ LoadMayFail \in BOOLEAN
  /\ CallersMayLeave \in BOOLEAN
  /\ MaxCrashes \in Nat
  /\ NoRequest \notin Requests

VARIABLES
  boot,       \* "up", "down" or "recovering"
  crashes,    \* how often the process has died
  pc,         \* where the handler of each request is
  drv,        \* where each driver is
  cur,        \* the request each driver is deploying
  result,     \* the status a driver carries from the active map to history
  running,    \* running_deploys: project -> request, or NoRequest
  queue,      \* deploy_queue: project -> sequence of requests
  tasks,      \* task_store.tasks
  history,    \* task_store.history
  channels,   \* log_hub.channels: the task ids that have a log channel
  mem,        \* the persisted queue in memory
  disk,       \* queue.json
  todo,       \* the records recovery has not looked at yet
  finished,   \* requests whose deployment has run to its end
  expired,    \* requests that cleanup took out of a queue
  skipped     \* requests whose record this process could not recover

serverVars == <<boot, crashes, todo, skipped>>
queueFile  == <<mem, disk>>
storeVars  == <<tasks, history, channels>>
driverVars == <<drv, cur, result>>
ghostVars  == <<finished, expired>>

vars == <<boot, crashes, pc, drv, cur, result, running, queue, tasks, history,
          channels, mem, disk, todo, finished, expired, skipped>>

-------------------------------------------------------------------------------
HandlerStates == {"idle", "busy", "free", "admitted", "enqueued", "recorded",
                  "registered", "launching", "acked", "refused", "lost"}

\* The handler has been called and has not answered.
InFlight == {"busy", "free", "admitted", "enqueued", "recorded", "registered",
             "launching"}

DriverStates == {"none", "deploying", "finishing", "archived", "released",
                 "removed", "draining", "dequeued", "promoted", "done"}

\* The driver has been spawned and has not returned.
Live == DriverStates \ {"none", "done"}

DriverOf(p) == { d \in Requests : ProjectOf[d] = p }

Init ==
  /\ boot = "up"
  /\ crashes = 0
  /\ pc = [r \in Requests |-> "idle"]
  /\ drv = [d \in Requests |-> "none"]
  /\ cur = [d \in Requests |-> NoRequest]
  /\ result = [d \in Requests |-> Absent]
  /\ running = [p \in Projects |-> NoRequest]
  /\ queue = [p \in Projects |-> << >>]
  /\ tasks = [id \in TaskIds |-> Absent]
  /\ history = << >>
  /\ channels = {}
  /\ mem = << >>
  /\ disk = << >>
  /\ todo = << >>
  /\ finished = {}
  /\ expired = {}
  /\ skipped = {}

-------------------------------------------------------------------------------
\* A handler's and a driver's step from one point of their code to the next.
At(r, from, to) == pc[r] = from /\ pc' = [pc EXCEPT ![r] = to]

DriverAt(d, from, to) == drv[d] = from /\ drv' = [drv EXCEPT ![d] = to]

-------------------------------------------------------------------------------
(* Slips a programmer could make.  No definition below uses them: each one *)
(* stands in for the operation it names when the properties are tested for *)
(* their power to notice it.                                               *)

\* unregister_running_deploy looks the project up and does not remove it.
unregister_running_deploy_Looks(p) == UNCHANGED running

\* dequeue_deploy looks at the front and does not pop it.
dequeue_deploy_Peeks(p) == UNCHANGED queue

\* dequeue_deploy takes the project's whole queue out of the map.
dequeue_deploy_TakesAll(p) == queue' = [queue EXCEPT ![p] = << >>]

\* save gives up the change in memory when the file cannot be written.
save_RollsBack(queued) ==
  \/ mem' = queued /\ disk' = queued
  \/ SaveMayFail /\ UNCHANGED queueFile

\* add_task is called on the list and the file is not written.
TriggerPersistQueued_Unsaved(r) ==
  /\ At(r, "enqueued", "recorded")
  /\ mem' = add_task(mem, [req |-> r, status |-> "queued"])
  /\ UNCHANGED <<serverVars, driverVars, running, queue, storeVars, disk,
                 ghostVars>>

\* finish moves the task to the history without setting its status.
FinishTask_KeepsStatus(d) ==
  /\ DriverAt(d, "deploying", "finishing")
  /\ result' = [result EXCEPT ![d] = tasks[TaskOf[cur[d]]]]
  /\ tasks' = remove(tasks, TaskOf[cur[d]])
  /\ finished' = finished \cup {cur[d]}
  /\ UNCHANGED <<serverVars, pc, cur, running, queue, history, channels,
                 queueFile, expired>>

\* finish forgets log_hub.finish.
FinishRelease_KeepsChannel(d) ==
  /\ DriverAt(d, "archived", "released")
  /\ running' = [running EXCEPT ![ProjectOf[d]] = NoRequest]
  /\ UNCHANGED <<serverVars, pc, cur, result, queue, storeVars, queueFile,
                 ghostVars>>

\* process_queue marks the record as running but not the task.
QueuePromote_SkipsStore(d) ==
  /\ DriverAt(d, "dequeued", "promoted")
  /\ mem' = update_task_status(mem, TaskOf[cur[d]], "running")
  /\ disk' = mem'
  /\ UNCHANGED <<serverVars, pc, cur, result, running, queue, storeVars,
                 ghostVars>>

\* Recovery registers a running task and does not execute it.
RecoverRunning_NotSpawned ==
  /\ boot = "recovering"
  /\ todo # << >>
  /\ Head(todo).status = "running"
  /\ LET r == Head(todo).req
     IN  /\ tasks' = create(tasks, TaskOf[r], "running")
         /\ channels' = channels \cup {TaskOf[r]}
         /\ running' = [running EXCEPT ![ProjectOf[r]] = r]
  /\ todo' = Tail(todo)
  /\ UNCHANGED <<boot, crashes, pc, driverVars, queue, history, queueFile,
                 ghostVars, skipped>>

\* Recovery queues a running task and executes it too.
RecoverRunning_AlsoQueued ==
  /\ boot = "recovering"
  /\ todo # << >>
  /\ Head(todo).status = "running"
  /\ LET r == Head(todo).req
     IN  /\ tasks' = create(tasks, TaskOf[r], "running")
         /\ channels' = channels \cup {TaskOf[r]}
         /\ running' = [running EXCEPT ![ProjectOf[r]] = r]
         /\ drv' = [drv EXCEPT ![r] = "deploying"]
         /\ cur' = [cur EXCEPT ![r] = r]
         /\ queue' = [queue EXCEPT ![ProjectOf[r]] = Append(@, r)]
  /\ todo' = Tail(todo)
  /\ UNCHANGED <<boot, crashes, pc, result, history, queueFile, ghostVars,
                 skipped>>

\* Recovery registers the project of a queued task as running.
RecoverQueued_Registers ==
  /\ boot = "recovering"
  /\ todo # << >>
  /\ Head(todo).status = "queued"
  /\ LET r == Head(todo).req
     IN  /\ tasks' = create(tasks, TaskOf[r], "queued")
         /\ queue' = [queue EXCEPT ![ProjectOf[r]] = Append(@, r)]
         /\ running' = [running EXCEPT ![ProjectOf[r]] = r]
  /\ todo' = Tail(todo)
  /\ UNCHANGED <<boot, crashes, pc, driverVars, history, channels, queueFile,
                 ghostVars, skipped>>

-------------------------------------------------------------------------------
(* The shared operations of AppState and QueuePersistence.                 *)

has_running_deploy(p) == running[p] # NoRequest

register_running_deploy(p, r) == running' = [running EXCEPT ![p] = r]

\* Whatever deployment the project has registered is removed.
unregister_running_deploy(p) == running' = [running EXCEPT ![p] = NoRequest]

enqueue_deploy(p, r) == queue' = [queue EXCEPT ![p] = Append(@, r)]

dequeue_deploy(p) == queue' = [queue EXCEPT ![p] = Tail(@)]

\* PersistedQueue::save writes a temporary file and renames it, with the lock
\* on the in-memory queue held; an error is only logged by the callers.
save(queued) ==
  /\ mem' = queued
  /\ disk' \in {queued} \cup (IF SaveMayFail THEN {disk} ELSE {})

-------------------------------------------------------------------------------
(* trigger_deploy                                                          *)

\* Configuration found; is a deployment of the project registered?
TriggerCheckRunning(r) ==
  /\ boot = "up"
  /\ At(r, "idle", IF has_running_deploy(ProjectOf[r]) THEN "busy" ELSE "free")
  /\ UNCHANGED <<serverVars, driverVars, running, queue, storeVars, queueFile,
                 ghostVars>>

\* The Deploy Center has no usable configuration: 404 or 400.
TriggerUnknownProject(r) ==
  /\ boot = "up"
  /\ ProjectOf[r] \in RemoteProjects
  /\ At(r, "idle", "refused")
  /\ UNCHANGED <<serverVars, driverVars, running, queue, storeVars, queueFile,
                 ghostVars>>

\* A full queue is answered with 409.
TriggerCheckQueue(r) ==
  /\ At(r, "busy", IF Len(queue[ProjectOf[r]]) >= MAX_QUEUE_SIZE
                   THEN "refused" ELSE "admitted")
  /\ UNCHANGED <<serverVars, driverVars, running, queue, storeVars, queueFile,
                 ghostVars>>

TriggerEnqueue(r) ==
  /\ At(r, "admitted", "enqueued")
  /\ tasks' = create(tasks, TaskOf[r], "queued")
  /\ enqueue_deploy(ProjectOf[r], r)
  /\ UNCHANGED <<serverVars, driverVars, running, history, channels, queueFile,
                 ghostVars>>

TriggerPersistQueued(r) ==
  /\ At(r, "enqueued", "recorded")
  /\ save(add_task(mem, [req |-> r, status |-> "queued"]))
  /\ UNCHANGED <<serverVars, driverVars, running, queue, storeVars, ghostVars>>

TriggerRespondQueued(r) ==
  /\ At(r, "recorded", "acked")
  /\ UNCHANGED <<serverVars, driverVars, running, queue, storeVars, queueFile,
                 ghostVars>>

TriggerRegister(r) ==
  /\ At(r, "free", "registered")
  /\ tasks' = create(tasks, TaskOf[r], "running")
  /\ channels' = channels \cup {TaskOf[r]}
  /\ register_running_deploy(ProjectOf[r], r)
  /\ UNCHANGED <<serverVars, driverVars, queue, history, queueFile, ghostVars>>

TriggerPersistRunning(r) ==
  /\ At(r, "registered", "launching")
  /\ save(add_task(mem, [req |-> r, status |-> "running"]))
  /\ UNCHANGED <<serverVars, driverVars, running, queue, storeVars, ghostVars>>

\* tokio::spawn(execute), and the response.
TriggerSpawn(r) ==
  /\ At(r, "launching", "acked")
  /\ drv' = [drv EXCEPT ![r] = "deploying"]
  /\ cur' = [cur EXCEPT ![r] = r]
  /\ UNCHANGED <<serverVars, result, running, queue, storeVars, queueFile,
                 ghostVars>>

\* The HTTP server drops the future of a handler whose caller hangs up: the
\* handler ends at the await it has reached, and nothing undoes what it did.
\* Between the answer of add_task and the response there is no await.
TriggerDropped(r) ==
  /\ CallersMayLeave
  /\ pc[r] \in InFlight \ {"recorded", "launching"}
  /\ pc' = [pc EXCEPT ![r] = "lost"]
  /\ UNCHANGED <<serverVars, driverVars, running, queue, storeVars, queueFile,
                 ghostVars>>

\* ... with the task, and perhaps its log channel, already created,
TriggerDroppedCreated(r) ==
  /\ CallersMayLeave
  /\ pc[r] \in {"admitted", "free"}
  /\ pc' = [pc EXCEPT ![r] = "lost"]
  /\ tasks' = create(tasks, TaskOf[r],
                     IF pc[r] = "free" THEN "running" ELSE "queued")
  /\ \/ UNCHANGED channels
     \/ pc[r] = "free" /\ channels' = channels \cup {TaskOf[r]}
  /\ UNCHANGED <<serverVars, driverVars, running, queue, history, queueFile,
                 ghostVars>>

\* ... or with the record in memory, and the file written or not.
TriggerDroppedSaving(r) ==
  /\ CallersMayLeave
  /\ pc[r] \in {"enqueued", "registered"}
  /\ pc' = [pc EXCEPT ![r] = "lost"]
  /\ mem' = add_task(mem, [req |-> r, status |-> IF pc[r] = "registered"
                                                 THEN "running" ELSE "queued"])
  /\ disk' \in {disk, mem'}
  /\ UNCHANGED <<serverVars, driverVars, running, queue, storeVars, ghostVars>>

Hangup(r) ==
  TriggerDropped(r) \/ TriggerDroppedCreated(r) \/ TriggerDroppedSaving(r)

Handler(r) ==
  \/ TriggerCheckQueue(r)
  \/ TriggerEnqueue(r)
  \/ TriggerPersistQueued(r)
  \/ TriggerRespondQueued(r)
  \/ TriggerRegister(r)
  \/ TriggerPersistRunning(r)
  \/ TriggerSpawn(r)

-------------------------------------------------------------------------------
(* execute: execute_single, DeployContext::finish, process_queue           *)

\* The strategy has ended one way or the other and calls finish: update_stages,
\* then the task leaves the active map with its final status.
FinishTask(d) ==
  /\ DriverAt(d, "deploying", "finishing")
  /\ \E status \in {"success", "failed"} :
       result' = [result EXCEPT ![d] =
                    IF tasks[TaskOf[cur[d]]] = Absent THEN Absent ELSE status]
  /\ tasks' = remove(tasks, TaskOf[cur[d]])
  /\ finished' = finished \cup {cur[d]}
  /\ UNCHANGED <<serverVars, pc, cur, running, queue, history, channels,
                 queueFile, expired>>

\* ... and is pushed to the history, if it was there.
FinishHistory(d) ==
  /\ DriverAt(d, "finishing", "archived")
  /\ history' = IF result[d] = Absent THEN history
                ELSE add_to_history(history, [task   |-> TaskOf[cur[d]],
                                              status |-> result[d]])
  /\ result' = [result EXCEPT ![d] = Absent]
  /\ UNCHANGED <<serverVars, pc, cur, running, queue, tasks, channels, queueFile,
                 ghostVars>>

\* log_hub.finish and the first unregister_running_deploy; after it the driver
\* spends up to three calls telling the Deploy Center, and ignores the outcome.
FinishRelease(d) ==
  /\ DriverAt(d, "archived", "released")
  /\ channels' = channels \ {TaskOf[cur[d]]}
  /\ unregister_running_deploy(ProjectOf[d])
  /\ UNCHANGED <<serverVars, pc, cur, result, queue, tasks, history, queueFile,
                 ghostVars>>

\* The file is written only if there was a record to remove.
ExecuteUnpersist(d) ==
  /\ DriverAt(d, "released", "removed")
  /\ IF HasTask(mem, TaskOf[cur[d]])
     THEN save(remove_task(mem, TaskOf[cur[d]]))
     ELSE UNCHANGED queueFile
  /\ UNCHANGED <<serverVars, pc, cur, result, running, queue, storeVars,
                 ghostVars>>

\* The second unregister_running_deploy, at the end of execute_single.
ExecuteUnregister(d) ==
  /\ DriverAt(d, "removed", "draining")
  /\ unregister_running_deploy(ProjectOf[d])
  /\ cur' = [cur EXCEPT ![d] = NoRequest]
  /\ UNCHANGED <<serverVars, pc, result, queue, storeVars, queueFile, ghostVars>>

QueueTake(d) ==
  /\ queue[ProjectOf[d]] # << >>
  /\ DriverAt(d, "draining", "dequeued")
  /\ cur' = [cur EXCEPT ![d] = Head(queue[ProjectOf[d]])]
  /\ dequeue_deploy(ProjectOf[d])
  /\ UNCHANGED <<serverVars, pc, result, running, storeVars, queueFile, ghostVars>>

\* Nothing queued: check_and_trigger_pending_update, and the driver returns.
QueueEmpty(d) ==
  /\ queue[ProjectOf[d]] = << >>
  /\ DriverAt(d, "draining", "done")
  /\ UNCHANGED <<serverVars, pc, cur, result, running, queue, storeVars, queueFile,
                 ghostVars>>

\* update_task_status saves the file whether or not it found the record.
QueuePromote(d) ==
  /\ DriverAt(d, "dequeued", "promoted")
  /\ tasks' = update_status(tasks, TaskOf[cur[d]], "running")
  /\ save(update_task_status(mem, TaskOf[cur[d]], "running"))
  /\ UNCHANGED <<serverVars, pc, cur, result, running, queue, history, channels,
                 ghostVars>>

QueueRegister(d) ==
  /\ DriverAt(d, "promoted", "deploying")
  /\ register_running_deploy(ProjectOf[d], cur[d])
  /\ channels' = channels \cup {TaskOf[cur[d]]}
  /\ UNCHANGED <<serverVars, pc, cur, result, queue, tasks, history, queueFile,
                 ghostVars>>

\* What a driver does between two deployments.
DriverGoesOn(d) ==
  \/ FinishHistory(d)
  \/ FinishRelease(d)
  \/ ExecuteUnpersist(d)
  \/ ExecuteUnregister(d)
  \/ QueueTake(d)
  \/ QueueEmpty(d)
  \/ QueuePromote(d)
  \/ QueueRegister(d)

Driver(d) == FinishTask(d) \/ DriverGoesOn(d)

-------------------------------------------------------------------------------
(* The cleanup loop of lib.rs                                              *)

Queued == UNION { Elements(queue[p]) : p \in Projects }

\* cleanup_expired_queue_items drops every item older than QUEUE_TIMEOUT_SECS
\* (`old`), and the loop marks their tasks failed.
CleanupQueue ==
  /\ boot = "up"
  /\ \E old \in SUBSET Queued \ {{}} :
       /\ queue' = [p \in Projects |-> Retained(queue[p], Requests \ old)]
       /\ tasks' = [id \in TaskIds |->
                      IF tasks[id] # Absent /\ \E r \in old : TaskOf[r] = id
                      THEN "failed" ELSE tasks[id]]
       /\ expired' = expired \cup old
  /\ UNCHANGED <<serverVars, pc, driverVars, running, history, channels,
                 queueFile, finished>>

\* Every hour: cleanup_stale, and the log channels that were opened more than
\* a day ago and have no subscriber, whether or not the deployment still runs.
CleanupStale ==
  /\ boot = "up"
  /\ \E stale \in SUBSET TaskIds, dropped \in SUBSET channels :
       /\ stale \cup dropped # {}
       /\ \A id \in stale : \/ is_terminal(tasks[id])
                            \/ \E e \in Elements(history) : e.task = id
       /\ tasks' = cleanup_stale_tasks(tasks, stale)
       /\ history' = cleanup_stale_history(history, stale)
       /\ channels' = channels \ dropped
  /\ UNCHANGED <<serverVars, pc, driverVars, running, queue, queueFile, ghostVars>>

-------------------------------------------------------------------------------
(* The process dies and is started again                                   *)

\* Killed, or replaced by an update: only queue.json survives, and a caller
\* that had no answer yet gets none.
Crash ==
  /\ boot # "down"
  /\ crashes < MaxCrashes
  /\ boot' = "down"
  /\ crashes' = crashes + 1
  /\ pc' = [r \in Requests |-> IF pc[r] \in InFlight THEN "lost" ELSE pc[r]]
  /\ drv' = [d \in Requests |-> "none"]
  /\ cur' = [d \in Requests |-> NoRequest]
  /\ result' = [d \in Requests |-> Absent]
  /\ running' = [p \in Projects |-> NoRequest]
  /\ queue' = [p \in Projects |-> << >>]
  /\ tasks' = [id \in TaskIds |-> Absent]
  /\ history' = << >>
  /\ channels' = {}
  /\ mem' = << >>
  /\ todo' = << >>
  /\ skipped' = {}
  /\ UNCHANGED <<disk, finished, expired>>

\* recover_persisted_tasks begins: QueuePersistence::load.  A file that cannot be
\* read or parsed counts as none; it stays on the disk until the next save.
Restart ==
  /\ boot = "down"
  /\ boot' = "recovering"
  /\ mem' \in {disk} \cup (IF LoadMayFail THEN {<< >>} ELSE {})
  /\ todo' = mem'
  /\ UNCHANGED <<crashes, pc, driverVars, running, queue, storeVars, disk,
                 finished, expired, skipped>>

\* A record whose configuration cannot be had is passed over; it stays in the
\* file.
RecoverSkip ==
  /\ boot = "recovering"
  /\ todo # << >>
  /\ ProjectOf[Head(todo).req] \in RemoteProjects
  /\ todo' = Tail(todo)
  /\ skipped' = skipped \cup {Head(todo).req}
  /\ UNCHANGED <<boot, crashes, pc, driverVars, running, queue, storeVars,
                 queueFile, ghostVars>>

\* A task that was running is registered and executed again from its start,
\* while recovery goes on with the next record.
RecoverRunning ==
  /\ boot = "recovering"
  /\ todo # << >>
  /\ Head(todo).status = "running"
  /\ LET r == Head(todo).req
     IN  /\ tasks' = create(tasks, TaskOf[r], "running")
         /\ channels' = channels \cup {TaskOf[r]}
         /\ register_running_deploy(ProjectOf[r], r)
         /\ drv' = [drv EXCEPT ![r] = "deploying"]
         /\ cur' = [cur EXCEPT ![r] = r]
  /\ todo' = Tail(todo)
  /\ UNCHANGED <<boot, crashes, pc, result, queue, history, queueFile, ghostVars,
                 skipped>>

\* A task that was queued is queued again, whatever the queue's length.
RecoverQueued ==
  /\ boot = "recovering"
  /\ todo # << >>
  /\ Head(todo).status = "queued"
  /\ LET r == Head(todo).req
     IN  /\ tasks' = create(tasks, TaskOf[r], "queued")
         /\ enqueue_deploy(ProjectOf[r], r)
  /\ todo' = Tail(todo)
  /\ UNCHANGED <<boot, crashes, pc, driverVars, running, history, channels,
                 queueFile, ghostVars, skipped>>

\* Recovery is over: the cleanup loop and the HTTP server are started.
Serve ==
  /\ boot = "recovering"
  /\ todo = << >>
  /\ boot' = "up"
  /\ UNCHANGED <<crashes, pc, driverVars, running, queue, storeVars, queueFile,
                 todo, ghostVars, skipped>>

Recovery == Restart \/ RecoverSkip \/ RecoverRunning \/ RecoverQueued \/ Serve

-------------------------------------------------------------------------------
\* Nothing is under way and every request of the model has been answered.
Quiet ==
  /\ boot = "up"
  /\ \A r \in Requests : pc[r] \notin InFlight /\ drv[r] \notin Live
  /\ Queued = {}

Next ==
  \/ \E r \in Requests : \/ TriggerCheckRunning(r)
                         \/ TriggerUnknownProject(r)
                         \/ Handler(r)
                         \/ Hangup(r)
                         \/ Driver(r)
  \/ CleanupQueue
  \/ CleanupStale
  \/ Crash
  \/ Recovery
  \/ Quiet /\ UNCHANGED vars

Spec == Init /\ [][Next]_vars

(***************************************************************************)
(* Fairness.  The runtime polls every spawned future and every handler,    *)
(* every request to the Deploy Center has a timeout, the supervisor of the *)
(* process starts it again, the cleanup loop ticks every minute and a      *)
(* queued item only gets older.  A deployment need not end: after          *)
(* DEPLOY_TIMEOUT_SECS a token is cancelled, which git, docker compose and *)
(* docker push do not look at, so nothing is assumed of FinishTask.        *)
(* Clients promise nothing: a request may never be sent, and the process   *)
(* need not die.                                                           *)
(***************************************************************************)
Fairness ==
  /\ \A r \in Requests : WF_vars(Handler(r)) /\ WF_vars(DriverGoesOn(r))
  /\ WF_vars(CleanupQueue)
  /\ WF_vars(Recovery)

FairSpec == Spec /\ Fairness

-------------------------------------------------------------------------------
(* Safety                                                                  *)

\* The type of every map, deque and program counter of the engine.
TypeOK ==
  /\ boot \in {"up", "down", "recovering"}
  /\ crashes \in 0 .. MaxCrashes
  /\ pc \in [Requests -> HandlerStates]
  /\ drv \in [Requests -> DriverStates]
  /\ cur \in [Requests -> Requests \cup {NoRequest}]
  /\ result \in [Requests -> {"success", "failed", Absent}]
  /\ running \in [Projects -> Requests \cup {NoRequest}]
  /\ queue \in [Projects -> Seq(Requests)]
  /\ tasks \in [TaskIds -> DeployStatus \cup {Absent}]
  /\ history \in Seq([task : TaskIds, status : {"success", "failed"}])
  /\ channels \in SUBSET TaskIds
  /\ mem \in Seq(PersistedTask)
  /\ disk \in Seq(PersistedTask)
  /\ todo \in Seq(PersistedTask)
  /\ finished \in SUBSET Requests
  /\ expired \in SUBSET Requests
  /\ skipped \in SUBSET Requests

\* Every request carries a task id of its own: the agent's UUIDs do, and so do
\* the deploy_log_ids of a Deploy Center that never sends one twice.
UniqueTaskIds == \A r, s \in Requests : TaskOf[r] = TaskOf[s] => r = s

\* The caller has been told "queued" or "running".
Acked == { r \in Requests : pc[r] = "acked" }

\* Whatever the interleaving of handlers, drivers, cleanup and crashes, a task
\* the caller was told is accepted has a record in queue.json until it has run
\* to its end.
AckedTaskIsDurable == \A r \in Acked \ finished : HasTask(disk, TaskOf[r])

\* The handler or the driver of the request has registered its project and will
\* call unregister_running_deploy.
WillUnregister(r) ==
  \/ pc[r] \in {"registered", "launching"}
  \/ drv[r] \in {"deploying", "finishing", "archived", "released", "removed"}

\* As long as callers wait for their answers, a registered deployment has an
\* owner that will still unregister the project: no project is left "running"
\* with nothing running, which would send every later trigger into a queue that
\* nobody drains.
RegistrationHasOwner ==
  \A p \in Projects :
    has_running_deploy(p) => \E r \in DriverOf(p) : WillUnregister(r)

\* Whatever saves have failed, the queue in memory has the record of every
\* accepted task that is queued or being deployed, so that the next save that
\* succeeds makes it durable.
HeldTaskIsRecorded ==
  \A r \in Acked \ finished :
    r \in Queued \/ (\E d \in Requests : cur[d] = r) => HasTask(mem, TaskOf[r])

\* No task is in a queue twice, in a queue while a driver has it, or in the
\* hands of two drivers, and it is queued for its own project only.
TaskHasOnePlace ==
  /\ \A p \in Projects :
       /\ Distinct(queue[p])
       /\ \A r \in Elements(queue[p]) : ProjectOf[r] = p
  /\ \A d \in Requests : cur[d] \notin Queued
  /\ \A d, e \in Requests : cur[d] = cur[e] /\ cur[d] # NoRequest => d = e

\* While the agent serves requests, an accepted task is queued, or in the hands
\* of a driver, or has run, has expired, or could not be recovered.
AckedTaskIsHeld ==
  boot = "up" =>
    \A r \in Acked : \/ r \in Queued \cup finished \cup expired \cup skipped
                     \/ \E d \in Requests : cur[d] = r

\* Within one life of the process a task enters the history once, and a task of
\* the history is neither queued nor deployed again.
TaskSettlesOnce ==
  /\ \A i, j \in DOMAIN history : history[i].task = history[j].task => i = j
  /\ \A e \in Elements(history), r \in Requests :
       TaskOf[r] = e.task =>
         /\ r \notin Queued
         /\ \A d \in Requests :
              cur[d] = r => drv[d] \in {"archived", "released", "removed"}

\* What GET /tasks shows is what the engine does: a queued item is "queued", a
\* task being deployed is "running", whoever queued, recovered or promoted it.
StoreAgreesWithEngine ==
  /\ \A r \in Queued : tasks[TaskOf[r]] = "queued"
  /\ \A d \in Requests :
       drv[d] = "deploying" => tasks[TaskOf[cur[d]]] = "running"

\* Once everything is over nothing is left behind in memory: no registration,
\* no log channel, and no active task except the expired ones, which wait for
\* the daily cleanup.
QuietIsClean ==
  Quiet =>
    /\ \A p \in Projects : ~ has_running_deploy(p)
    /\ channels = {}
    /\ \A r \in Requests : tasks[TaskOf[r]] # Absent => r \in expired

(* Liveness                                                                *)

\* The deployment of r does not hang for ever.
DeploymentEnds(r) ==
  \A d \in Requests : []<>~ (cur[d] = r /\ drv[d] = "deploying")

\* An accepted task whose own deployment does not hang ends, whatever hangs
\* before it: it runs, or it expires in its queue, or its project's
\* configuration cannot be had after a restart.
AckedTaskSettles ==
  \A r \in Requests :
    DeploymentEnds(r) =>
      ((r \in Acked) ~> (r \in finished \cup expired \cup skipped))

\* The project has no driver whose deployment hangs for ever.
DriversGoOn(p) == \A d \in DriverOf(p) : []<>(drv[d] # "deploying")

\* A project that is registered as running becomes free again, unless one of
\* its own deployments hangs: the engine loses no registration by itself, and
\* projects do not wait for one another.
ProjectBecomesFree ==
  \A p \in Projects :
    DriversGoOn(p) => (has_running_deploy(p) ~> ~ has_running_deploy(p))

-------------------------------------------------------------------------------
(* What the repository says and the code does not do                       *)

\* app_state.rs keeps one RunningDeploy per project and the handler deploys
\* directly only when nothing runs: at most one deployment of a project at once.
OneDeployPerProject ==
  \A p \in Projects :
    Cardinality({ d \in DriverOf(p) : drv[d] = "deploying" }) <= 1

\* "Recover the queue and the running tasks after a restart": a task that
\* recovery put back in its queue is deployed.
RecoveredTaskRuns ==
  \A r \in Requests :
    (boot = "recovering" /\ r \in Queued) ~> (r \in finished)

\* DeployStatus::is_terminal: success and failed are final states, so a task
\* that has reached one is not deployed again.
SettledTaskNeverRestarts ==
  [][ \A d \in Requests :
        drv[d] # "deploying" /\ drv'[d] = "deploying"
          => cur'[d] \notin finished \cup expired ]_vars
===============================================================================
