------------------------------ MODULE AutoUpdate ------------------------------
(***************************************************************************)
(* Self update of the agent: the periodic check, updates deferred by       *)
(* running deployments, the forced update of POST /update, the blue-green  *)
(* replacement of the binary (services/autoupdate.rs), the restart         *)
(* (services/restart.rs) and what the next process recovers (lib.rs).      *)
(*                                                                         *)
(* An element of Updaters is one execution of the update code; with one    *)
(* element updates do not overlap, with two they do, for nothing in the    *)
(* code keeps them apart.  Deployments are those of one project, reduced   *)
(* to what an update meets: running_deploys, deploy_queue and queue.json,  *)
(* whose every write succeeds here (DeployEngine has the failing ones).    *)
(* The display fields (update_progress, last_check...) are left out.       *)
(***************************************************************************)
EXTENDS Integers, Sequences, FiniteSets

CONSTANTS
  Versions,      \* sequences of parts; part 2n is the number n, an odd part
                 \* is one that does not parse as a number
  FirstVersion,  \* the version installed to begin with
  Broken,        \* versions whose build does not come up
  Checksummed,   \* versions published with a sha256
  Updaters,
  Tasks,
  Modes,         \* how this host restarts the agent
  RestartTools,  \* sudo, sc, schtasks, wmic, cmd, exec, spawn
  DataDir,       \* is XJP_DATA_DIR set?  If not, queue.json lies beside the
                 \* binary of the process that uses it
  MaxOrders,     \* bound: publishes and forced updates together
  MaxFaults,     \* bound: failing steps and crashes together
  None

\* What a download can turn out to be, and a binary on disk.
Builds == {"good", "broken", "corrupt", "partial"}
Files == [ver : Versions, build : Builds]

\* The installed binary, its .bak, and the name "X.bak (deleted)" that Linux
\* gives to the image of a process whose file X.bak has been removed.
Paths == {"exe", "bak", "odd"}

\* The builds that come up; a bad download may happen to.
Startable == {"good", "corrupt"}

ServiceModes == {"unix_service", "windows_service"}
WindowsModes == {"windows_service", "windows_console"}

ASSUME UpdateAssumption ==
  /\ FirstVersion \in Versions \ Broken
  /\ Broken \subseteq Versions
  /\ Checksummed \subseteq Versions
  /\ DataDir \in BOOLEAN
  /\ None \notin Versions \cup Files
  /\ None \notin Tasks \cup Paths \cup {"queued", "running"}
  /\ MaxOrders \in Nat /\ MaxFaults \in Nat

VARIABLES
  published,   \* the version latest.json names
  mode,        \* the restart mode of this host
  version,     \* the version of the running process (VERSION)
  disk,        \* the binary at each path: [ver, build] or None
  img,         \* where the running process's image is, or "gone"
  temp,        \* the downloads in the temporary directory, by version
  upd,         \* each updater: where it is (at), how it began (kind), the
               \* version it installs (goal) and its current_binary (path)
  pending,     \* pending_update
  inProgress,  \* update_in_progress
  proc,        \* is the agent's process "up" or "down"?
  relaunch,    \* while it is down: what will be started again, or None if only
               \* a person can start the agent
  child,       \* the canary, or the process started with --takeover: its
               \* state, version, binary, and its list of recorded tasks
  task,        \* what has become of each deployment
  registered,  \* the project's entry of running_deploys, or None
  records,     \* queue.json: the status it has for each task, or None
  budget       \* the orders and faults to come

fileVars == <<disk, img, temp>>
flagVars == <<pending, inProgress>>
procVars == <<version, proc, relaunch, child>>
taskVars == <<task, registered, records>>
hostVars == <<published, mode>>
vars == <<published, mode, version, disk, img, temp, upd, pending,
          inProgress, proc, relaunch, child, task, registered, records,
          budget>>

\* An updater that runs no update; the rest of it is arbitrary.
Idle == [at |-> "idle", kind |-> "timer", goal |-> FirstVersion, path |-> "exe"]

NoRecords == [t \in Tasks |-> None]

NoChild ==
  [state |-> "none", ver |-> FirstVersion, from |-> "exe", has |-> NoRecords]

Init ==
  /\ published \in Versions
  /\ mode \in Modes
  /\ version = FirstVersion
  /\ disk = [p \in Paths |-> IF p # "exe" THEN None
                             ELSE [ver |-> FirstVersion, build |-> "good"]]
  /\ img = "exe"
  /\ temp = [v \in Versions |-> None]
  /\ upd = [u \in Updaters |-> Idle]
  /\ pending = None
  /\ inProgress = FALSE
  /\ proc = "up"
  /\ relaunch = None
  /\ child = NoChild
  /\ task = [t \in Tasks |-> "new"]
  /\ registered = None
  /\ records = NoRecords
  /\ budget = [order |-> MaxOrders, fault |-> MaxFaults]

Spend(what) == budget[what] > 0 /\ budget' = [budget EXCEPT ![what] = @ - 1]

DeployQueue == { t \in Tasks : task[t] = "queued" }

-------------------------------------------------------------------------------
(* is_newer_version                                                        *)

\* filter_map(parse().ok()): the parts that are numbers.
parse_version(v) == SelectSeq(v, LAMBDA part : part % 2 = 0)

\* (A slip, see below:) every version that is not the running one is newer.
is_newer_version_Differs(latest, current) == latest # current

is_newer_version(latest, current) ==
  LET l == parse_version(latest)
      c == parse_version(current)
      zip == { i \in 1..Len(l) : i <= Len(c) }
      differs == { i \in zip : l[i] # c[i] }
  IN  IF differs = {}
      THEN Len(l) > Len(c)
      ELSE \E i \in differs : (\A j \in differs : i <= j) /\ l[i] > c[i]

-------------------------------------------------------------------------------
(* RestartManager: which method takes effect when only some tools work.    *)
(* Services start the installed binary, a console the one it is given.     *)

restart_unix_service(tools) ==
  IF "sudo" \in tools THEN "scheduled" ELSE "failed"

\* exec does not return unless it fails.
restart_unix_console(tools, binary) ==
  IF "exec" \in tools /\ disk[binary] # None THEN "replaced" ELSE "failed"

restart_windows_service_fallback(tools) ==
  IF {"wmic", "cmd"} \cap tools # {} THEN "scheduled" ELSE "failed"

restart_via_schtasks(tools) ==
  IF "schtasks" \in tools THEN "scheduled"
  ELSE restart_windows_service_fallback(tools)

\* "sc failure" makes the service manager restart the service when it exits.
restart_windows_service(tools) ==
  IF "sc" \in tools THEN "scheduled" ELSE restart_via_schtasks(tools)

restart_windows_console(tools) ==
  IF {"wmic", "cmd"} \cap tools # {} THEN "scheduled" ELSE "failed"

schedule_restart(tools, binary) ==
  CASE mode = "unix_service"    -> restart_unix_service(tools)
    [] mode = "unix_console"    -> restart_unix_console(tools, binary)
    [] mode = "windows_service" -> restart_windows_service(tools)
    [] mode = "windows_console" -> restart_windows_console(tools)

-------------------------------------------------------------------------------
(* The files of the agent.                                                 *)

\* Linux follows the image of the process when it is renamed; Windows keeps the
\* name the process was started by.
current_exe ==
  IF mode \in WindowsModes THEN "exe" ELSE IF img = "gone" THEN "odd" ELSE img

\* Windows renames the image of a running process, and neither replaces nor
\* removes it.
InUse(p) == mode \in WindowsModes /\ img = p

\* rename
Move(from, to) ==
  IF from = to THEN UNCHANGED <<disk, img>>
  ELSE /\ disk' = [disk EXCEPT ![to] = disk[from], ![from] = None]
       /\ img' = IF img = from THEN to ELSE IF img = to THEN "gone" ELSE img

-------------------------------------------------------------------------------
(* Slips a programmer could make.  No definition below uses them: each one *)
(* stands in for the operation it names when the properties are tested for *)
(* their power to notice it.                                               *)

\* A pending update keeps the check from looking again.
CheckUpdate_WaitsForPending(u) ==
  /\ proc = "up"
  /\ pending = None
  /\ \A w \in Updaters : upd[w] = Idle \/ upd[w].kind # "timer"
  /\ is_newer_version(published, version)
  /\ upd[u] = Idle
  /\ upd' = [upd EXCEPT ![u].at = "checked", ![u].goal = published]
  /\ UNCHANGED <<hostVars, procVars, fileVars, flagVars, taskVars, budget>>

\* No checksum is compared.
VerifyChecksum_Skipped(u) ==
  /\ upd[u].at = "downloaded" /\ upd' = [upd EXCEPT ![u].at = "verified"]
  /\ UNCHANGED <<hostVars, procVars, fileVars, flagVars, taskVars, budget>>

\* The current binary is removed to make room for the new one.
BackupBinary_Removes(u) ==
  /\ upd[u].at = "healthy"
  /\ upd' = [upd EXCEPT ![u].at = "backed", ![u].path = current_exe]
  /\ disk' = [disk EXCEPT ![current_exe] = None]
  /\ UNCHANGED <<hostVars, procVars, img, temp, flagVars, taskVars, budget>>

\* A failed replacement removes the backup instead of putting it back.
restore_Drops(u) == disk' = [disk EXCEPT !["bak"] = None] /\ UNCHANGED img

\* The new process does not recover the tasks that were running.
RecoverFrom_Forgets(list) ==
  /\ task' = [t \in Tasks |-> CASE list[t] = "queued" -> "queued"
                               [] list[t] = "running" -> "lost"
                               [] OTHER -> task[t]]
  /\ registered' = None

-------------------------------------------------------------------------------
\* An execution of the update code begins, goes on, and ends.
Starts(u, at, kind, goal) ==
  /\ upd[u] = Idle
  /\ upd' = [upd EXCEPT ![u] = [at |-> at, kind |-> kind, goal |-> goal,
                               path |-> Idle.path]]

Goes(u, from, to) == upd[u].at = from /\ upd' = [upd EXCEPT ![u].at = to]

Ends(u, from) == upd[u].at = from /\ upd' = [upd EXCEPT ![u] = Idle]

-------------------------------------------------------------------------------
(* Deployments, as far as an update meets them.                            *)

\* The process's list of records, which add_task, update_task_status and
\* remove_task write to queue.json: an expired task keeps its record.
Recorded(tasks) ==
  [t \in Tasks |->
     CASE tasks[t] \in {"queued", "popped", "expired"} -> "queued"
       [] tasks[t] \in {"promoted", "running", "unregistered"} -> "running"
       [] OTHER -> None]

save == records' = Recorded(task')

\* trigger_deploy.  update_in_progress is not looked at.
AcceptTask(t) ==
  /\ proc = "up"
  /\ task[t] = "new"
  /\ IF registered = None
     THEN task' = [task EXCEPT ![t] = "running"] /\ registered' = t
     ELSE task' = [task EXCEPT ![t] = "queued"] /\ UNCHANGED registered
  /\ save
  /\ UNCHANGED <<hostVars, procVars, fileVars, upd, flagVars, budget>>

\* The deployment is over: DeployContext::finish unregisters it,
FinishTask(t) ==
  /\ proc = "up"
  /\ task[t] = "running"
  /\ task' = [task EXCEPT ![t] = "unregistered"]
  /\ registered' = None
  /\ UNCHANGED <<hostVars, procVars, fileVars, upd, flagVars, records, budget>>

\* execute_single removes its record,
RemoveRecord(t) ==
  /\ proc = "up"
  /\ task[t] = "unregistered"
  /\ task' = [task EXCEPT ![t] = "unrecorded"]
  /\ save
  /\ UNCHANGED <<hostVars, procVars, fileVars, upd, flagVars, registered,
                 budget>>

\* and unregisters whatever the project has registered by then.
Unregister(t) ==
  /\ proc = "up"
  /\ task[t] = "unrecorded"
  /\ task' = [task EXCEPT ![t] = "draining"]
  /\ registered' = None
  /\ UNCHANGED <<hostVars, procVars, fileVars, upd, flagVars, records, budget>>

\* process_queue: dequeue_deploy, update_task_status, register_running_deploy.
\* Until it is registered the task is in neither map.
PopTask(t, q) ==
  /\ proc = "up"
  /\ task[t] = "draining" /\ task[q] = "queued"
  /\ task' = [task EXCEPT ![t] = "done", ![q] = "popped"]
  /\ UNCHANGED <<hostVars, procVars, fileVars, upd, flagVars, registered,
                 records, budget>>

PromoteTask(q) ==
  /\ proc = "up"
  /\ task[q] = "popped"
  /\ task' = [task EXCEPT ![q] = "promoted"]
  /\ save
  /\ UNCHANGED <<hostVars, procVars, fileVars, upd, flagVars, registered,
                 budget>>

RegisterTask(q) ==
  /\ proc = "up"
  /\ task[q] = "promoted"
  /\ task' = [task EXCEPT ![q] = "running"]
  /\ registered' = q
  /\ UNCHANGED <<hostVars, procVars, fileVars, upd, flagVars, records, budget>>

\* The queue is drained; check_and_trigger_pending_update spawns an updater if
\* an update is pending and no project has anything running or queued.
DrainTask(t) ==
  /\ proc = "up"
  /\ task[t] = "draining" /\ DeployQueue = {}
  /\ task' = [task EXCEPT ![t] = "done"]
  /\ \/ /\ pending # None /\ registered = None
        /\ \E u \in Updaters : Starts(u, "waiting", "deferred", FirstVersion)
     \/ /\ \/ pending = None \/ registered # None
           \/ \A u \in Updaters : upd[u] # Idle
        /\ UNCHANGED upd
  /\ UNCHANGED <<hostVars, procVars, fileVars, flagVars, registered, records,
                 budget>>

\* Cleanup takes a task out of the queue that nobody has started in ten minutes.
ExpireTask(t) ==
  /\ proc = "up"
  /\ task[t] = "queued"
  /\ task' = [task EXCEPT ![t] = "expired"]
  /\ UNCHANGED <<hostVars, procVars, fileVars, upd, flagVars, registered,
                 records, budget>>

DriverStep(t) ==
  \/ RemoveRecord(t) \/ Unregister(t) \/ PromoteTask(t) \/ RegisterTask(t)
  \/ DrainTask(t) \/ ExpireTask(t)
  \/ \E q \in Tasks : PopTask(t, q)

\* What a driver still does for a task that has ended; a task that has not.
Ended == {"unregistered", "unrecorded", "draining"}
InHand == {"queued", "popped", "promoted", "running"}

\* recover_persisted_tasks with this list: every recorded task is again as it
\* was recorded.  What the process before it had in hand is lost if it is not in
\* the list and had not ended.
RecoverFrom(list) ==
  LET executed == { t \in Tasks : list[t] = "running" }
  IN  /\ task' = [t \in Tasks |->
                    CASE list[t] # None -> list[t]
                      [] list[t] = None /\ task[t] \in Ended -> "done"
                      [] list[t] = None /\ task[t] \in InHand -> "lost"
                      [] OTHER -> task[t]]
      /\ registered' \in IF executed = {} THEN {None} ELSE executed

-------------------------------------------------------------------------------
(* The second process: a canary, or the one that takes over.  Both are the *)
(* ordinary agent, and recover what their queue.json lists.                *)

\* It finishes a task of its list, drains its queue one task further, and writes
\* its list: the file loses every record that is not in it.
ChildEnds(t) ==
  /\ child.state \in {"canary", "alive"}
  /\ child.has[t] = "running"
  /\ LET left == [child.has EXCEPT ![t] = None]
         waiting == { q \in Tasks : left[q] = "queued" }
     IN  \E list \in IF waiting = {} THEN {left}
                     ELSE { [left EXCEPT ![q] = "running"] : q \in waiting } :
           /\ child' = [child EXCEPT !.has = list]
           /\ records' = list
  /\ UNCHANGED <<hostVars, version, proc, relaunch, fileVars, upd, flagVars,
                 task, registered, budget>>

-------------------------------------------------------------------------------
(* How an update begins                                                    *)

\* The loop ticks: latest.json is read, and names a newer version.
CheckUpdate(u) ==
  /\ proc = "up"
  /\ \A w \in Updaters : upd[w] = Idle \/ upd[w].kind # "timer"
  /\ is_newer_version(published, version)
  /\ Starts(u, "checked", "timer", published)
  /\ UNCHANGED <<hostVars, procVars, fileVars, flagVars, taskVars, budget>>

\* A deployment is registered: the update will be deferred ...
FindBusy(u) ==
  /\ registered # None
  /\ Goes(u, "checked", "deferring")
  /\ UNCHANGED <<hostVars, procVars, fileVars, flagVars, taskVars, budget>>

\* ... with another lock, and perhaps after the deployment has ended.
DeferUpdate(u) ==
  /\ Ends(u, "deferring")
  /\ pending' = upd[u].goal
  /\ UNCHANGED <<hostVars, procVars, fileVars, inProgress, taskVars, budget>>

\* apply_update_internal.
BeginUpdate(u) ==
  /\ registered = None
  /\ Goes(u, "checked", "downloading")
  /\ inProgress' = TRUE
  /\ UNCHANGED <<hostVars, procVars, fileVars, pending, taskVars, budget>>

\* trigger_pending_update takes the pending version ...
trigger_pending_update(u) ==
  /\ IF pending # None
     THEN /\ upd[u].at = "waiting"
          /\ upd' = [upd EXCEPT ![u].at = "rechecking", ![u].goal = pending]
     ELSE Ends(u, "waiting")
  /\ UNCHANGED <<hostVars, procVars, fileVars, flagVars, taskVars, budget>>

\* ... and looks at the deployments again before it begins.
RecheckDeploys(u) ==
  /\ IF registered = None /\ DeployQueue = {}
     THEN Goes(u, "rechecking", "downloading") /\ inProgress' = TRUE
     ELSE Ends(u, "rechecking") /\ UNCHANGED inProgress
  /\ UNCHANGED <<hostVars, procVars, fileVars, pending, taskVars, budget>>

\* POST /update installs the published version, newer or not, whatever runs,
\* and does not set update_in_progress.
force_update(u) ==
  /\ proc = "up"
  /\ Spend("order")
  /\ Starts(u, "downloading", "forced", published)
  /\ UNCHANGED <<hostVars, procVars, fileVars, flagVars, taskVars>>

-------------------------------------------------------------------------------
(* download_and_apply_update                                               *)

\* An error returns through apply_update_internal, which resets the flags;
\* a forced update only logs it.
reset_flags(u) ==
  IF upd[u].kind = "forced" THEN UNCHANGED flagVars
  ELSE pending' = None /\ inProgress' = FALSE

Fails(u, from) == Ends(u, from) /\ reset_flags(u)

\* The body is complete before the file is created and written.
DownloadBinary(u) ==
  /\ Goes(u, "downloading", "downloaded")
  /\ \/ /\ temp' = [temp EXCEPT ![upd[u].goal] =
                      IF upd[u].goal \in Broken THEN "broken" ELSE "good"]
        /\ UNCHANGED budget
     \/ temp' = [temp EXCEPT ![upd[u].goal] = "corrupt"] /\ Spend("fault")
  /\ UNCHANGED <<hostVars, procVars, disk, img, flagVars, taskVars>>

\* The request fails, or the file cannot be written to its end.
DownloadFails(u) ==
  /\ Fails(u, "downloading")
  /\ Spend("fault")
  /\ temp' \in {temp, [temp EXCEPT ![upd[u].goal] = "partial"]}
  /\ UNCHANGED <<hostVars, procVars, disk, img, taskVars>>

VerifyChecksum(u) ==
  LET v == upd[u].goal
  IN /\ upd[u].at = "downloaded"
     /\ IF v \in Checksummed /\ temp[v] \notin {"good", "broken"}
        THEN Fails(u, "downloaded") /\ temp' = [temp EXCEPT ![v] = None]
        ELSE Goes(u, "downloaded", "verified") /\ UNCHANGED <<temp, flagVars>>
  /\ UNCHANGED <<hostVars, procVars, disk, img, taskVars, budget>>

\* run_canary_health_check starts the new binary, from the temporary directory,
\* on the canary port.  It recovers the agent's queue.json before it serves, if
\* it has the same one.
StartCanary(u) ==
  /\ child.state = "none"
  /\ Goes(u, "verified", "canary")
  /\ child' = [state |-> "canary", ver |-> upd[u].goal, from |-> "exe",
               has |-> IF DataDir /\ temp[upd[u].goal] \in Startable
                       THEN records ELSE NoRecords]
  /\ UNCHANGED <<hostVars, version, proc, relaunch, fileVars, flagVars,
                 taskVars, budget>>

\* It answers and is killed.
CanaryPasses(u) ==
  /\ temp[upd[u].goal] \in Startable
  /\ Goes(u, "canary", "healthy")
  /\ child' = NoChild
  /\ UNCHANGED <<hostVars, version, proc, relaunch, fileVars, flagVars,
                 taskVars, budget>>

\* It does not come up, or does not answer in time.
CanaryFails(u) ==
  /\ Fails(u, "canary")
  /\ IF temp[upd[u].goal] = "good" THEN Spend("fault") ELSE UNCHANGED budget
  /\ temp' = [temp EXCEPT ![upd[u].goal] = None]
  /\ child' = NoChild
  /\ UNCHANGED <<hostVars, version, proc, relaunch, disk, img, taskVars>>

\* rename(current, backup), if there is a current binary.
BackupBinary(u) ==
  /\ upd[u].at = "healthy"
  /\ upd' = [upd EXCEPT ![u].at = "backed", ![u].path = current_exe]
  /\ IF disk[current_exe] # None
     THEN ~InUse("bak") /\ Move(current_exe, "bak")
     ELSE UNCHANGED <<disk, img>>
  /\ UNCHANGED <<hostVars, procVars, temp, flagVars, taskVars, budget>>

BackupFails(u) ==
  /\ disk[current_exe] # None
  /\ Fails(u, "healthy")
  /\ IF InUse("bak") THEN UNCHANGED budget ELSE Spend("fault")
  /\ UNCHANGED <<hostVars, procVars, fileVars, taskVars>>

\* rename(temp, current).
InstallBinary(u) ==
  /\ temp[upd[u].goal] # None
  /\ ~InUse(upd[u].path)
  /\ Goes(u, "backed", "installed")
  /\ disk' = [disk EXCEPT ![upd[u].path] =
                 [ver |-> upd[u].goal, build |-> temp[upd[u].goal]]]
  /\ img' = IF img = upd[u].path THEN "gone" ELSE img
  /\ temp' = [temp EXCEPT ![upd[u].goal] = None]
  /\ UNCHANGED <<hostVars, procVars, flagVars, taskVars, budget>>

\* The backup goes back to its place, if there is one.  (The code ignores it
\* when this rename fails as well.)
restore(u) ==
  IF disk["bak"] # None /\ ~InUse(upd[u].path) THEN Move("bak", upd[u].path)
  ELSE UNCHANGED <<disk, img>>

InstallFails(u) ==
  /\ Fails(u, "backed")
  /\ IF temp[upd[u].goal] # None /\ ~InUse(upd[u].path) THEN Spend("fault")
     ELSE UNCHANGED budget
  /\ restore(u)
  /\ UNCHANGED <<hostVars, procVars, temp, taskVars>>

\* set_permissions succeeds and the backup is removed, or it fails.
CleanBackup(u) ==
  /\ Goes(u, "installed", "restarting")
  /\ IF InUse("bak") THEN UNCHANGED <<disk, img>>
     ELSE /\ disk' = [disk EXCEPT !["bak"] = None]
          /\ img' = IF img = "bak" THEN "gone" ELSE img
  /\ UNCHANGED <<hostVars, procVars, temp, flagVars, taskVars, budget>>

PermissionFails(u) ==
  /\ mode \notin WindowsModes
  /\ Fails(u, "installed")
  /\ Spend("fault")
  /\ UNCHANGED <<hostVars, procVars, fileVars, taskVars>>

-------------------------------------------------------------------------------
(* restart_self                                                            *)

\* The process is gone, and every update, flag and driver with it; queue.json
\* and the binaries outlive it.  What starts the agent again, if anything does,
\* is `next`.  (A canary it leaves behind ends with it, as under systemd.)
Dies(next) ==
  /\ proc' = "down"
  /\ relaunch' = next
  /\ child' = NoChild
  /\ upd' = [u \in Updaters |-> Idle]
  /\ pending' = None
  /\ inProgress' = FALSE
  /\ UNCHANGED <<version, img, taskVars>>

\* ... and the new process is the agent.  It has read queue.json when it
\* started; its first save drops what the old process added later.
HandsOver ==
  /\ version' = child.ver
  /\ img' = child.from
  /\ child' = NoChild
  /\ upd' = [u \in Updaters |-> Idle]
  /\ pending' = None
  /\ inProgress' = FALSE
  /\ RecoverFrom(child.has)
  /\ UNCHANGED <<proc, relaunch, records>>

Exits(next) == IF child.state = "alive" THEN HandsOver ELSE Dies(next)

\* After a restart that was scheduled: the service manager starts what is
\* installed, the script of a console what it was given.  A process that takes
\* over may be supervised or not.
Scheduled(u) ==
  CASE mode \in ServiceModes -> {"exe"}
    [] mode = "takeover"     -> {"exe", None}
    [] OTHER                 -> {upd[u].path}

\* After a crash nothing starts an agent that runs in a console, unless its
\* script was already waiting.
Supervised ==
  CASE mode \in ServiceModes -> {"exe"}
    [] mode = "takeover"     -> {"exe", None}
    [] OTHER ->
         LET waiting == { u \in Updaters : upd[u].at = "exiting" }
         IN  IF waiting = {} THEN {None} ELSE { upd[u].path : u \in waiting }

ScheduleRestart(u) ==
  /\ mode # "takeover"
  /\ upd[u].at = "restarting"
  /\ \E tools \in SUBSET RestartTools :
       /\ IF tools = RestartTools THEN UNCHANGED budget ELSE Spend("fault")
       /\ \/ /\ schedule_restart(tools, upd[u].path) = "scheduled"
             /\ Goes(u, "restarting", "exiting")
             /\ UNCHANGED <<procVars, img, flagVars, taskVars>>
          \/ /\ schedule_restart(tools, upd[u].path) = "replaced"
             /\ Dies(upd[u].path)
          \/ /\ schedule_restart(tools, upd[u].path) = "failed"
             /\ Fails(u, "restarting")
             /\ UNCHANGED <<procVars, img, taskVars>>
  /\ UNCHANGED <<hostVars, disk, temp>>

\* trigger_shutdown, half a second for the tunnel client, exit(0).
ExitForRestart(u) ==
  /\ upd[u].at = "exiting"
  /\ \E next \in Scheduled(u) : Exits(next)
  /\ UNCHANGED <<hostVars, disk, temp, budget>>

\* restart_with_takeover starts the new binary beside the running process.
SpawnTakeover(u) ==
  /\ mode = "takeover"
  /\ upd[u].at = "restarting"
  /\ IF disk[upd[u].path] = None
     THEN Fails(u, "restarting") /\ UNCHANGED child
     ELSE /\ Goes(u, "restarting", "spawned")
          /\ child' = [state |-> "alive", ver |-> disk[upd[u].path].ver,
                       from |-> upd[u].path, has |-> records]
          /\ UNCHANGED flagVars
  /\ UNCHANGED <<hostVars, version, proc, relaunch, fileVars, taskVars, budget>>

\* run_agent_with_config binds the HTTP port, which the old process holds:
\* expect("Failed to bind address") ends the new process.
BindFails ==
  /\ child.state = "alive" /\ proc = "up"
  /\ child' = [NoChild EXCEPT !.state = "dead"]
  /\ UNCHANGED <<hostVars, version, proc, relaunch, fileVars, upd, flagVars,
                 taskVars, budget>>

\* After two seconds, and again after thirty, the old process looks whether
\* the new one lives.  The second time its death is not an error, so that
\* update_in_progress stays set.
CheckTakeover(u) ==
  /\ \/ /\ child.state = "alive"
        /\ Goes(u, "spawned", "handover")
        /\ UNCHANGED <<child, flagVars>>
     \/ /\ child.state = "dead"
        /\ Fails(u, "spawned")
        /\ child' = NoChild
     \/ /\ child.state = "dead"
        /\ Ends(u, "handover")
        /\ child' = NoChild
        /\ UNCHANGED inProgress
        /\ pending' = IF upd[u].kind = "forced" THEN pending ELSE None
     \/ /\ child.state = "alive"
        /\ Goes(u, "handover", "exiting")
        /\ UNCHANGED <<child, flagVars>>
  /\ UNCHANGED <<hostVars, version, proc, relaunch, fileVars, taskVars, budget>>

\* The server has moved the ports to the new process: the tunnel client of the
\* old one exits, and the new one can bind.
TakeoverComplete ==
  /\ child.state = "alive" /\ proc = "up"
  /\ HandsOver
  /\ UNCHANGED <<hostVars, disk, temp, budget>>

-------------------------------------------------------------------------------
(* The surroundings                                                        *)

\* The service manager, the script, exec, or a person starts the agent.
StartProcess ==
  /\ proc = "down"
  /\ LET p == IF relaunch = None THEN "exe" ELSE relaunch
     IN  /\ disk[p] # None /\ disk[p].build \in Startable
         /\ version' = disk[p].ver
         /\ img' = p
  /\ proc' = "up"
  /\ relaunch' = None
  /\ RecoverFrom(records)
  /\ UNCHANGED <<hostVars, disk, temp, upd, flagVars, child, records, budget>>

Publish(v) ==
  /\ Spend("order")
  /\ v # published
  /\ published' = v
  /\ UNCHANGED <<mode, procVars, fileVars, upd, flagVars, taskVars>>

Crash ==
  /\ proc = "up"
  /\ Spend("fault")
  /\ \E next \in Supervised : Exits(next)
  /\ UNCHANGED <<hostVars, disk, temp>>

UpdateStep(u) ==
  \/ FindBusy(u) \/ DeferUpdate(u) \/ BeginUpdate(u)
  \/ trigger_pending_update(u) \/ RecheckDeploys(u)
  \/ DownloadBinary(u) \/ DownloadFails(u) \/ VerifyChecksum(u)
  \/ StartCanary(u) \/ CanaryPasses(u) \/ CanaryFails(u)
  \/ BackupBinary(u) \/ BackupFails(u) \/ InstallBinary(u) \/ InstallFails(u)
  \/ CleanBackup(u) \/ PermissionFails(u)
  \/ ScheduleRestart(u) \/ ExitForRestart(u)
  \/ SpawnTakeover(u) \/ CheckTakeover(u)

Next ==
  \/ \E u \in Updaters : UpdateStep(u) \/ CheckUpdate(u) \/ force_update(u)
  \/ \E t \in Tasks :
       AcceptTask(t) \/ FinishTask(t) \/ DriverStep(t) \/ ChildEnds(t)
  \/ \E v \in Versions : Publish(v)
  \/ BindFails \/ TakeoverComplete \/ StartProcess \/ Crash

Spec == Init /\ [][Next]_vars

\* Tokio polls every updater and driver, the check ticks every hour, cleanup
\* every minute.  The agent is started again where something does that; nobody
\* promises that a person will, or that a deployment ends.
FairSpec ==
  /\ Spec
  /\ \A u \in Updaters : WF_vars(UpdateStep(u)) /\ WF_vars(CheckUpdate(u))
  /\ \A t \in Tasks : WF_vars(DriverStep(t))
  /\ WF_vars(BindFails)
  /\ WF_vars(relaunch # None /\ StartProcess)

-------------------------------------------------------------------------------
Sound(file) == /\ file.build \in Startable
               /\ file.ver \in Checksummed => file.build = "good"

\* A binary that comes up is on disk at every moment of an update, whichever
\* step fails and wherever the process dies: the installed one or its backup.
AgentCanStart ==
  \E p \in {"exe", "bak"} : disk[p] # None /\ disk[p].build \in Startable

\* Between updates the installed binary is in its place, however they ended and
\* whatever name the running image has by then: the header of autoupdate.rs
\* promises that a failed update keeps the current version.
FailedUpdateKeepsBinary ==
  proc = "up" /\ (\A u \in Updaters : upd[u].at # "backed")
  => disk["exe"] # None

\* What an update puts in place has come up as a canary, and is what was
\* published if it was published with a checksum (verify_checksum,
\* run_canary_health_check); so is the backup.
InstalledIsVerified == \A p \in Paths : disk[p] # None => Sound(disk[p])

\* The order on releases, with missing parts taken as zero.
Older(a, b) ==
  LET part(v, i) == IF i <= Len(v) THEN v[i] ELSE 0
      n == IF Len(a) > Len(b) THEN Len(a) ELSE Len(b)
  IN  \E i \in 1..n : /\ part(a, i) < part(b, i)
                      /\ \A j \in 1..(i - 1) : part(a, j) = part(b, j)

\* No update that the agent starts by itself goes back to an older release: not
\* one it begins at once, and not one that was deferred, whatever has been
\* published, installed or restarted since.
NoDowngrade ==
  [][\A u \in Updaters :
       /\ upd[u].at # "downloading" /\ upd'[u].at = "downloading"
       /\ upd'[u].kind # "forced"
       => ~Older(upd'[u].goal, version)]_vars

\* The agent is not running, and only a person can start it, or its binary is
\* not in its place.
StaysDown == proc = "down" /\ (relaunch = None \/ disk["exe"] = None)

\* A published version that is newer and sound is running in the end, whatever
\* was deferred, failed or crashed before.  The exceptions: the agent is down
\* for good; or a restart has failed under Windows, where the next update cannot
\* replace the running image that has become the backup.
UpdateTakesEffect ==
  <>[](\/ ~is_newer_version(published, version) \/ published \in Broken
       \/ StaysDown \/ InUse("bak"))

\* The deployment of the task does not hang for ever.
DeploymentEnds(t) == []<>(task[t] # "running")

\* UpdateTakesEffect on the hosts that do not restart by takeover, if no
\* deployment hangs.
RestartTakesEffect ==
  mode # "takeover" /\ (\A t \in Tasks : DeploymentEnds(t)) => UpdateTakesEffect

\* On those hosts, a task that the agent accepted before or during an update
\* ends, in the same process or in the next one, unless its deployment hangs:
\* it runs or expires, also if the agent restarts between two steps of its
\* driver.  The exception is again an agent that is down for good.  Where
\* DataDir is TRUE this does not hold: a canary recovers and removes the records
\* of the agent that tests it (UpdateDataDir.cfg shows how a task is lost).
TaskSurvivesUpdate ==
  mode # "takeover" =>
    \A t \in Tasks :
      DeploymentEnds(t) =>
        (task[t] # "new" ~> (task[t] \in {"done", "expired"} \/ StaysDown))
=============================================================================
