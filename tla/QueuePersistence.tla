--------------------------- MODULE QueuePersistence ---------------------------
(***************************************************************************)
(* services/queue_persistence.rs: the list of tasks that survives a        *)
(* restart.  A PersistedTask is a record [req, status]: `req` stands for   *)
(* the request's own data (task_id, project, deploy_log_id, commit_hash,   *)
(* branch), `status` is "queued" or "running".  Timestamps are left out:   *)
(* recovery only copies them.  TaskOf gives the task_id of a request.      *)
(***************************************************************************)
EXTENDS Retain

CONSTANTS
  Requests,   \* the POST /trigger requests
  TaskIds,    \* the task ids they carry or are given
  TaskOf      \* the task id of each request

ASSUME TaskOfAssumption == TaskOf \in [Requests -> TaskIds]

PersistedStatus == {"queued", "running"}

PersistedTask == [req : Requests, status : PersistedStatus]

\* Some record of the list has this task id.
HasTask(tasks, id) == \E i \in DOMAIN tasks : TaskOf[tasks[i].req] = id

\* PersistedQueue::add_task: a task id that is already there is not added.
add_task(tasks, task) ==
  IF HasTask(tasks, TaskOf[task.req]) THEN tasks ELSE Append(tasks, task)

\* PersistedQueue::remove_task: retain every record with another task id.
remove_task(tasks, id) ==
  Retained(tasks, { task \in PersistedTask : TaskOf[task.req] # id })

\* PersistedQueue::update_task_status: `find` stops at the first record with
\* the id, and add_task never lets a second one in.
update_task_status(tasks, id, status) ==
  [ i \in DOMAIN tasks |->
      IF /\ TaskOf[tasks[i].req] = id
         /\ \A j \in DOMAIN tasks : j < i => TaskOf[tasks[j].req] # id
      THEN [tasks[i] EXCEPT !.status = status]
      ELSE tasks[i] ]

\* The requests that the list has a record of.
RecordedRequests(tasks) == { tasks[i].req : i \in DOMAIN tasks }
===============================================================================
