------------------------------- MODULE TaskStore -------------------------------
(***************************************************************************)
(* state/task_store.rs and the task states of domain/deploy.rs.  `tasks`   *)
(* is the map of active tasks: a function from task id to DeployStatus, or *)
(* "absent" for a key the HashMap does not have.  `history` is the deque   *)
(* of finished tasks, newest first: records [task, status].  Exit codes,   *)
(* stages and timestamps are left out.                                     *)
(***************************************************************************)
EXTENDS Retain

CONSTANT MAX_TASK_HISTORY   \* config/env.rs: 100

ASSUME HistoryAssumption == MAX_TASK_HISTORY \in Nat

DeployStatus == {"queued", "running", "success", "failed"}

\* DeployStatus::is_terminal
is_terminal(status) == status \in {"success", "failed"}

Absent == "absent"

\* TaskStore::create inserts, replacing a task that has the same id.
create(tasks, id, status) == [tasks EXCEPT ![id] = status]

\* TaskStore::update_status does nothing for an id that is not active.
update_status(tasks, id, status) ==
  [tasks EXCEPT ![id] = IF @ = Absent THEN Absent ELSE status]

\* The first half of TaskStore::finish: the task leaves the active map.
remove(tasks, id) == [tasks EXCEPT ![id] = Absent]

\* TaskStore::add_to_history: push_front, then pop_back down to the limit.
add_to_history(history, task) ==
  LET longer == <<task>> \o history
  IN  IF Len(longer) > MAX_TASK_HISTORY
      THEN SubSeq(longer, 1, MAX_TASK_HISTORY)
      ELSE longer

\* The two halves of TaskStore::cleanup_stale, where `stale` holds the task
\* ids that finished longer ago than the retention time.
cleanup_stale_tasks(tasks, stale) ==
  [ id \in DOMAIN tasks |->
      IF id \in stale /\ is_terminal(tasks[id]) THEN Absent ELSE tasks[id] ]

cleanup_stale_history(history, stale) ==
  Retained(history, { e \in Elements(history) : e.task \notin stale })
===============================================================================
