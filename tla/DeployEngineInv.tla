--------------------------- MODULE DeployEngineInv ---------------------------
(***************************************************************************)
(* The inductive invariants of DeployEngine: the strengthenings its proofs *)
(* need (DeployEngineProofs, DeployTaskProofs).                            *)
(***************************************************************************)
EXTENDS DeployEngine

-------------------------------------------------------------------------------
(* For TypeOK: a driver that works on a task has one.                      *)

Holding == {"deploying", "finishing", "archived", "released", "removed",
            "dequeued", "promoted"}

HolderHasRequest == \A d \in Requests : drv[d] \in Holding => cur[d] \in Requests

TypeInv == TypeOK /\ HolderHasRequest

-------------------------------------------------------------------------------
\* A dead process runs no handler and no driver.
DeadRunsNothing ==
  boot = "down" =>
    \A r \in Requests : pc[r] \notin InFlight /\ drv[r] = "none"

-------------------------------------------------------------------------------
(* For AckedTaskIsDurable, when saves do not fail and task ids are unique. *)

\* From the moment its record is written, an unfinished task stays recorded, in
\* the file and in the list that the next save writes to the file.
RecordedUntilFinished ==
  \A r \in Requests \ finished :
    pc[r] \in {"recorded", "launching", "acked"} =>
      /\ HasTask(disk, TaskOf[r])
      /\ boot # "down" => HasTask(mem, TaskOf[r])

\* A driver that is about to remove a record, or to let its task go, has seen
\* that task to its end.
RemovesOnlyFinished ==
  \A d \in Requests :
    drv[d] \in {"finishing", "archived", "released", "removed"}
      => cur[d] \in finished

DurableInv ==
  /\ TypeInv
  /\ RecordedUntilFinished
  /\ RemovesOnlyFinished

-------------------------------------------------------------------------------
(* For TaskHasOnePlace.                                                    *)

\* The handler has not handed its task to the engine.
Fresh == {"idle", "busy", "free", "admitted", "refused", "registered",
          "launching"}

\* No driver and no queue has the request.
Unplaced(r) == r \notin Queued /\ \A d \in Requests : cur[d] # r

FreshIsUnplaced == \A r \in Requests : pc[r] \in Fresh => Unplaced(r)

FreshIsUnrecorded ==
  \A r \in Requests :
    pc[r] \in Fresh \ {"launching"} =>
      r \notin RecordedRequests(mem) \cup RecordedRequests(disk)

\* Handlers run only while the server does.
HandlersNeedServer ==
  boot # "up" => \A r \in Requests : pc[r] \notin InFlight

\* Two records never name the same request.
DistinctRequests(tasklist) ==
  \A i, j \in DOMAIN tasklist : tasklist[i].req = tasklist[j].req => i = j

RecordsAreDistinct ==
  DistinctRequests(mem) /\ DistinctRequests(disk) /\ DistinctRequests(todo)

\* What recovery has still to look at is nowhere yet.
TodoIsUnplaced ==
  \A i \in DOMAIN todo :
    Unplaced(todo[i].req) /\ pc[todo[i].req] \notin Fresh

\* Recovery has nothing to do while the server runs, and a dead process holds
\* no task.
BootPhases ==
  /\ boot = "up" => todo = << >>
  /\ boot = "down" => \A r \in Requests : Unplaced(r)

PlaceInv ==
  /\ TypeInv
  /\ TaskHasOnePlace
  /\ FreshIsUnplaced
  /\ FreshIsUnrecorded
  /\ HandlersNeedServer
  /\ RecordsAreDistinct
  /\ TodoIsUnplaced
  /\ BootPhases

-------------------------------------------------------------------------------
(* For the properties that follow a task through the engine.               *)

\* Where the drivers that have the request are: no driver, or one, has it.
Hands(r) == { drv[d] : d \in { e \in Requests : cur[e] = r } }

\* A driver that works on no task has let the last one go.
IdleHasNoRequest ==
  \A d \in Requests : drv[d] \notin Holding => cur[d] = NoRequest

\* No driver has been spawned for a request whose handler, or whose record,
\* may still spawn one.
SpawnedOnce ==
  \A r \in Requests :
    pc[r] \in Fresh \/ r \in RecordedRequests(todo) => drv[r] = "none"

HandsInv ==
  /\ PlaceInv
  /\ DeadRunsNothing
  /\ RemovesOnlyFinished
  /\ IdleHasNoRequest
  /\ SpawnedOnce

\* For AckedTaskIsHeld: an accepted task waits, also in the records that
\* recovery has still to look at, or is held, or has ended.
EnqueuedIsHeld ==
  boot # "down" =>
    \A r \in Requests :
      pc[r] \in {"enqueued", "recorded", "acked"} =>
        \/ r \in Queued \cup RecordedRequests(todo)
        \/ Hands(r) # {}
        \/ r \in finished \cup expired \cup skipped

\* For HeldTaskIsRecorded: so are the handlers' tasks from their add_task on,
\* and the records that recovery has still to look at.
PlacedIsRecorded ==
  \A r \in Requests \ finished :
    \/ pc[r] \in {"recorded", "launching"}
    \/ pc[r] = "acked" /\ ~ Unplaced(r)
    => HasTask(mem, TaskOf[r])

TodoIsRecorded == \A r \in RecordedRequests(todo) : HasTask(mem, TaskOf[r])

\* For StoreAgreesWithEngine: what the store shows of a task at each point of
\* its way.
StoreFollowsTask ==
  \A r \in Requests :
    /\ r \in Queued \/ "dequeued" \in Hands(r) => tasks[TaskOf[r]] = "queued"
    /\ pc[r] \in {"registered", "launching"}
       \/ "promoted" \in Hands(r) \/ "deploying" \in Hands(r)
         => tasks[TaskOf[r]] = "running"

\* For TaskSettlesOnce: a task of the history is past its deployment, and
\* neither its handler nor recovery will hand it to the engine again.
HistoryIsPast ==
  /\ \A i, j \in DOMAIN history : history[i].task = history[j].task => i = j
  /\ \A i \in DOMAIN history, r \in Requests :
       TaskOf[r] = history[i].task =>
         /\ r \notin Queued
         /\ Hands(r) \subseteq {"archived", "released", "removed"}
         /\ pc[r] \notin Fresh
         /\ r \notin RecordedRequests(todo)
  /\ boot = "down" => history = << >>

\* For QuietIsClean: a log channel belongs to a task whose handler or driver
\* will close it, and an active task to one that will finish it.
ChannelHasOwner ==
  \A id \in channels :
    \E r \in Requests :
      /\ TaskOf[r] = id
      /\ \/ pc[r] \in {"registered", "launching"}
         \/ Hands(r) \cap {"deploying", "finishing", "archived"} # {}

ActiveTaskHasOwner ==
  \A r \in Requests :
    tasks[TaskOf[r]] # Absent =>
      \/ r \in expired \cup Queued
      \/ pc[r] \in {"registered", "launching"}
      \/ Hands(r) \cap {"dequeued", "promoted", "deploying"} # {}
===============================================================================
