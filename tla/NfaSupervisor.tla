----------------------------- MODULE NfaSupervisor -----------------------------
(***************************************************************************)
(* The supervisor of the alignment service (services/nfa.rs): a loop that  *)
(* restarts the Python process when it exits, and the calls of the API     *)
(* (api/nfa.rs) that start, stop and restart it or align through it.       *)
(*                                                                         *)
(* The child's Mutex is held across awaits: while start waits for the      *)
(* health check and while stop waits for the process to die.  Whoever      *)
(* calls may hang up, which drops his call where it waits.  desired is an  *)
(* atomic flag that nothing ties to the child.  Log lines are left out.    *)
(***************************************************************************)
EXTENDS Integers, FiniteSets

CONSTANTS
  Callers,          \* API calls
  max_concurrent,   \* alignments at a time
  MaxExits,         \* bound on the times a process exits by itself
  MaxSpawnFailures, \* bound on the times the process cannot be spawned
  Nobody            \* an Option that is None

ASSUME NfaAssumption ==
  /\ max_concurrent \in Nat \ {0}
  /\ {MaxExits, MaxSpawnFailures} \subseteq Nat

Loop == "supervise"

VARIABLES
  auto,      \* config.auto_start
  desired,   \* desired_running
  child,     \* the process whose handle is kept, or 0
  spawned,   \* how many processes were spawned; they are 1..spawned
  alive,     \* the processes that run
  killed,    \* the processes that were sent the kill signal
  lock,      \* who holds the child's Mutex, or Nobody
  task,      \* the loop and the calls: what is done, and where it is
  permits,   \* free permits of the semaphore
  failures,  \* spawn failures to come
  exits      \* exits to come

nfaVars == <<auto, desired, child, spawned, alive, killed, lock, task, permits, failures,
             exits>>
procVars == <<spawned, alive, killed, failures, exits>>

Tasks == {Loop} \cup Callers

NfaInit ==
  /\ auto \in BOOLEAN
  /\ desired = auto
  /\ child = 0 /\ spawned = 0 /\ alive = {} /\ killed = {}
  /\ lock = Nobody
  /\ task = [t \in Tasks |-> IF t = Loop
                             THEN [op |-> "supervise", at |-> IF auto THEN "want" ELSE "sleep"]
                             ELSE [op |-> "none", at |-> "idle"]]
  /\ permits = max_concurrent
  /\ failures = MaxSpawnFailures /\ exits = MaxExits

-------------------------------------------------------------------------------
(* process_state and what follows it                                       *)

\* A slip: the handle of a process that has exited is kept.
reaped_Kept == child

\* try_wait: the handle of a process that has exited is dropped.
reaped == IF child \in alive THEN child ELSE 0

GoTo(t, l) == task' = [task EXCEPT ![t].at = l]

\* Where a call goes on when its start, or its look at the process, is over.
Resume(t) == CASE t = Loop -> "sleep"
               [] task[t].op = "align" -> "queue"
               [] OTHER -> "done"

-------------------------------------------------------------------------------
(* Slips, each of the operation it is named after; no definition uses them. *)

\* start does not look again once it has the lock.
StartSpawn_Unchecked(t) ==
  /\ task[t].at = "spawn" /\ lock = Nobody
  /\ spawned' = spawned + 1
  /\ alive' = alive \cup {spawned + 1}
  /\ child' = spawned + 1
  /\ lock' = t /\ GoTo(t, "health")
  /\ UNCHANGED <<auto, desired, killed, failures, exits, permits>>

-------------------------------------------------------------------------------
(* start                                                                   *)

StartWanted(t) ==
  /\ task[t].at = "want"
  /\ desired' = TRUE
  /\ GoTo(t, "peek")
  /\ UNCHANGED <<auto, child, procVars, lock, permits>>

StartPeek(t) ==
  /\ task[t].at = "peek" /\ lock = Nobody
  /\ child' = reaped
  /\ GoTo(t, IF child \in alive THEN Resume(t) ELSE "spawn")
  /\ UNCHANGED <<auto, desired, procVars, lock, permits>>

\* Spawned with the lock held, unless somebody else has done it meanwhile.
StartSpawn(t) ==
  /\ task[t].at = "spawn" /\ lock = Nobody
  /\ \/ /\ child # 0
        /\ GoTo(t, Resume(t))
        /\ UNCHANGED <<child, procVars, lock>>
     \/ /\ child = 0
        /\ spawned' = spawned + 1
        /\ alive' = alive \cup {spawned + 1}
        /\ child' = spawned + 1
        /\ lock' = t /\ GoTo(t, "health")
        /\ UNCHANGED <<killed, failures, exits>>
  /\ UNCHANGED <<auto, desired, permits>>

\* The error ends an alignment; the loop logs it.
SpawnFails(t) ==
  /\ task[t].at = "spawn" /\ lock = Nobody /\ child = 0 /\ failures > 0
  /\ failures' = failures - 1
  /\ GoTo(t, IF t = Loop THEN "sleep" ELSE "done")
  /\ UNCHANGED <<auto, desired, child, spawned, alive, killed, exits, lock, permits>>

\* The health check has passed, or 20 s are over.
StartReady(t) ==
  /\ task[t].at = "health"
  /\ lock' = Nobody /\ GoTo(t, Resume(t))
  /\ UNCHANGED <<auto, desired, child, procVars, permits>>

-------------------------------------------------------------------------------
(* stop and restart                                                        *)

StopWanted(t) ==
  /\ task[t].at = "unwant"
  /\ desired' = FALSE
  /\ GoTo(t, "take")
  /\ UNCHANGED <<auto, child, procVars, lock, permits>>

AfterStop(t) == IF task[t].op = "restart" THEN "backoff" ELSE "done"

\* The handle is taken and the signal sent in one step, without an await.
StopTake(t) ==
  /\ task[t].at = "take" /\ lock = Nobody
  /\ IF child = 0
     THEN GoTo(t, AfterStop(t)) /\ UNCHANGED <<lock, child, killed>>
     ELSE /\ lock' = t /\ child' = 0
          /\ killed' = killed \cup {child}
          /\ GoTo(t, "dying")
  /\ UNCHANGED <<auto, desired, spawned, alive, failures, exits, permits>>

StopWaited(t) ==
  /\ task[t].at = "dying" /\ killed \cap alive = {}
  /\ lock' = Nobody /\ GoTo(t, AfterStop(t))
  /\ UNCHANGED <<auto, desired, child, procVars, permits>>

-------------------------------------------------------------------------------
(* ensure_running, align and status                                        *)

\* Without auto_start an alignment only looks.
EnsureRunning(t) ==
  /\ task[t].at = "ensure" /\ lock = Nobody
  /\ child' = reaped
  /\ GoTo(t, IF child \in alive THEN "queue" ELSE "done")
  /\ UNCHANGED <<auto, desired, procVars, lock, permits>>

\* status looks at the process too, and drops the handle of one that has exited.
Status(t) ==
  /\ task[t].at = "status" /\ lock = Nobody
  /\ child' = reaped
  /\ GoTo(t, "done")
  /\ UNCHANGED <<auto, desired, procVars, lock, permits>>

AcquirePermit(t) ==
  /\ task[t].at = "queue" /\ permits > 0
  /\ permits' = permits - 1 /\ GoTo(t, "aligning")
  /\ UNCHANGED <<auto, desired, child, procVars, lock>>

\* create_job and poll_job, or align_sync, end with a result, with an error of
\* a service that is gone or slow, or at a timeout; the permit is dropped.
AlignEnds(t) ==
  /\ task[t].at = "aligning"
  /\ permits' = permits + 1 /\ GoTo(t, "done")
  /\ UNCHANGED <<auto, desired, child, procVars, lock>>

-------------------------------------------------------------------------------
(* supervise                                                               *)

LoadDesired ==
  /\ task[Loop].at = "sleep" /\ desired
  /\ GoTo(Loop, "check")
  /\ UNCHANGED <<auto, desired, child, procVars, lock, permits>>

CheckProcess ==
  /\ task[Loop].at = "check" /\ lock = Nobody
  /\ child' = reaped
  /\ GoTo(Loop, IF child \in alive THEN "sleep" ELSE "backoff")
  /\ UNCHANGED <<auto, desired, procVars, lock, permits>>

\* The loop and a restart sleep before they start; neither looks at desired.
BackoffOver(t) ==
  /\ task[t].at = "backoff"
  /\ GoTo(t, "want")
  /\ UNCHANGED <<auto, desired, child, procVars, lock, permits>>

-------------------------------------------------------------------------------
(* Callers and the process                                                 *)

Call(t) ==
  /\ task[t].at = "idle"
  /\ \E op \in {"start", "stop", "restart", "align", "status"} :
       task' = [task EXCEPT ![t] =
                  [op |-> op,
                   at |-> CASE op = "start" -> "want"
                            [] op \in {"stop", "restart"} -> "unwant"
                            [] op = "align" -> IF auto THEN "want" ELSE "ensure"
                            [] op = "status" -> "status"]]
  /\ UNCHANGED <<auto, desired, child, procVars, lock, permits>>

\* What the call holds is dropped with it; a kill signal stays sent.
CallerHangsUp(t) ==
  /\ task[t].at \notin {"idle", "done"}
  /\ lock' = IF lock = t THEN Nobody ELSE lock
  /\ permits' = IF task[t].at = "aligning" THEN permits + 1 ELSE permits
  /\ GoTo(t, "done")
  /\ UNCHANGED <<auto, desired, child, procVars>>

ProcessExits(p) ==
  /\ p \in alive \ killed /\ exits > 0
  /\ alive' = alive \ {p} /\ exits' = exits - 1
  /\ UNCHANGED <<auto, desired, child, spawned, killed, failures, lock, task, permits>>

KilledDies(p) ==
  /\ p \in alive \cap killed
  /\ alive' = alive \ {p}
  /\ UNCHANGED <<auto, desired, child, spawned, killed, failures, exits, lock, task, permits>>

TaskStep(t) ==
  \/ StartWanted(t) \/ StartPeek(t) \/ StartSpawn(t) \/ SpawnFails(t) \/ StartReady(t)
  \/ StopWanted(t) \/ StopTake(t) \/ StopWaited(t) \/ BackoffOver(t)
  \/ EnsureRunning(t) \/ Status(t) \/ AcquirePermit(t) \/ AlignEnds(t)

SuperviseStep == TaskStep(Loop) \/ LoadDesired \/ CheckProcess

NfaNext ==
  \/ SuperviseStep
  \/ \E t \in Callers : TaskStep(t) \/ Call(t) \/ CallerHangsUp(t)
  \/ \E p \in 1..spawned : ProcessExits(p) \/ KilledDies(p)

NfaSpec == NfaInit /\ [][NfaNext]_nfaVars

-------------------------------------------------------------------------------
(* Properties                                                              *)

\* Two starts, the loop and a stop race for the child, callers hang up in the
\* middle: no process runs on that the supervisor has lost the handle of, unless
\* it is dying.
NoStrayProcess == alive \ killed \subseteq {child}

\* If in the end the service is wanted, it runs in the end, whatever exited and
\* whoever hung up before.
WantedServiceRuns == <>[]desired => <>[](child \in alive)
===============================================================================
