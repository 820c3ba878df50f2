----------------------------- MODULE DeployContext -----------------------------
(***************************************************************************)
(* What the four deployment strategies share (services/deploy/context.rs,  *)
(* domain/deploy.rs and the timeout task of services/deploy/mod.rs): the   *)
(* stages of a deployment, its cancel token, how it finishes and how the   *)
(* Deploy Center is told.  Log lines are left out; LogStream models them.  *)
(*                                                                         *)
(* A command the agent runs is a place of pc; that it ends, and how, is    *)
(* the environment's choice.  A command that fails although nothing is     *)
(* wrong with what it was given spends one of MaxFaults.                   *)
(***************************************************************************)
EXTENDS Integers, FiniteSets

CONSTANTS
  Deploys,      \* deployments that run at the same time
  Strategies,   \* the assignments of a strategy to each deployment to look at
  MaxFaults,    \* bound on the commands and calls that fail by themselves
  MaxCancels,   \* bound on the deployments that time out
  None

StageStatus == {"pending", "running", "success", "failed", "skipped"}
StageNames ==
  {"git_pull", "docker_pull", "health_check", "compose_up", "post_deploy_monitor",
   "docker_build", "docker_push", "docker_push_latest", "execute_script"}
StageVectors == UNION { [N -> StageStatus] : N \in SUBSET StageNames }

\* What a deployment can end in.
Outcomes == [status : {"success", "failed"}, code : Int, stages : StageVectors]

ASSUME DeployContextAssumption ==
  /\ MaxFaults \in Nat /\ MaxCancels \in Nat
  /\ Strategies \subseteq [Deploys -> {"script", "docker_compose", "docker_build", "xiaojincut"}]
  /\ None \notin Outcomes /\ None \notin Deploys

VARIABLES
  strategy,    \* the strategy of each deployment
  pc,          \* where each deployment is
  stages,      \* its stages vector: a status for each name
  exit_code,   \* its exit_code: 0, or the code of the step that failed
  cancelled,   \* has its cancel token been cancelled?
  outcome,     \* what task_store.finish recorded: None or [status, code, stages]
  attempt,     \* the attempt of do_notify that is under way
  center,      \* the outcome the Deploy Center has been told, or None
  faults       \* faults left to happen

contextVars == <<strategy, pc, stages, exit_code, cancelled, outcome, attempt,
                 center, faults>>

ContextInit ==
  /\ strategy \in Strategies
  /\ pc = [d \in Deploys |-> "begin"]
  /\ stages = [d \in Deploys |-> <<>>]
  /\ exit_code = [d \in Deploys |-> 0]
  /\ cancelled = [d \in Deploys |-> FALSE]
  /\ outcome = [d \in Deploys |-> None]
  /\ attempt = [d \in Deploys |-> 0]
  /\ center = [d \in Deploys |-> None]
  /\ faults = MaxFaults

At(d, s, place) == strategy[d] = s /\ pc[d] = place

Goto(d, place) == pc' = [pc EXCEPT ![d] = place]

Faultless == faults' = faults
Fault == faults > 0 /\ faults' = faults - 1

\* The step of a command: its success is free, its failure a fault.
Ends(ok) == IF ok THEN Faultless ELSE Fault

-------------------------------------------------------------------------------
(* DeployStage: new, start, finish and skip on one stage of the vector.    *)

new(names) == [n \in names |-> "pending"]

start(st, name) == [st EXCEPT ![name] = "running"]

finish_stage(st, name, success) ==
  [st EXCEPT ![name] = IF success THEN "success" ELSE "failed"]

skip(st, name) == [st EXCEPT ![name] = "skipped"]

-------------------------------------------------------------------------------
(* DeployContext                                                           *)

\* update_stages: the strategy's vector replaces the one of the task.
update_stages(d, st) == stages' = [stages EXCEPT ![d] = st]

\* (A slip:) a cancelled deployment gets a status of its own.
finish_OwnStatus(d, status, code, st) ==
  /\ update_stages(d, st)
  /\ outcome' = [outcome EXCEPT ![d] =
                   [status |-> IF code = -2 THEN "cancelled" ELSE status,
                    code |-> code, stages |-> st]]
  /\ exit_code' = [exit_code EXCEPT ![d] = code]
  /\ attempt' = [attempt EXCEPT ![d] = 1]
  /\ Goto(d, "notify")
  /\ UNCHANGED <<strategy, cancelled, center>>

\* finish: the stages, the terminal status and the code reach the task store,
\* then the log channel closes, the project is unregistered (DeployEngine)
\* and the Deploy Center is told.
finish(d, status, code, st) ==
  /\ update_stages(d, st)
  /\ outcome' = [outcome EXCEPT ![d] = [status |-> status, code |-> code, stages |-> st]]
  /\ exit_code' = [exit_code EXCEPT ![d] = code]
  /\ attempt' = [attempt EXCEPT ![d] = 1]
  /\ Goto(d, "notify")
  /\ UNCHANGED <<strategy, cancelled, center>>

\* The strategies' answer to a cancelled token.
finish_cancelled(d) == finish(d, "failed", -2, stages[d])

\* What a step of a strategy leaves alone when the deployment goes on.
goes_on(d, place, st, code) ==
  /\ update_stages(d, st)
  /\ exit_code' = [exit_code EXCEPT ![d] = code]
  /\ Goto(d, place)
  /\ UNCHANGED <<strategy, cancelled, outcome, attempt, center>>

\* (A slip, see below:) the first failure is final.
do_notify_Once(d) ==
  /\ pc[d] = "notify"
  /\ \E heard \in BOOLEAN, answered \in BOOLEAN :
       /\ answered => heard
       /\ Ends(answered)
       /\ center' = IF heard THEN [center EXCEPT ![d] = outcome[d]] ELSE center
       /\ Goto(d, "done")
       /\ attempt' = attempt
  /\ UNCHANGED <<strategy, stages, exit_code, cancelled, outcome>>

\* do_notify: the status is sent again after a failure, three times at most;
\* the request may have been served although its answer was lost.
do_notify(d) ==
  /\ pc[d] = "notify"
  /\ \E heard \in BOOLEAN, answered \in BOOLEAN :
       /\ answered => heard
       /\ Ends(answered)
       /\ center' = IF heard THEN [center EXCEPT ![d] = outcome[d]] ELSE center
       /\ IF answered \/ attempt[d] = 3
          THEN Goto(d, "done") /\ attempt' = attempt
          ELSE pc' = pc /\ attempt' = [attempt EXCEPT ![d] = @ + 1]
  /\ UNCHANGED <<strategy, stages, exit_code, cancelled, outcome>>

\* spawn_timeout: the token is cancelled when the deployment has taken too
\* long; execute_single aborts this task once the strategy has returned.
spawn_timeout(d) ==
  /\ pc[d] # "done"
  /\ ~cancelled[d]
  /\ Cardinality({e \in Deploys : cancelled[e]}) < MaxCancels
  /\ cancelled' = [cancelled EXCEPT ![d] = TRUE]
  /\ UNCHANGED <<strategy, pc, stages, exit_code, outcome, attempt, center, faults>>
===============================================================================
