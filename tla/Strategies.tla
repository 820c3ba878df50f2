------------------------------ MODULE Strategies ------------------------------
(***************************************************************************)
(* Deployments of all four kinds that run at the same time: the compose    *)
(* and build strategies, which meet in the Docker daemon and the registry, *)
(* and, here, services/deploy/script.rs and services/deploy/xiaojincut.rs. *)
(***************************************************************************)
EXTENDS BuildStrategy

strategyVars == <<contextVars, composeVars, buildVars>>

StrategiesInit == ContextInit /\ ComposeInit /\ BuildInit

-------------------------------------------------------------------------------
(* script.rs                                                               *)

BeginScript(d) ==
  /\ At(d, "script", "begin")
  /\ goes_on(d, "git", start(new({"git_pull", "execute_script"}), "git_pull"), 0)
  /\ Faultless
  /\ UNCHANGED <<composeVars, buildVars>>

\* git pull "continues anyway"; the token is looked at before the script starts.
ScriptGitPull(d) ==
  /\ At(d, "script", "git")
  /\ \E ok \in BOOLEAN :
       LET st == finish_stage(stages[d], "git_pull", ok)
       IN  /\ Ends(ok)
           /\ IF cancelled[d] THEN finish(d, "failed", -2, st)
              ELSE goes_on(d, "spawn", start(st, "execute_script"), 0)
  /\ UNCHANGED <<composeVars, buildVars>>

SpawnScript(d) ==
  /\ At(d, "script", "spawn")
  /\ \E ok \in BOOLEAN :
       /\ Ends(ok)
       /\ IF ok THEN goes_on(d, "script", stages[d], 0)
          ELSE finish(d, "failed", -1, finish_stage(stages[d], "execute_script", FALSE))
  /\ UNCHANGED <<composeVars, buildVars>>

\* child.wait() returns; the tasks that copy the output are then waited for.
ScriptExits(d) ==
  /\ At(d, "script", "script")
  /\ \E code \in {0, 1, -1} : goes_on(d, "drain", stages[d], code)
  /\ Faultless
  /\ UNCHANGED <<composeVars, buildVars>>

\* The pipes close when the last process that has inherited them ends.
ScriptDrained(d) ==
  /\ At(d, "script", "drain")
  /\ finish(d, IF exit_code[d] = 0 THEN "success" ELSE "failed", exit_code[d],
            finish_stage(stages[d], "execute_script", exit_code[d] = 0))
  /\ Faultless
  /\ UNCHANGED <<composeVars, buildVars>>

\* (A slip:) the stage is left as it was.
ScriptCancelled_LeavesStage(d) ==
  /\ At(d, "script", "script") /\ cancelled[d]
  /\ finish_cancelled(d)
  /\ Faultless
  /\ UNCHANGED <<composeVars, buildVars>>

ScriptCancelled(d) ==
  /\ At(d, "script", "script") /\ cancelled[d]
  /\ finish(d, "failed", -2, finish_stage(stages[d], "execute_script", FALSE))
  /\ Faultless
  /\ UNCHANGED <<composeVars, buildVars>>

ScriptStep(d) ==
  \/ BeginScript(d) \/ ScriptGitPull(d) \/ SpawnScript(d) \/ ScriptExits(d)
  \/ ScriptDrained(d) \/ ScriptCancelled(d)

-------------------------------------------------------------------------------
(* xiaojincut.rs: no stages; the token counts during the health check only *)

CheckXiaojincut(d) ==
  /\ At(d, "xiaojincut", "begin")
  /\ \/ cancelled[d] /\ finish(d, "failed", -1, <<>>) /\ Faultless
     \/ goes_on(d, "task", stages[d], 0) /\ Faultless
     \/ finish(d, "failed", 1, <<>>) /\ Fault
  /\ UNCHANGED <<composeVars, buildVars>>

\* The request of a task type; an unknown type, an import without a path, an
\* error and an answer that is not a success all end in code 1.
RunXiaojincutTask(d) ==
  /\ At(d, "xiaojincut", "task")
  /\ \/ finish(d, "success", 0, <<>>) /\ Faultless
     \/ finish(d, "failed", 1, <<>>) /\ Fault
  /\ UNCHANGED <<composeVars, buildVars>>

XiaojincutStep(d) == CheckXiaojincut(d) \/ RunXiaojincutTask(d)

-------------------------------------------------------------------------------

ContextStep(d) == do_notify(d) /\ UNCHANGED <<composeVars, buildVars>>

StrategiesNext ==
  \/ \E d \in Deploys :
       \/ ComposeStep(d) /\ UNCHANGED buildVars
       \/ SweepCanary(d) /\ UNCHANGED buildVars
       \/ BuildStep(d) \/ ScriptStep(d) \/ XiaojincutStep(d) \/ ContextStep(d)
       \/ spawn_timeout(d) /\ UNCHANGED <<composeVars, buildVars>>
  \/ \E n \in Names : CanaryRuns(n) /\ UNCHANGED buildVars
  \/ \E t \in Tags : (ServiceRuns(t) \/ Publish(t)) /\ UNCHANGED buildVars

StrategiesSpec == StrategiesInit /\ [][StrategiesNext]_strategyVars

\* What the agent does by itself once it is its turn.  That a command or a
\* script ends is nobody's promise, and neither is a timeout.
AgentStep(d) ==
  \/ BuildCancelled(d) \/ ScriptCancelled(d)
  \/ BeginBuild(d) \/ BeginScript(d) \/ BuildGitFailed(d) \/ SpawnBuild(d)
  \/ BeforePush(d) \/ BeforeLatest(d)
  \/ CheckXiaojincut(d) \/ RunXiaojincutTask(d) \/ ContextStep(d)

-------------------------------------------------------------------------------
(* Properties                                                              *)

Places ==
  {"begin", "swept", "pulling", "clean", "run", "waiting", "curl", "logs", "abort", "release",
   "healthy", "swap", "monitor", "watching",
   "git", "git_failed", "hash", "spawn_build", "building", "output", "built", "push", "pushed", "tag", "push_latest",
   "spawn", "script", "drain", "task", "notify", "done"}

StrategiesTypeOK ==
  /\ pc \in [Deploys -> Places]
  /\ \A d \in Deploys :
       /\ \A n \in DOMAIN stages[d] : stages[d][n] \in StageStatus
       /\ attempt[d] \in 0..3
       /\ outcome[d] # None => outcome[d].status \in {"success", "failed"}
  /\ registry \in [Tags -> Images]
  /\ \A t \in Tags, n \in TagNames :
       /\ named[t][n] \in Images \cup {None}
       /\ shipped[t][n] \in Images \cup {None}
  /\ \A n \in Containers : canary[n].status \in {"created", "running", "exited"}

Finished == { d \in Deploys : outcome[d] # None }
Quiet == (\A d \in Deploys : pc[d] = "done" /\ sweep[d] = {})
UsesDocker(d) == strategy[d] \in {"docker_compose", "docker_build"}
Solo(d) == \A e \in Deploys \ {d} : ~UsesDocker(e)

\* However a deployment ends (a failed step, a cancelled token in any stage, a
\* signal, success), the stages it hands over agree with the verdict: none is
\* still running, a success has every stage that counts successful, a failure
\* that is not a cancellation has a stage to blame.
StagesAgreeWithOutcome ==
  \A d \in Finished :
    LET o == outcome[d]
        optional == {"git_pull", "post_deploy_monitor", "docker_push_latest"}
    IN  /\ \A n \in DOMAIN o.stages : o.stages[n] # "running"
        /\ (o.status = "success") <=> (o.code = 0)
        /\ o.status = "success" =>
             \A n \in DOMAIN o.stages \ optional : o.stages[n] = "success"
        /\ o.status = "failed" /\ o.code # -2 /\ DOMAIN o.stages # {} =>
             \E n \in DOMAIN o.stages : o.stages[n] = "failed"

\* "If unhealthy, abort and keep old container running": a compose deployment
\* that failed before compose up has left the service alone.  One beside which
\* nobody deploys or pushes an image puts none into service that does not come
\* up and answer, and none that logs a fatal error unless docker logs failed.
SoloSwapIsVerified ==
  \A d \in Deploys :
    strategy[d] = "docker_compose" =>
      LET c == live[Tag[d]]
      IN  /\ d \in Finished /\ outcome[d].status = "failed"
               /\ outcome[d].stages["compose_up"] = "pending"
               => c = None \/ c.by # d
          /\ Solo(d) /\ Tag[d] \notin published /\ c # None /\ c.by = d
               => /\ Serves(c.image)
                  /\ c.image = "fatal" => logsOk[d] = FALSE

\* The images that pass a health check when docker works.
Healthy(image) == image = "good" \/ (image = "bare" /\ InspectsBare)

\* A lone deployment of a healthy image succeeds when no command fails, no
\* timeout strikes and no canary was left running: the sweep, still at work
\* when the canary starts and passes, removes the stopped canary it has listed
\* and never the one that has just been started.
SoloGoodImageDeploys ==
  \A d \in Finished :
    strategy[d] = "docker_compose" /\ Solo(d) /\ faults = MaxFaults /\ ~cancelled[d]
      /\ Tag[d] \notin published /\ leftover # "running" /\ Healthy(local[Tag[d]])
    => outcome[d].status = "success"

\* No canary survives: once every deployment and every sweep has ended, and
\* docker did as it was told, no container named deploy-canary is left, not
\* even one an earlier agent had left behind.
NoCanaryLeftBehind ==
  Quiet /\ faults = MaxFaults /\ (\E d \in Deploys : strategy[d] = "docker_compose")
  => Containers = {}

\* Deployments that build in a working tree of their own.
OwnTrees == \A d, e \in Deploys : d # e => Tree[d] # Tree[e]

\* A tag that names a commit stands for the image of that commit, also when
\* two builds of one image name overtake each other between build and push, if
\* each has its own working tree.  What a lone build that reports latest as
\* pushed has pushed is what it built, whatever failed before, if docker tag
\* did not fail (that it did is only logged).
PushedIsBuilt ==
  \A d \in Finished :
    strategy[d] = "docker_build" /\ outcome[d].status = "success" =>
      /\ OwnTrees /\ tagged[d] \in Images => shipped[Tag[d]][tagged[d]] = tagged[d]
      /\ Solo(d) /\ Tag[d] \notin published /\ tagOk[d] = TRUE
           /\ outcome[d].stages["docker_push_latest"] = "success"
         => registry[Tag[d]] = built[d]

\* The Deploy Center learns the outcome of a deployment that is over, and never
\* another one, unless all three calls that tell it fail.
CenterLearnsOutcome ==
  \A d \in Deploys :
    /\ center[d] # None => center[d] = outcome[d]
    /\ pc[d] = "done" /\ center[d] = None => attempt[d] = 3 /\ MaxFaults - faults >= 3

\* The timeout ends a script or a build that hangs, and the center is told,
\* without the command's help.  The agent waits for ever only where it does not
\* look at the token: in a compose deployment, a git command or a push, and, by
\* the antecedent, for output pipes that stay open after the command has ended.
TimeoutEndsCommand ==
  \A d \in Deploys :
    []<>(pc[d] \notin {"drain", "output"}) =>
      ((pc[d] \in {"script", "building"} /\ cancelled[d]) ~> pc[d] = "done")

\* "Generate a unique canary container name using task_id: this prevents
\* conflicts when multiple deployments run concurrently": a deployment of a
\* healthy image does not fail because of another one.
ConcurrentDeploysDoNotConflict ==
  \A d \in Finished :
    strategy[d] = "docker_compose" /\ faults = MaxFaults /\ ~cancelled[d]
      /\ leftover # "running" /\ (\A image \in Images : Healthy(image))
    => outcome[d].status = "success"
===============================================================================
