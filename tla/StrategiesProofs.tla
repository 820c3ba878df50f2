--------------------------- MODULE StrategiesProofs ---------------------------
(***************************************************************************)
(* Theorems of the deployment strategies, for any set of deployments, any  *)
(* assignment of strategies, any images and tags, and any number of        *)
(* faults, cancellations and restarts: the verdict of a deployment agrees  *)
(* with its stages, the center learns it, a build pushes what it built, a  *)
(* swap is checked, and no canary is left behind.                          *)
(***************************************************************************)
EXTENDS Strategies, TLAPS

-------------------------------------------------------------------------------
(* The inductive invariant                                                 *)

Kinds == {"script", "docker_compose", "docker_build", "xiaojincut"}
Over == {"notify", "done"}

ContextTyped ==
  /\ strategy \in [Deploys -> Kinds]
  /\ pc \in [Deploys -> Places]
  /\ stages \in [Deploys -> StageVectors]
  /\ exit_code \in [Deploys -> Int]
  /\ cancelled \in [Deploys -> BOOLEAN]
  /\ outcome \in [Deploys -> Outcomes \cup {None}]
  /\ attempt \in [Deploys -> 0..3]
  /\ center \in [Deploys -> Outcomes \cup {None}]
  /\ faults \in 0..MaxFaults

HostTyped ==
  /\ registry \in [Tags -> Images]
  /\ local \in [Tags -> Images \cup {None}]
  /\ live \in [Tags -> Services \cup {None}]
  /\ published \in SUBSET Tags
  /\ leftover \in {"none", "running", "exited"}
  /\ canary \in [Names -> Canaries \cup {None}]
  /\ sweep \in [Deploys -> SUBSET (Deploys \cup {Old})]
  /\ gitOk \in [Deploys -> BOOLEAN \cup {None}]
  /\ pullOk \in [Deploys -> BOOLEAN \cup {None}]
  /\ logsOk \in [Deploys -> BOOLEAN \cup {None}]
  /\ seen \in [Deploys -> Nat \cup {None}]

TagsTyped ==
  /\ head \in [Trees -> Images]
  /\ built \in [Deploys -> Images \cup {None}]
  /\ tagged \in [Deploys -> TagNames \cup {"latest"}]
  /\ tagOk \in [Deploys -> BOOLEAN \cup {None}]
  /\ named \in [Tags -> [TagNames -> Images \cup {None}]]
  /\ shipped \in [Tags -> [TagNames -> Images \cup {None}]]

\* The stages of a deployment at each place of its strategy: what has been done
\* succeeded, or may fail, what is under way runs and the rest is pending.
Checks == {"clean", "run", "waiting", "curl", "logs", "abort", "release"}

ComposeShape(place, st) ==
  \/ place \in {"begin", "swept"}
  \/ /\ DOMAIN st = {"git_pull", "docker_pull", "health_check", "compose_up",
                     "post_deploy_monitor"}
     /\ \/ /\ place = "pulling"
           /\ st["git_pull"] \in {"running", "skipped"} /\ st["docker_pull"] = "running"
           /\ st["health_check"] = "pending" /\ st["compose_up"] = "pending"
           /\ st["post_deploy_monitor"] = "pending"
        \/ /\ st["git_pull"] \in {"success", "failed", "skipped"}
           /\ st["docker_pull"] = "success"
           /\ \/ /\ place \in Checks
                 /\ st["health_check"] = "running" /\ st["compose_up"] = "pending"
                 /\ st["post_deploy_monitor"] = "pending"
              \/ /\ place = "healthy"
                 /\ st["health_check"] = "success" /\ st["compose_up"] = "pending"
                 /\ st["post_deploy_monitor"] = "pending"
              \/ /\ place = "swap"
                 /\ st["health_check"] = "success" /\ st["compose_up"] = "running"
                 /\ st["post_deploy_monitor"] = "pending"
              \/ /\ place \in {"monitor", "watching"}
                 /\ st["health_check"] = "success" /\ st["compose_up"] = "success"
                 /\ st["post_deploy_monitor"] = "running"

BuildStages == {"git_pull", "docker_build", "docker_push"}

BuildShape(place, st, code) ==
  \/ place = "begin"
  \/ /\ DOMAIN st \in {BuildStages, BuildStages \cup {"docker_push_latest"}}
     /\ IF place \in {"tag", "push_latest"}
        THEN "docker_push_latest" \in DOMAIN st /\ st["docker_push_latest"] = "running"
        ELSE "docker_push_latest" \in DOMAIN st => st["docker_push_latest"] = "pending"
     /\ \/ /\ place = "git"
           /\ st["git_pull"] = "running" /\ st["docker_build"] = "pending"
           /\ st["docker_push"] = "pending"
        \/ /\ place = "git_failed" /\ code = 1
           /\ st["git_pull"] = "failed" /\ st["docker_build"] = "pending"
           /\ st["docker_push"] = "pending"
        \/ /\ st["git_pull"] = "success"
           /\ \/ /\ place = "hash"
                 /\ st["docker_build"] = "pending" /\ st["docker_push"] = "pending"
              \/ /\ place \in {"spawn_build", "building", "output"}
                 /\ place = "output" => code \in {0, 1}
                 /\ st["docker_build"] = "running" /\ st["docker_push"] = "pending"
              \/ /\ place = "built"
                 /\ st["docker_build"] = "success" /\ st["docker_push"] = "pending"
              \/ /\ place = "push"
                 /\ st["docker_build"] = "success" /\ st["docker_push"] = "running"
              \/ /\ place \in {"pushed", "tag", "push_latest"}
                 /\ st["docker_build"] = "success" /\ st["docker_push"] = "success"

ScriptShape(place, st) ==
  \/ place = "begin"
  \/ /\ DOMAIN st = {"git_pull", "execute_script"}
     /\ \/ /\ place = "git"
           /\ st["git_pull"] = "running" /\ st["execute_script"] = "pending"
        \/ /\ place \in {"spawn", "script", "drain"}
           /\ st["git_pull"] \in {"success", "failed"} /\ st["execute_script"] = "running"

Shape(kind, place, st, code) ==
  /\ kind = "docker_compose" => ComposeShape(place, st)
  /\ kind = "docker_build" => BuildShape(place, st, code)
  /\ kind = "script" => ScriptShape(place, st)
  /\ kind = "xiaojincut" => place \in {"begin", "task"}

\* StagesAgreeWithOutcome of one verdict.
Agrees(status, code, st) ==
  /\ \A n \in DOMAIN st : st[n] # "running"
  /\ (status = "success") <=> (code = 0)
  /\ status = "success" =>
       \A n \in DOMAIN st \ {"git_pull", "post_deploy_monitor", "docker_push_latest"} :
         st[n] = "success"
  /\ status = "failed" /\ code # -2 /\ DOMAIN st # {} => \E n \in DOMAIN st : st[n] = "failed"

\* A deployment has an outcome exactly when it is over; the center knows that
\* outcome or none, and each call that was spent on telling it was a fault.
Deployment(d) ==
  /\ outcome[d] = None <=> pc[d] \notin Over
  /\ pc[d] \notin Over =>
       center[d] = None /\ Shape(strategy[d], pc[d], stages[d], exit_code[d])
  /\ outcome[d] # None =>
       /\ Agrees(outcome[d].status, outcome[d].code, outcome[d].stages)
       /\ outcome[d].stages = stages[d]
  /\ center[d] # None => center[d] = outcome[d]
  /\ pc[d] = "notify" => attempt[d] \in 1..3
  /\ center[d] = None /\ pc[d] = "notify" => MaxFaults - faults >= attempt[d] - 1
  /\ center[d] = None /\ pc[d] = "done" => attempt[d] = 3 /\ MaxFaults - faults >= 3

ContextInv == ContextTyped /\ \A d \in Deploys : Deployment(d)

\* What a step takes from the host is there: the image of a compose deployment
\* once it has been pulled, the image that docker build makes.
Supplied(d) ==
  /\ strategy[d] = "docker_compose" /\ pc[d] \in Checks \cup {"healthy", "swap"} => pullOk[d] = TRUE
  /\ pullOk[d] = TRUE => local[Tag[d]] # None
  /\ strategy[d] = "docker_build" /\ pc[d] = "building" => built[d] # None

HostInv == HostTyped /\ TagsTyped /\ \A d \in Deploys : Supplied(d)

Success(d) == outcome[d] # None /\ outcome[d].status = "success"

\* A tag that names a commit has only ever stood for the image of that commit.
TrueNames ==
  \A t \in Tags, n \in Images : named[t][n] \in {n, None} /\ shipped[t][n] \in {n, None}

\* What a build makes is the commit it has named, for nobody else moves its HEAD.
TrueBuild(d) ==
  tagged[d] \in Images =>
    /\ pc[d] = "spawn_build" => head[Tree[d]] = tagged[d]
    /\ pc[d] = "building" => built[d] = tagged[d]
    /\ pc[d] \in {"pushed", "tag", "push_latest"} \/ Success(d)
         => shipped[Tag[d]][tagged[d]] = tagged[d]

\* With Docker and the image name to itself, a build's tag names what it built, and
\* so does latest once docker tag has been run.
LoneBuild(d) ==
  /\ \/ pc[d] \in {"built", "push", "pushed", "tag"}
     \/ pc[d] = "output" /\ exit_code[d] = 0
     => full_image(d) = built[d]
  /\ pc[d] = "push_latest" /\ tagOk[d] = TRUE => local[Tag[d]] = built[d]
  /\ Success(d) /\ tagOk[d] = TRUE /\ outcome[d].stages["docker_push_latest"] = "success"
       /\ Tag[d] \notin published
     => registry[Tag[d]] = built[d]

PushedSoFar(d) ==
  strategy[d] = "docker_build" =>
    /\ pc[d] \notin Over \cup {"push_latest"} => tagOk[d] = None
    /\ OwnTrees => TrueBuild(d)
    /\ Solo(d) => LoneBuild(d)

\* A service is a deployment's only after its compose up.
SwappedBy(d) ==
  \A t \in Tags :
    live[t] # None /\ live[t].by = d =>
      /\ strategy[d] = "docker_compose"
      /\ \/ pc[d] \in {"monitor", "watching"}
         \/ pc[d] \in Over /\ stages[d]["compose_up"] = "success"

\* Without a fault, a canary belongs to a deployment that has still to remove
\* it, and one that was there before is due to every sweep that has begun.
Held == {"waiting", "curl", "logs", "abort", "release"}

CanaryHasOwner ==
  faults = MaxFaults =>
    \A n \in Containers :
      /\ canary[n].id \in Deploys =>
           /\ n = CanaryName[canary[n].id] /\ strategy[canary[n].id] = "docker_compose"
           /\ pc[canary[n].id] \in Held
      /\ canary[n].id = Old =>
           \A d \in Deploys :
             strategy[d] = "docker_compose" => pc[d] = "begin" \/ Old \in sweep[d]

\* A compose deployment with Docker to itself, of an image nobody else pushes,
\* checks the image it pulled: the canary is its own, nothing else holds the port,
\* and its sweep is after older containers only.
Unpulled == {"begin", "swept", "pulling"}
Early == Unpulled \cup {"clean", "run"}
Watched == {"waiting", "curl", "logs", "release"}

Alone(d) == strategy[d] = "docker_compose" /\ Solo(d) /\ Tag[d] \notin published

Verified(d, image) == Serves(image) /\ (image = "fatal" => logsOk[d] = FALSE)

SoloImages(d) ==
  /\ pullOk[d] = TRUE => local[Tag[d]] = registry[Tag[d]]
  /\ faults = MaxFaults =>
       pullOk[d] # FALSE /\ (pc[d] \notin Unpulled => pullOk[d] = TRUE)
  /\ pc[d] = "logs" => Serves(registry[Tag[d]])
  /\ pc[d] \in {"release", "healthy", "swap"} => Verified(d, registry[Tag[d]])
  /\ \A t \in Tags :
       live[t] # None /\ live[t].by = d => Verified(d, live[t].image)

SoloCanary(d) ==
  LET name == CanaryName[d]
  IN  /\ sweep[d] \subseteq {Old} /\ \A e \in Deploys \ {d} : sweep[e] = {}
      /\ \A n \in Containers :
           canary[n].id = d => n = name /\ canary[n].image = registry[Tag[d]]
      /\ \A n \in Containers : canary[n].id \in {Old, d}
      /\ pc[d] \in Early => \A n \in Containers : canary[n].id = Old
      /\ pc[d] \in Watched =>
           name \in Containers /\ canary[name].id = d /\ PortHolders \subseteq {name}

SoloCheck(d) == Alone(d) => SoloImages(d) /\ SoloCanary(d)

\* And when nothing goes wrong, no check of a healthy image fails, although the sweep
\* has still a stopped canary to remove.
Undisturbed(d) ==
  /\ Alone(d)
  /\ faults = MaxFaults /\ ~cancelled[d] /\ leftover # "running"
  /\ Healthy(registry[Tag[d]])

GoesWell(d) ==
  /\ pc[d] # "abort"
  /\ \A n \in Containers : canary[n].id = d \/ canary[n].status = "exited"
  /\ pc[d] = "run" => CanaryName[d] \notin Containers
  /\ pc[d] \in Watched =>
       /\ canary[CanaryName[d]].status = "running"
       /\ canary[CanaryName[d]].health # "unhealthy"
       /\ canary[CanaryName[d]].health = "none" => InspectsBare
  /\ outcome[d] # None => outcome[d].status = "success"

SoloGood(d) == Undisturbed(d) => GoesWell(d)

-------------------------------------------------------------------------------
(* Stage vectors                                                           *)

\* DeployStage::new for each name.
LEMMA NewVector ==
  ASSUME NEW names \in SUBSET StageNames
  PROVE  /\ new(names) \in StageVectors /\ DOMAIN new(names) = names
         /\ \A n \in names : new(names)[n] = "pending"
BY DEF StageVectors, new, StageStatus

\* A deployment without stages.
LEMMA NoVector == <<>> \in StageVectors /\ DOMAIN <<>> = {}
<1>1. <<>> \in [{} -> StageStatus]
  OBVIOUS
<1> QED BY <1>1 DEF StageVectors

\* What start, skip and finish do to a vector.
LEMMA StageStarted ==
  ASSUME NEW st \in StageVectors, NEW name
  PROVE  /\ start(st, name) \in StageVectors /\ DOMAIN start(st, name) = DOMAIN st
         /\ \A n \in DOMAIN st : start(st, name)[n] = IF n = name THEN "running" ELSE st[n]
BY DEF StageVectors, StageStatus, start

\* skip changes one stage.
LEMMA StageSkipped ==
  ASSUME NEW st \in StageVectors, NEW name
  PROVE  /\ skip(st, name) \in StageVectors /\ DOMAIN skip(st, name) = DOMAIN st
         /\ \A n \in DOMAIN st : skip(st, name)[n] = IF n = name THEN "skipped" ELSE st[n]
BY DEF StageVectors, StageStatus, skip

\* finish_stage changes one stage, to the result it is given.
LEMMA StageFinished ==
  ASSUME NEW st \in StageVectors, NEW name, NEW ok \in BOOLEAN
  PROVE  /\ finish_stage(st, name, ok) \in StageVectors
         /\ DOMAIN finish_stage(st, name, ok) = DOMAIN st
         /\ \A n \in DOMAIN st : n # name => finish_stage(st, name, ok)[n] = st[n]
         /\ name \in DOMAIN st =>
              /\ ok => finish_stage(st, name, ok)[name] = "success"
              /\ ~ok => finish_stage(st, name, ok)[name] = "failed"
BY DEF StageVectors, StageStatus, finish_stage

\* ... to a success.
LEMMA StageSucceeded ==
  ASSUME NEW st \in StageVectors, NEW name
  PROVE  /\ finish_stage(st, name, TRUE) \in StageVectors
         /\ DOMAIN finish_stage(st, name, TRUE) = DOMAIN st
         /\ \A n \in DOMAIN st : n # name => finish_stage(st, name, TRUE)[n] = st[n]
         /\ name \in DOMAIN st => finish_stage(st, name, TRUE)[name] = "success"
BY DEF StageVectors, StageStatus, finish_stage

\* ... to a failure.
LEMMA StageFailed ==
  ASSUME NEW st \in StageVectors, NEW name
  PROVE  /\ finish_stage(st, name, FALSE) \in StageVectors
         /\ DOMAIN finish_stage(st, name, FALSE) = DOMAIN st
         /\ \A n \in DOMAIN st : n # name => finish_stage(st, name, FALSE)[n] = st[n]
         /\ name \in DOMAIN st => finish_stage(st, name, FALSE)[name] = "failed"
BY DEF StageVectors, StageStatus, finish_stage

-------------------------------------------------------------------------------
(* What a step does to the deployments                                     *)

\* What the invariant says of one deployment.
LEMMA ContextFacts ==
  ASSUME ContextInv, NEW d \in Deploys
  PROVE  /\ strategy[d] \in Kinds /\ pc[d] \in Places /\ stages[d] \in StageVectors
         /\ exit_code[d] \in Int /\ cancelled[d] \in BOOLEAN
         /\ outcome[d] \in Outcomes \cup {None} /\ center[d] \in Outcomes \cup {None}
         /\ attempt[d] \in 0..3 /\ faults \in 0..MaxFaults /\ MaxFaults \in Nat
         /\ Deployment(d)
         /\ pc[d] \notin Over =>
              /\ outcome[d] = None /\ center[d] = None
              /\ Shape(strategy[d], pc[d], stages[d], exit_code[d])
BY DeployContextAssumption DEF ContextInv, ContextTyped, Deployment

\* A deployment a step does not touch: its faults may be spent by another one.
LEMMA DeploymentKept ==
  ASSUME ContextInv, NEW d \in Deploys,
         strategy'[d] = strategy[d], pc'[d] = pc[d], stages'[d] = stages[d],
         exit_code'[d] = exit_code[d], outcome'[d] = outcome[d], attempt'[d] = attempt[d],
         center'[d] = center[d], faults' \in 0..faults
  PROVE  Deployment(d)'
<1>1. faults \in 0..MaxFaults /\ MaxFaults \in Nat /\ attempt[d] \in 0..3 /\ Deployment(d)
  BY ContextFacts
<1>2. ASSUME NEW k \in Int, MaxFaults - faults >= k PROVE MaxFaults - faults' >= k
  BY <1>1, <1>2
<1>3. 3 \in Int /\ attempt[d] - 1 \in Int
  BY <1>1
<1> QED BY <1>1, <1>2, <1>3 DEF Deployment

\* Faults are only spent.
LEMMA FaultsBound ==
  ASSUME ContextInv, faults' \in 0..faults
  PROVE  faults \in 0..MaxFaults /\ MaxFaults \in Nat /\ faults' \in 0..MaxFaults
<1>1. faults \in 0..MaxFaults /\ MaxFaults \in Nat
  BY DeployContextAssumption DEF ContextInv, ContextTyped
<1> QED BY <1>1

\* A step of none of them: a timeout, a command of the sweep, Docker's own steps.
LEMMA ContextKept ==
  ASSUME ContextInv,
         UNCHANGED <<strategy, pc, stages, exit_code, outcome, attempt, center>>,
         cancelled' \in [Deploys -> BOOLEAN], faults' \in 0..faults
  PROVE  ContextInv'
<1>1. \A d \in Deploys : Deployment(d)'
  BY DeploymentKept
<1>2. faults' \in 0..MaxFaults
  BY FaultsBound
<1>3. ContextTyped'
  BY <1>2 DEF ContextInv, ContextTyped
<1> QED BY <1>1, <1>3, Zenon DEF ContextInv

\* A deployment goes from one place to another with stages of the shape of the
\* new place.
LEMMA GoesOn ==
  ASSUME ContextInv, NEW d \in Deploys, NEW place \in Places \ Over, NEW st \in StageVectors,
         NEW code \in Int, goes_on(d, place, st, code), pc[d] \notin Over,
         faults' \in 0..faults, Shape(strategy[d], place, st, code)
  PROVE  ContextInv'
<1>1. /\ strategy' = strategy /\ cancelled' = cancelled /\ outcome' = outcome
      /\ attempt' = attempt /\ center' = center
      /\ pc' = [pc EXCEPT ![d] = place] /\ stages' = [stages EXCEPT ![d] = st]
      /\ exit_code' = [exit_code EXCEPT ![d] = code]
  BY DEF goes_on, update_stages, Goto
<1>2. ContextTyped'
  BY <1>1, FaultsBound DEF ContextInv, ContextTyped
<1>3. ASSUME NEW e \in Deploys, e # d PROVE Deployment(e)'
  <2>1. pc'[e] = pc[e] /\ stages'[e] = stages[e] /\ exit_code'[e] = exit_code[e]
    BY <1>1, <1>3 DEF ContextInv, ContextTyped
  <2> QED BY <1>1, <2>1, DeploymentKept
<1>4. Deployment(d)'
  <2>1. pc'[d] = place /\ stages'[d] = st /\ exit_code'[d] = code
    BY <1>1 DEF ContextInv, ContextTyped
  <2>2. outcome[d] = None /\ center[d] = None
    BY ContextFacts
  <2>3. place \notin Over /\ place # "notify" /\ place # "done"
    BY DEF Over
  <2> QED BY <1>1, <2>1, <2>2, <2>3 DEF Deployment
<1> QED BY <1>2, <1>3, <1>4 DEF ContextInv

\* A deployment ends with stages that agree with its verdict.
LEMMA Finish ==
  ASSUME ContextInv, NEW d \in Deploys, NEW status \in {"success", "failed"}, NEW code \in Int,
         NEW st \in StageVectors, finish(d, status, code, st), pc[d] \notin Over,
         faults' \in 0..faults, Agrees(status, code, st)
  PROVE  ContextInv'
<1> DEFINE o == [status |-> status, code |-> code, stages |-> st]
<1>1. /\ strategy' = strategy /\ cancelled' = cancelled /\ center' = center
      /\ pc' = [pc EXCEPT ![d] = "notify"] /\ stages' = [stages EXCEPT ![d] = st]
      /\ exit_code' = [exit_code EXCEPT ![d] = code]
      /\ outcome' = [outcome EXCEPT ![d] = o] /\ attempt' = [attempt EXCEPT ![d] = 1]
  BY DEF finish, update_stages, Goto
<1>2. o \in Outcomes /\ o # None
  BY DeployContextAssumption DEF Outcomes
<1>3. o.status = status /\ o.code = code /\ o.stages = st
  OBVIOUS
<1> HIDE DEF o
<1>4. ContextTyped'
  BY <1>1, <1>2, FaultsBound DEF ContextInv, ContextTyped, Places
<1>5. ASSUME NEW e \in Deploys, e # d PROVE Deployment(e)'
  <2>1. pc'[e] = pc[e] /\ stages'[e] = stages[e] /\ exit_code'[e] = exit_code[e]
        /\ outcome'[e] = outcome[e] /\ attempt'[e] = attempt[e]
    BY <1>1, <1>5 DEF ContextInv, ContextTyped
  <2> QED BY <1>1, <2>1, DeploymentKept
<1>6. Deployment(d)'
  <2>1. pc'[d] = "notify" /\ stages'[d] = st /\ outcome'[d] = o /\ attempt'[d] = 1
    BY <1>1 DEF ContextInv, ContextTyped
  <2>2. center'[d] = None
    BY <1>1, ContextFacts
  <2>3. MaxFaults - faults' >= 1 - 1
    BY ContextFacts
  <2> QED BY <1>2, <1>3, <2>1, <2>2, <2>3 DEF Deployment, Over
<1> QED BY <1>4, <1>5, <1>6 DEF ContextInv

\* Up to three calls tell the center.
LEMMA Notified == ASSUME ContextInv, NEW d \in Deploys, do_notify(d) PROVE ContextInv'
<1>1. PICK heard \in BOOLEAN, answered \in BOOLEAN :
        /\ answered => heard
        /\ Ends(answered)
        /\ center' = IF heard THEN [center EXCEPT ![d] = outcome[d]] ELSE center
        /\ IF answered \/ attempt[d] = 3
           THEN Goto(d, "done") /\ attempt' = attempt
           ELSE pc' = pc /\ attempt' = [attempt EXCEPT ![d] = @ + 1]
  BY Zenon DEF do_notify
<1>2. /\ pc[d] = "notify" /\ strategy' = strategy /\ stages' = stages /\ cancelled' = cancelled
      /\ exit_code' = exit_code /\ outcome' = outcome
  BY DEF do_notify
<1>3. /\ attempt[d] \in 1..3 /\ faults \in 0..MaxFaults /\ MaxFaults \in Nat
      /\ outcome[d] # None /\ Deployment(d)
  BY <1>2, ContextFacts DEF Deployment, Over
<1>4. /\ faults' \in 0..faults
      /\ answered => faults' = faults
      /\ ~answered => faults' = faults - 1
  BY <1>1, <1>3 DEF Ends, Fault, Faultless
<1>5. /\ center'[d] = IF heard THEN outcome[d] ELSE center[d]
      /\ \A e \in Deploys \ {d} : center'[e] = center[e]
      /\ center' \in [Deploys -> Outcomes \cup {None}]
  BY <1>1 DEF ContextInv, ContextTyped
<1>6. /\ \A e \in Deploys \ {d} : attempt'[e] = attempt[e] /\ pc'[e] = pc[e]
      /\ attempt' \in [Deploys -> 0..3] /\ pc' \in [Deploys -> Places]
      /\ answered \/ attempt[d] = 3 => pc'[d] = "done" /\ attempt'[d] = attempt[d]
      /\ ~answered /\ attempt[d] # 3 => pc'[d] = "notify" /\ attempt'[d] = attempt[d] + 1
  BY <1>1, <1>2, <1>3 DEF ContextInv, ContextTyped, Goto, Places
<1>7. ContextTyped'
  BY <1>2, <1>3, <1>4, <1>5, <1>6 DEF ContextInv, ContextTyped
<1>8. \A e \in Deploys \ {d} : Deployment(e)'
  BY <1>2, <1>4, <1>5, <1>6, DeploymentKept
<1>9. Deployment(d)'
  <2>1. center'[d] = None => ~heard /\ ~answered /\ center[d] = None
    BY <1>1, <1>3, <1>5
  <2>2. center'[d] # None => center'[d] = outcome[d]
    BY <1>3, <1>5 DEF Deployment
  <2>3. center[d] = None => MaxFaults - faults >= attempt[d] - 1
    BY <1>2, <1>3 DEF Deployment
  <2>4. center'[d] = None /\ pc'[d] = "notify" => MaxFaults - faults' >= attempt'[d] - 1
    BY <1>3, <1>4, <1>6, <2>1, <2>3
  <2>5. center'[d] = None /\ pc'[d] = "done" => attempt'[d] = 3 /\ MaxFaults - faults' >= 3
    BY <1>3, <1>4, <1>6, <2>1, <2>3
  <2>6. pc'[d] = "notify" => attempt'[d] \in 1..3
    BY <1>3, <1>6
  <2>7. pc'[d] \in Over /\ pc[d] \in Over
    BY <1>2, <1>6 DEF Over
  <2> QED BY <1>2, <1>3, <2>2, <2>4, <2>5, <2>6, <2>7 DEF Deployment
<1> QED BY <1>7, <1>8, <1>9 DEF ContextInv

\* The faults of a step whose command ends well or badly.
LEMMA FaultsFall ==
  ASSUME faults \in Nat, Faultless \/ Fault
  PROVE  /\ faults' \in 0..faults
         /\ Faultless => faults' = faults
         /\ Fault => faults' < faults
BY DEF Faultless, Fault

\* A command that fails has cost a fault.
LEMMA EndsSpends ==
  ASSUME NEW ok \in BOOLEAN, Ends(ok) PROVE (Faultless \/ Fault) /\ (~ok => Fault)
BY DEF Ends

-------------------------------------------------------------------------------
(* The steps of the strategies and the context                             *)

\* A deployment at a place of its strategy has not ended, and has the shape of
\* that place.
LEMMA AtFacts ==
  ASSUME ContextInv, NEW d \in Deploys, NEW kind, NEW place, At(d, kind, place), place \notin Over
  PROVE  /\ strategy[d] = kind /\ pc[d] = place /\ pc[d] \notin Over
         /\ stages[d] \in StageVectors /\ exit_code[d] \in Int
         /\ Shape(kind, place, stages[d], exit_code[d])
BY ContextFacts DEF At

\* Every step of a deployment spends a fault or none.
LEMMA ComposeSpends ==
  ASSUME ContextInv, NEW d \in Deploys, ComposeStep(d) \/ SweepCanary(d)
  PROVE  faults' \in 0..faults /\ (Faultless \/ Fault)
<1>1. Faultless \/ Fault
  <2>1. CASE run_git_pull(d) \/ run_docker_pull(d) \/ cleanup_stale_canaries(d) \/ SweepCanary(d)
              \/ CheckLogs(d) \/ ComposePull(d)
    BY <2>1, Zenon DEF run_git_pull, run_docker_pull, cleanup_stale_canaries, SweepCanary,
                       CheckLogs, ComposePull, Ends
  <2>2. CASE StartPulls(d) \/ PullsDone(d) \/ RunCanary(d) \/ PollCanary(d) \/ CheckHttp(d)
              \/ ComposeUp(d) \/ CheckService(d) \/ MonitorEnds(d)
    BY <2>2, Zenon DEF StartPulls, PullsDone, RunCanary, PollCanary, CheckHttp,
                       ComposeUp, CheckService, MonitorEnds
  <2>3. CASE EnsureClean(d) \/ AbortCanary(d) \/ ReleaseCanary(d)
    BY <2>3, Zenon DEF EnsureClean, AbortCanary, ReleaseCanary, cleanup_canary_strict, Ends
  <2> QED BY <2>1, <2>2, <2>3, Zenon DEF ComposeStep
<1> QED BY <1>1, FaultsFall, ContextFacts

LEMMA OtherSpends ==
  ASSUME ContextInv, NEW d \in Deploys,
         BuildStep(d) \/ ScriptStep(d) \/ XiaojincutStep(d) \/ do_notify(d)
  PROVE  faults' \in 0..faults /\ (Faultless \/ Fault)
<1>1. Faultless \/ Fault
  <2>1. CASE BuildStep(d)
    BY <2>1, Zenon DEF BuildStep, BeginBuild, BuildGitPull, BuildGitFailed, TagOfCommit,
                       SpawnBuild, BuildExits, BuildDrained, BuildCancelled, BeforePush, Push,
                       BeforeLatest, TagLatest, PushLatest, Ends
  <2>2. CASE ScriptStep(d)
    BY <2>2, Zenon DEF ScriptStep, BeginScript, ScriptGitPull, SpawnScript, ScriptExits,
                       ScriptDrained, ScriptCancelled, Ends
  <2>3. CASE XiaojincutStep(d) \/ do_notify(d)
    BY <2>3, Zenon DEF XiaojincutStep, CheckXiaojincut, RunXiaojincutTask, do_notify, Ends
  <2> QED BY <2>1, <2>2, <2>3
<1> QED BY <1>1, FaultsFall, ContextFacts

\* Between two checks of the canary the stages stay as they are.
LEMMA NextCheck ==
  ASSUME ContextInv, NEW d \in Deploys, NEW place \in Checks, NEW next_place \in Checks,
         At(d, "docker_compose", place), goes_on(d, next_place, stages[d], 0),
         faults' \in 0..faults
  PROVE  ContextInv'
<1>1. place \notin Over /\ next_place \in Places \ Over
  BY DEF Checks, Over, Places
<1>2. pc[d] \notin Over /\ stages[d] \in StageVectors
      /\ Shape("docker_compose", place, stages[d], exit_code[d]) /\ strategy[d] = "docker_compose"
  BY <1>1, AtFacts
<1>3. ComposeShape(next_place, stages[d])
  <2>1. ComposeShape(place, stages[d]) /\ place \notin {"begin", "swept", "pulling", "healthy",
                                                        "swap", "monitor", "watching"}
    BY <1>2 DEF Shape, Checks
  <2> QED BY <2>1 DEF ComposeShape
<1>4. Shape(strategy[d], next_place, stages[d], 0)
  BY <1>2, <1>3 DEF Shape
<1> QED BY <1>1, <1>2, <1>4, GoesOn

\* Places and stages, compose deployments: the sweep and the two pulls.
LEMMA ContextPulls ==
  ASSUME ContextInv, HostTyped, NEW d \in Deploys, faults' \in 0..faults,
         cleanup_stale_canaries(d) \/ StartPulls(d) \/ PullsDone(d)
  PROVE  ContextInv'
<1>1. CASE cleanup_stale_canaries(d)
  <2>1. At(d, "docker_compose", "begin") /\ goes_on(d, "swept", stages[d], 0)
    BY <1>1 DEF cleanup_stale_canaries
  <2>2. pc[d] \notin Over /\ stages[d] \in StageVectors /\ strategy[d] = "docker_compose"
    BY <2>1, AtFacts DEF Over
  <2>3. "swept" \in Places \ Over /\ Shape("docker_compose", "swept", stages[d], 0)
    BY DEF Places, Over, Shape, ComposeShape
  <2> QED BY <2>1, <2>2, <2>3, GoesOn
<1>2. CASE StartPulls(d)
  <2> DEFINE st == new({"git_pull", "docker_pull", "health_check", "compose_up",
                        "post_deploy_monitor"})
  <2>1. st \in StageVectors /\ DOMAIN st = {"git_pull", "docker_pull", "health_check", "compose_up",
                                            "post_deploy_monitor"}
        /\ \A n \in DOMAIN st : st[n] = "pending"
    <3>1. {"git_pull", "docker_pull", "health_check", "compose_up", "post_deploy_monitor"}
            \in SUBSET StageNames
      BY DEF StageNames
    <3> QED BY <3>1, NewVector
  <2>2. PICK has_git \in BOOLEAN :
          goes_on(d, "pulling", start(IF has_git THEN start(st, "git_pull") ELSE skip(st, "git_pull"),
                                      "docker_pull"), 0)
    BY <1>2, Zenon DEF StartPulls
  <2>3. At(d, "docker_compose", "swept")
    BY <1>2 DEF StartPulls
  <2>4. pc[d] \notin Over /\ strategy[d] = "docker_compose"
    BY <2>3, AtFacts DEF Over
  <2> HIDE DEF st
  <2> DEFINE git == IF has_git THEN start(st, "git_pull") ELSE skip(st, "git_pull")
             both == start(git, "docker_pull")
  <2>5. git \in StageVectors /\ DOMAIN git = DOMAIN st
        /\ \A n \in DOMAIN st : n # "git_pull" => git[n] = "pending"
        /\ git["git_pull"] \in {"running", "skipped"}
    BY <2>1, StageStarted, StageSkipped
  <2> HIDE DEF git
  <2>6. both \in StageVectors /\ DOMAIN both = DOMAIN st
        /\ \A n \in DOMAIN st : both[n] = IF n = "docker_pull" THEN "running" ELSE git[n]
    BY <2>5, StageStarted
  <2> HIDE DEF both
  <2>7. ComposeShape("pulling", both)
    BY <2>1, <2>5, <2>6 DEF ComposeShape
  <2>8. Shape(strategy[d], "pulling", both, 0) /\ "pulling" \in Places \ Over
    BY <2>4, <2>7 DEF Shape, Places, Over
  <2>9. goes_on(d, "pulling", both, 0)
    BY <2>2 DEF both, git
  <2> QED BY <2>4, <2>6, <2>8, <2>9, GoesOn
<1>3. CASE PullsDone(d)
  <2> DEFINE git == IF stages[d]["git_pull"] = "skipped" THEN stages[d]
                    ELSE finish_stage(stages[d], "git_pull", gitOk[d])
             st == finish_stage(git, "docker_pull", pullOk[d])
             next_st == start(st, "health_check")
  <2>1. At(d, "docker_compose", "pulling") /\ gitOk[d] \in BOOLEAN /\ pullOk[d] \in BOOLEAN
    BY <1>3 DEF PullsDone, HostTyped
  <2>2. pc[d] \notin Over /\ strategy[d] = "docker_compose" /\ stages[d] \in StageVectors
        /\ ComposeShape("pulling", stages[d])
    BY <2>1, AtFacts DEF Over, Shape
  <2>3. /\ DOMAIN stages[d] = {"git_pull", "docker_pull", "health_check", "compose_up",
                               "post_deploy_monitor"}
        /\ stages[d]["git_pull"] \in {"running", "skipped"}
        /\ stages[d]["health_check"] = "pending" /\ stages[d]["compose_up"] = "pending"
        /\ stages[d]["post_deploy_monitor"] = "pending"
    BY <2>2 DEF ComposeShape, Checks
  <2>4. git \in StageVectors /\ DOMAIN git = DOMAIN stages[d]
        /\ git["git_pull"] \in {"success", "failed", "skipped"}
        /\ \A n \in DOMAIN git : n # "git_pull" => git[n] = stages[d][n]
    <3>1. CASE stages[d]["git_pull"] = "skipped"
      BY <2>2, <2>3, <3>1
    <3>2. CASE stages[d]["git_pull"] # "skipped"
      BY <2>1, <2>2, <2>3, <3>2, StageFinished
    <3> QED BY <3>1, <3>2
  <2> HIDE DEF git
  <2>5. st \in StageVectors /\ DOMAIN st = DOMAIN stages[d]
        /\ (\A n \in DOMAIN st : n # "docker_pull" => st[n] = git[n])
        /\ (pullOk[d] => st["docker_pull"] = "success")
        /\ (~pullOk[d] => st["docker_pull"] = "failed")
    BY <2>1, <2>3, <2>4, StageFinished
  <2>6. \/ ~pullOk[d] /\ finish(d, "failed", 1, st)
        \/ pullOk[d] /\ finish(d, "failed", -2, st)
        \/ pullOk[d] /\ goes_on(d, "clean", next_st, 0)
    BY <1>3, Zenon DEF PullsDone, git
  <2> HIDE DEF st
  <2>7. \A n \in DOMAIN st : st[n] # "running"
    BY <2>3, <2>4, <2>5
  <2>8. CASE ~pullOk[d] /\ finish(d, "failed", 1, st)
    <3>1. Agrees("failed", 1, st)
      BY <2>3, <2>5, <2>7, <2>8 DEF Agrees
    <3> QED BY <2>2, <2>5, <2>8, <3>1, Finish
  <2>9. CASE pullOk[d] /\ finish(d, "failed", -2, st)
    <3>1. Agrees("failed", -2, st) /\ -2 \in Int
      BY <2>7 DEF Agrees
    <3> QED BY <2>2, <2>5, <2>9, <3>1, Finish
  <2>10. CASE pullOk[d] /\ goes_on(d, "clean", next_st, 0)
    <3>1. next_st \in StageVectors /\ DOMAIN next_st = DOMAIN st
          /\ \A n \in DOMAIN st : next_st[n] = IF n = "health_check" THEN "running" ELSE st[n]
      BY <2>5, StageStarted
    <3> HIDE DEF next_st
    <3>2. ComposeShape("clean", next_st)
      BY <2>3, <2>4, <2>5, <2>10, <3>1 DEF ComposeShape, Checks
    <3>3. Shape(strategy[d], "clean", next_st, 0) /\ "clean" \in Places \ Over
      BY <2>2, <3>2 DEF Shape, Places, Over
    <3> QED BY <2>2, <2>10, <3>1, <3>3, GoesOn
  <2> QED BY <2>6, <2>8, <2>9, <2>10
<1> QED BY <1>1, <1>2, <1>3

\* ... the canary and its checks.
LEMMA ContextChecks ==
  ASSUME ContextInv, NEW d \in Deploys, faults' \in 0..faults,
         EnsureClean(d) \/ RunCanary(d) \/ PollCanary(d) \/ CheckHttp(d) \/ CheckLogs(d)
  PROVE  ContextInv'
<1>1. \E place \in Checks, next_place \in Checks :
        At(d, "docker_compose", place) /\ goes_on(d, next_place, stages[d], 0)
  <2>1. CASE EnsureClean(d)
    BY <2>1, Zenon DEF EnsureClean, Checks
  <2>2. CASE RunCanary(d)
    BY <2>2, Zenon DEF RunCanary, Checks
  <2>3. CASE PollCanary(d)
    BY <2>3, Zenon DEF PollCanary, Checks
  <2>4. CASE CheckHttp(d)
    BY <2>4, Zenon DEF CheckHttp, Checks
  <2>5. CASE CheckLogs(d)
    BY <2>5 DEF CheckLogs, Checks
  <2> QED BY <2>1, <2>2, <2>3, <2>4, <2>5
<1> QED BY <1>1, NextCheck

\* ... from the canary's removal to the end of the monitoring.
LEMMA ContextSwap ==
  ASSUME ContextInv, NEW d \in Deploys, faults' \in 0..faults,
         AbortCanary(d) \/ ReleaseCanary(d) \/ ComposePull(d) \/ ComposeUp(d)
         \/ CheckService(d) \/ MonitorEnds(d)
  PROVE  ContextInv'
<1>1. CASE AbortCanary(d)
  <2> DEFINE st == finish_stage(stages[d], "health_check", FALSE)
  <2>1. At(d, "docker_compose", "abort") /\ finish(d, "failed", -1, st)
    BY <1>1 DEF AbortCanary
  <2>2. pc[d] \notin Over /\ stages[d] \in StageVectors /\ ComposeShape("abort", stages[d])
    BY <2>1, AtFacts DEF Over, Shape
  <2>3. st \in StageVectors /\ DOMAIN st = DOMAIN stages[d]
        /\ (\A n \in DOMAIN stages[d] : n # "health_check" => st[n] = stages[d][n])
        /\ ("health_check" \in DOMAIN stages[d] => st["health_check"] = "failed")
    BY <2>2, StageFailed, Zenon
  <2> HIDE DEF st
  <2>4. Agrees("failed", -1, st) /\ -1 \in Int
    BY <2>2, <2>3 DEF Agrees, ComposeShape, Checks
  <2> QED BY <2>1, <2>2, <2>3, <2>4, Finish
<1>2. CASE ReleaseCanary(d)
  <2> DEFINE st == finish_stage(stages[d], "health_check", TRUE)
  <2>1. At(d, "docker_compose", "release") /\ goes_on(d, "healthy", st, 0)
    BY <1>2 DEF ReleaseCanary
  <2>2. pc[d] \notin Over /\ strategy[d] = "docker_compose" /\ stages[d] \in StageVectors
        /\ ComposeShape("release", stages[d])
    BY <2>1, AtFacts DEF Over, Shape
  <2>3. st \in StageVectors /\ DOMAIN st = DOMAIN stages[d]
        /\ (\A n \in DOMAIN stages[d] : n # "health_check" => st[n] = stages[d][n])
        /\ ("health_check" \in DOMAIN stages[d] => st["health_check"] = "success")
    BY <2>2, StageSucceeded, Zenon
  <2> HIDE DEF st
  <2>4. ComposeShape("healthy", st)
    BY <2>2, <2>3 DEF ComposeShape, Checks
  <2>5. Shape(strategy[d], "healthy", st, 0) /\ "healthy" \in Places \ Over
    BY <2>2, <2>4 DEF Shape, Places, Over
  <2> QED BY <2>1, <2>2, <2>3, <2>5, GoesOn
<1>3. CASE ComposePull(d)
  <2> DEFINE st == start(stages[d], "compose_up")
  <2>1. At(d, "docker_compose", "healthy") /\ goes_on(d, "swap", st, 0)
    BY <1>3 DEF ComposePull
  <2>2. pc[d] \notin Over /\ strategy[d] = "docker_compose" /\ stages[d] \in StageVectors
        /\ ComposeShape("healthy", stages[d])
    BY <2>1, AtFacts DEF Over, Shape
  <2>3. st \in StageVectors /\ DOMAIN st = DOMAIN stages[d]
        /\ (\A n \in DOMAIN st : st[n] = IF n = "compose_up" THEN "running" ELSE stages[d][n])
    BY <2>2, StageStarted
  <2> HIDE DEF st
  <2>4. ComposeShape("swap", st)
    BY <2>2, <2>3 DEF ComposeShape, Checks
  <2>5. Shape(strategy[d], "swap", st, 0) /\ "swap" \in Places \ Over
    BY <2>2, <2>4 DEF Shape, Places, Over
  <2> QED BY <2>1, <2>2, <2>3, <2>5, GoesOn
<1>4. CASE ComposeUp(d)
  <2> DEFINE bad == finish_stage(stages[d], "compose_up", FALSE)
             good == finish_stage(stages[d], "compose_up", TRUE)
             st == start(good, "post_deploy_monitor")
  <2>1. /\ At(d, "docker_compose", "swap")
        /\ goes_on(d, "monitor", st, 0) \/ finish(d, "failed", 1, bad)
    BY <1>4, Zenon DEF ComposeUp
  <2>2. pc[d] \notin Over /\ strategy[d] = "docker_compose" /\ stages[d] \in StageVectors
        /\ ComposeShape("swap", stages[d])
    BY <2>1, AtFacts DEF Over, Shape
  <2>3. CASE finish(d, "failed", 1, bad)
    <3>1. bad \in StageVectors /\ DOMAIN bad = DOMAIN stages[d]
          /\ (\A n \in DOMAIN stages[d] : n # "compose_up" => bad[n] = stages[d][n])
          /\ ("compose_up" \in DOMAIN stages[d] => bad["compose_up"] = "failed")
      BY <2>2, StageFailed, Zenon
    <3> HIDE DEF bad
    <3>2. Agrees("failed", 1, bad)
      BY <2>2, <3>1 DEF Agrees, ComposeShape, Checks
    <3> QED BY <2>2, <2>3, <3>1, <3>2, Finish
  <2>4. CASE goes_on(d, "monitor", st, 0)
    <3>1. good \in StageVectors /\ DOMAIN good = DOMAIN stages[d]
          /\ (\A n \in DOMAIN stages[d] : n # "compose_up" => good[n] = stages[d][n])
          /\ ("compose_up" \in DOMAIN stages[d] => good["compose_up"] = "success")
      BY <2>2, StageSucceeded, Zenon
    <3> HIDE DEF good
    <3>2. st \in StageVectors /\ DOMAIN st = DOMAIN good
          /\ (\A n \in DOMAIN st : st[n] = IF n = "post_deploy_monitor" THEN "running" ELSE good[n])
      BY <3>1, StageStarted
    <3> HIDE DEF st
    <3>3. ComposeShape("monitor", st)
      BY <2>2, <3>1, <3>2 DEF ComposeShape, Checks
    <3>4. Shape(strategy[d], "monitor", st, 0) /\ "monitor" \in Places \ Over
      BY <2>2, <3>3 DEF Shape, Places, Over
    <3> QED BY <2>2, <2>4, <3>2, <3>4, GoesOn
  <2> QED BY <2>1, <2>3, <2>4
<1>5. CASE CheckService(d) \/ MonitorEnds(d)
  <2>1. /\ At(d, "docker_compose", "monitor") \/ At(d, "docker_compose", "watching")
        /\ EndMonitor(d, TRUE) \/ EndMonitor(d, FALSE) \/ goes_on(d, "watching", stages[d], 0)
    BY <1>5, Zenon DEF CheckService, MonitorEnds
  <2>2. pc[d] \notin Over /\ strategy[d] = "docker_compose" /\ stages[d] \in StageVectors
        /\ ComposeShape("watching", stages[d])
    <3>1. ASSUME NEW place \in {"monitor", "watching"}, At(d, "docker_compose", place)
          PROVE  pc[d] \notin Over /\ strategy[d] = "docker_compose" /\ stages[d] \in StageVectors
                 /\ ComposeShape(place, stages[d])
      BY <3>1, AtFacts DEF Over, Shape
    <3>2. ComposeShape("monitor", stages[d]) => ComposeShape("watching", stages[d])
      BY DEF ComposeShape, Checks
    <3> QED BY <2>1, <3>1, <3>2
  <2>3. CASE goes_on(d, "watching", stages[d], 0)
    <3>1. Shape(strategy[d], "watching", stages[d], 0) /\ "watching" \in Places \ Over
      BY <2>2 DEF Shape, Places, Over
    <3> QED BY <2>2, <2>3, <3>1, GoesOn
  <2>4. ASSUME NEW ok \in BOOLEAN, EndMonitor(d, ok) PROVE ContextInv'
    <3> DEFINE st == finish_stage(stages[d], "post_deploy_monitor", ok)
    <3>1. finish(d, "success", 0, st)
      BY <2>4 DEF EndMonitor
    <3>2. st \in StageVectors /\ DOMAIN st = DOMAIN stages[d]
          /\ (\A n \in DOMAIN st : n # "post_deploy_monitor" => st[n] = stages[d][n])
          /\ ("post_deploy_monitor" \in DOMAIN st => st["post_deploy_monitor"] \in {"success", "failed"})
      BY <2>2, StageFinished
    <3> HIDE DEF st
    <3>3. Agrees("success", 0, st)
      BY <2>2, <3>2 DEF Agrees, ComposeShape, Checks
    <3> QED BY <2>2, <3>1, <3>2, <3>3, Finish
  <2> QED BY <2>1, <2>3, <2>4
<1> QED BY <1>1, <1>2, <1>3, <1>4, <1>5

\* Builds: up to the hash of the commit.
LEMMA ContextBuildStarts ==
  ASSUME ContextInv, NEW d \in Deploys, faults' \in 0..faults,
         BeginBuild(d) \/ BuildGitPull(d) \/ BuildGitFailed(d) \/ TagOfCommit(d)
  PROVE  ContextInv'
<1>1. CASE BeginBuild(d)
  <2>1. PICK latest \in SUBSET {"docker_push_latest"} :
          goes_on(d, "git", start(new({"git_pull", "docker_build", "docker_push"} \cup latest),
                                  "git_pull"), 0)
    BY <1>1, Zenon DEF BeginBuild
  <2>2. At(d, "docker_build", "begin")
    BY <1>1 DEF BeginBuild
  <2>3. pc[d] \notin Over /\ strategy[d] = "docker_build"
    BY <2>2, AtFacts DEF Over
  <2> DEFINE names == {"git_pull", "docker_build", "docker_push"} \cup latest
             fresh == new(names)
             st == start(fresh, "git_pull")
  <2>4. names \in SUBSET StageNames /\ names \in {BuildStages, BuildStages \cup {"docker_push_latest"}}
    BY DEF StageNames, BuildStages
  <2>5. {"git_pull", "docker_build", "docker_push"} \subseteq names
    OBVIOUS
  <2> HIDE DEF names
  <2>6. fresh \in StageVectors /\ DOMAIN fresh = names /\ \A n \in names : fresh[n] = "pending"
    BY <2>4, NewVector
  <2> HIDE DEF fresh
  <2>7. st \in StageVectors /\ DOMAIN st = names
        /\ \A n \in names : st[n] = IF n = "git_pull" THEN "running" ELSE "pending"
    BY <2>6, StageStarted
  <2> HIDE DEF st
  <2>8. BuildShape("git", st, 0)
    BY <2>4, <2>5, <2>7 DEF BuildShape
  <2>9. Shape(strategy[d], "git", st, 0) /\ "git" \in Places \ Over
    BY <2>3, <2>8 DEF Shape, Places, Over
  <2>10. goes_on(d, "git", st, 0)
    BY <2>1, Zenon DEF st, fresh, names
  <2> QED BY <2>3, <2>7, <2>9, <2>10, GoesOn
<1>2. CASE BuildGitPull(d)
  <2>1. PICK ok \in BOOLEAN :
          goes_on(d, IF ok THEN "hash" ELSE "git_failed", finish_stage(stages[d], "git_pull", ok),
                  IF ok THEN 0 ELSE 1)
    BY <1>2, Zenon DEF BuildGitPull
  <2>2. At(d, "docker_build", "git")
    BY <1>2 DEF BuildGitPull
  <2>3. pc[d] \notin Over /\ strategy[d] = "docker_build" /\ stages[d] \in StageVectors
        /\ BuildShape("git", stages[d], exit_code[d])
    BY <2>2, AtFacts DEF Over, Shape
  <2> DEFINE st == finish_stage(stages[d], "git_pull", ok)
             place == IF ok THEN "hash" ELSE "git_failed"
             code == IF ok THEN 0 ELSE 1
  <2>4. st \in StageVectors /\ DOMAIN st = DOMAIN stages[d]
        /\ (\A n \in DOMAIN st : n # "git_pull" => st[n] = stages[d][n])
        /\ ("git_pull" \in DOMAIN st => (ok => st["git_pull"] = "success")
                                        /\ (~ok => st["git_pull"] = "failed"))
    BY <2>3, StageFinished
  <2> HIDE DEF st
  <2>5. BuildShape(place, st, code)
    BY <2>3, <2>4 DEF BuildShape, BuildStages
  <2>6. Shape(strategy[d], place, st, code) /\ place \in Places \ Over /\ code \in Int
    BY <2>3, <2>5 DEF Shape, Places, Over
  <2>7. goes_on(d, place, st, code)
    BY <2>1, Zenon DEF st
  <2> HIDE DEF place, code
  <2> QED BY <2>3, <2>4, <2>6, <2>7, GoesOn
<1>3. CASE BuildGitFailed(d)
  <2>1. At(d, "docker_build", "git_failed")
        /\ (finish(d, "failed", -2, stages[d]) \/ finish(d, "failed", exit_code[d], stages[d]))
    BY <1>3 DEF BuildGitFailed, finish_cancelled
  <2>2. pc[d] \notin Over /\ stages[d] \in StageVectors
        /\ BuildShape("git_failed", stages[d], exit_code[d])
    BY <2>1, AtFacts DEF Over, Shape
  <2>3. exit_code[d] = 1 /\ \A code \in {-2, 1} : code \in Int /\ Agrees("failed", code, stages[d])
    BY <2>2 DEF BuildShape, BuildStages, Agrees
  <2> QED BY <2>1, <2>2, <2>3, Finish
<1>4. CASE TagOfCommit(d)
  <2> DEFINE st == start(stages[d], "docker_build")
  <2>1. At(d, "docker_build", "hash")
        /\ (finish(d, "failed", -2, stages[d]) \/ goes_on(d, "spawn_build", st, 0))
    BY <1>4 DEF TagOfCommit, finish_cancelled
  <2>2. pc[d] \notin Over /\ strategy[d] = "docker_build" /\ stages[d] \in StageVectors
        /\ BuildShape("hash", stages[d], exit_code[d])
    BY <2>1, AtFacts DEF Over, Shape
  <2>3. CASE finish(d, "failed", -2, stages[d])
    <3>1. Agrees("failed", -2, stages[d]) /\ -2 \in Int
      BY <2>2 DEF BuildShape, BuildStages, Agrees
    <3> QED BY <2>2, <2>3, <3>1, Finish
  <2>4. CASE goes_on(d, "spawn_build", st, 0)
    <3>1. st \in StageVectors /\ DOMAIN st = DOMAIN stages[d]
          /\ \A n \in DOMAIN stages[d] : st[n] = IF n = "docker_build" THEN "running" ELSE stages[d][n]
      BY <2>2, StageStarted
    <3> HIDE DEF st
    <3>2. BuildShape("spawn_build", st, 0)
      BY <2>2, <3>1 DEF BuildShape, BuildStages
    <3>3. Shape(strategy[d], "spawn_build", st, 0) /\ "spawn_build" \in Places \ Over
      BY <2>2, <3>2 DEF Shape, Places, Over
    <3> QED BY <2>2, <2>4, <3>1, <3>3, GoesOn
  <2> QED BY <2>1, <2>3, <2>4
<1> QED BY <1>1, <1>2, <1>3, <1>4

\* ... the build and the push of its tag.
LEMMA ContextBuildRuns ==
  ASSUME ContextInv, NEW d \in Deploys, faults' \in 0..faults,
         \/ SpawnBuild(d) \/ BuildExits(d) \/ BuildDrained(d) \/ BuildCancelled(d)
         \/ BeforePush(d) \/ Push(d)
  PROVE  ContextInv'
<1>1. ASSUME NEW place \in {"spawn_build", "output", "push"}, NEW next_place, NEW name,
             NEW ok \in BOOLEAN, NEW code \in Int, code # 0,
             place = "output" => next_place = "built" /\ name = "docker_build",
             place = "push" => next_place = "pushed" /\ name = "docker_push",
             place = "spawn_build" => ~ok /\ name = "docker_build",
             At(d, "docker_build", place),
             IF ok THEN goes_on(d, next_place, finish_stage(stages[d], name, ok), 0)
             ELSE finish(d, "failed", code, finish_stage(stages[d], name, ok))
      PROVE  ContextInv'
  <2>1. pc[d] \notin Over /\ strategy[d] = "docker_build" /\ stages[d] \in StageVectors
        /\ BuildShape(place, stages[d], exit_code[d])
    BY <1>1, AtFacts DEF Over, Shape
  <2> DEFINE st == finish_stage(stages[d], name, ok)
  <2>2. st \in StageVectors /\ DOMAIN st = DOMAIN stages[d]
        /\ (\A n \in DOMAIN st : n # name => st[n] = stages[d][n])
        /\ (name \in DOMAIN st => (ok => st[name] = "success") /\ (~ok => st[name] = "failed"))
    BY <2>1, StageFinished
  <2>3. CASE ok
    <3>1. goes_on(d, next_place, st, 0)
      BY <1>1, <2>3, Zenon
    <3> HIDE DEF st
    <3>2. BuildShape(next_place, st, 0)
      BY <1>1, <2>1, <2>2, <2>3 DEF BuildShape, BuildStages
    <3>3. Shape(strategy[d], next_place, st, 0) /\ next_place \in Places \ Over
      BY <1>1, <2>1, <2>3, <3>2 DEF Shape, Places, Over
    <3> QED BY <2>1, <2>2, <3>1, <3>3, GoesOn
  <2>4. CASE ~ok
    <3>1. finish(d, "failed", code, st)
      BY <1>1, <2>4, Zenon
    <3> HIDE DEF st
    <3>2. Agrees("failed", code, st)
      BY <1>1, <2>1, <2>2, <2>4 DEF BuildShape, BuildStages, Agrees
    <3> QED BY <1>1, <2>1, <2>2, <3>1, <3>2, Finish
  <2> QED BY <2>3, <2>4
<1>2. CASE SpawnBuild(d)
  <2>1. /\ At(d, "docker_build", "spawn_build")
        /\ \/ goes_on(d, "building", stages[d], 0)
           \/ finish(d, "failed", -1, finish_stage(stages[d], "docker_build", FALSE))
    BY <1>2, Zenon DEF SpawnBuild
  <2>2. CASE goes_on(d, "building", stages[d], 0)
    <3>1. pc[d] \notin Over /\ strategy[d] = "docker_build" /\ stages[d] \in StageVectors
          /\ BuildShape("spawn_build", stages[d], exit_code[d])
      BY <2>1, AtFacts DEF Over, Shape
    <3>2. Shape(strategy[d], "building", stages[d], 0) /\ "building" \in Places \ Over
      BY <3>1 DEF Shape, BuildShape, Places, Over
    <3> QED BY <2>2, <3>1, <3>2, GoesOn
  <2>3. -1 \in Int /\ -1 # 0
    OBVIOUS
  <2>4. CASE finish(d, "failed", -1, finish_stage(stages[d], "docker_build", FALSE))
    BY <1>1, <2>1, <2>3, <2>4
  <2> QED BY <2>1, <2>2, <2>4
<1>3. CASE BuildExits(d)
  <2>1. PICK code \in {0, 1} : goes_on(d, "output", stages[d], code)
    BY <1>3, Zenon DEF BuildExits
  <2>2. pc[d] \notin Over /\ strategy[d] = "docker_build" /\ stages[d] \in StageVectors
        /\ BuildShape("building", stages[d], exit_code[d])
    <3>1. At(d, "docker_build", "building")
      BY <1>3 DEF BuildExits
    <3> QED BY <3>1, AtFacts DEF Over, Shape
  <2>3. Shape(strategy[d], "output", stages[d], code) /\ "output" \in Places \ Over /\ code \in Int
    BY <2>2 DEF Shape, BuildShape, Places, Over
  <2> QED BY <2>1, <2>2, <2>3, GoesOn
<1>4. CASE BuildDrained(d)
  <2>1. At(d, "docker_build", "output")
    BY <1>4 DEF BuildDrained
  <2>2. exit_code[d] \in {0, 1}
    <3>1. BuildShape("output", stages[d], exit_code[d])
      BY <2>1, AtFacts DEF Over, Shape
    <3> QED BY <3>1 DEF BuildShape
  <2> DEFINE st(ok) == finish_stage(stages[d], "docker_build", ok)
  <2>3. CASE exit_code[d] = 0
    <3>1. (exit_code[d] = 0) = TRUE
      BY <2>3
    <3>2. goes_on(d, "built", st(TRUE), 0)
      BY <1>4, <2>3, <3>1, Zenon DEF BuildDrained
    <3>3. 1 \in Int /\ 1 # 0
      OBVIOUS
    <3> QED BY <1>1, <2>1, <3>2, <3>3
  <2>4. CASE exit_code[d] # 0
    <3>1. (exit_code[d] = 0) = FALSE /\ exit_code[d] \in Int
      BY <2>2, <2>4
    <3>2. finish(d, "failed", exit_code[d], st(FALSE))
      BY <1>4, <2>4, <3>1, Zenon DEF BuildDrained
    <3> QED BY <1>1, <2>1, <2>4, <3>1, <3>2
  <2> QED BY <2>3, <2>4
<1>5. CASE Push(d)
  <2>1. At(d, "docker_build", "push")
        /\ \E ok \in BOOLEAN :
             IF ok THEN goes_on(d, "pushed", finish_stage(stages[d], "docker_push", ok), 0)
             ELSE finish(d, "failed", 1, finish_stage(stages[d], "docker_push", ok))
    BY <1>5, Zenon DEF Push
  <2>2. 1 \in Int /\ 1 # 0
    OBVIOUS
  <2> QED BY <1>1, <2>1, <2>2
<1>6. CASE BuildCancelled(d)
  <2> DEFINE st == [n \in DOMAIN stages[d] |->
                      IF stages[d][n] \in {"pending", "running"} THEN "skipped" ELSE stages[d][n]]
  <2>1. At(d, "docker_build", "building") /\ finish(d, "failed", -2, st)
    BY <1>6 DEF BuildCancelled
  <2>2. pc[d] \notin Over /\ stages[d] \in StageVectors
    BY <2>1, AtFacts DEF Over
  <2>3. st \in StageVectors
    BY <2>2 DEF StageVectors, StageStatus
  <2>4. Agrees("failed", -2, st) /\ -2 \in Int
    BY DEF Agrees
  <2> HIDE DEF st
  <2> QED BY <2>1, <2>2, <2>3, <2>4, Finish
<1>7. CASE BeforePush(d)
  <2> DEFINE st == start(stages[d], "docker_push")
  <2>1. At(d, "docker_build", "built")
        /\ (finish(d, "failed", -2, stages[d]) \/ goes_on(d, "push", st, 0))
    BY <1>7 DEF BeforePush, finish_cancelled
  <2>2. pc[d] \notin Over /\ strategy[d] = "docker_build" /\ stages[d] \in StageVectors
        /\ BuildShape("built", stages[d], exit_code[d])
    BY <2>1, AtFacts DEF Over, Shape
  <2>3. CASE finish(d, "failed", -2, stages[d])
    <3>1. Agrees("failed", -2, stages[d]) /\ -2 \in Int
      BY <2>2 DEF BuildShape, BuildStages, Agrees
    <3> QED BY <2>2, <2>3, <3>1, Finish
  <2>4. CASE goes_on(d, "push", st, 0)
    <3>1. st \in StageVectors /\ DOMAIN st = DOMAIN stages[d]
          /\ \A n \in DOMAIN stages[d] : st[n] = IF n = "docker_push" THEN "running" ELSE stages[d][n]
      BY <2>2, StageStarted
    <3> HIDE DEF st
    <3>2. BuildShape("push", st, 0)
      BY <2>2, <3>1 DEF BuildShape, BuildStages
    <3>3. Shape(strategy[d], "push", st, 0) /\ "push" \in Places \ Over
      BY <2>2, <3>2 DEF Shape, Places, Over
    <3> QED BY <2>2, <2>4, <3>1, <3>3, GoesOn
  <2> QED BY <2>1, <2>3, <2>4
<1> QED BY <1>2, <1>3, <1>4, <1>5, <1>6, <1>7

\* ... latest.
LEMMA ContextLatest ==
  ASSUME ContextInv, NEW d \in Deploys, faults' \in 0..faults,
         BeforeLatest(d) \/ TagLatest(d) \/ PushLatest(d)
  PROVE  ContextInv'
<1>1. CASE BeforeLatest(d)
  <2> DEFINE st == start(stages[d], "docker_push_latest")
  <2>1. At(d, "docker_build", "pushed")
        /\ \/ finish(d, "failed", -2, stages[d])
           \/ "docker_push_latest" \in DOMAIN stages[d] /\ goes_on(d, "tag", st, 0)
           \/ finish(d, "success", 0, stages[d])
    BY <1>1, Zenon DEF BeforeLatest, finish_cancelled
  <2>2. pc[d] \notin Over /\ strategy[d] = "docker_build" /\ stages[d] \in StageVectors
        /\ BuildShape("pushed", stages[d], exit_code[d])
    BY <2>1, AtFacts DEF Over, Shape
  <2>3. CASE finish(d, "failed", -2, stages[d])
    <3>1. Agrees("failed", -2, stages[d]) /\ -2 \in Int
      BY <2>2 DEF BuildShape, BuildStages, Agrees
    <3> QED BY <2>2, <2>3, <3>1, Finish
  <2>4. CASE "docker_push_latest" \in DOMAIN stages[d] /\ goes_on(d, "tag", st, 0)
    <3>1. st \in StageVectors /\ DOMAIN st = DOMAIN stages[d]
          /\ \A n \in DOMAIN stages[d] :
               st[n] = IF n = "docker_push_latest" THEN "running" ELSE stages[d][n]
      BY <2>2, StageStarted
    <3> HIDE DEF st
    <3>2. BuildShape("tag", st, 0)
      BY <2>2, <2>4, <3>1 DEF BuildShape, BuildStages
    <3>3. Shape(strategy[d], "tag", st, 0) /\ "tag" \in Places \ Over
      BY <2>2, <3>2 DEF Shape, Places, Over
    <3> QED BY <2>2, <2>4, <3>1, <3>3, GoesOn
  <2>5. CASE finish(d, "success", 0, stages[d])
    <3>1. Agrees("success", 0, stages[d])
      BY <2>2 DEF BuildShape, BuildStages, Agrees
    <3> QED BY <2>2, <2>5, <3>1, Finish
  <2> QED BY <2>1, <2>3, <2>4, <2>5
<1>2. CASE TagLatest(d)
  <2>1. At(d, "docker_build", "tag") /\ goes_on(d, "push_latest", stages[d], 0)
    BY <1>2 DEF TagLatest
  <2>2. pc[d] \notin Over /\ strategy[d] = "docker_build" /\ stages[d] \in StageVectors
        /\ BuildShape("tag", stages[d], exit_code[d])
    BY <2>1, AtFacts DEF Over, Shape
  <2>3. BuildShape("push_latest", stages[d], 0)
    BY <2>2 DEF BuildShape
  <2>4. Shape(strategy[d], "push_latest", stages[d], 0) /\ "push_latest" \in Places \ Over
    BY <2>2, <2>3 DEF Shape, Places, Over
  <2> QED BY <2>1, <2>2, <2>4, GoesOn
<1>3. CASE PushLatest(d)
  <2>1. PICK ok \in BOOLEAN :
          finish(d, "success", 0, finish_stage(stages[d], "docker_push_latest", ok))
    BY <1>3, Zenon DEF PushLatest
  <2>2. At(d, "docker_build", "push_latest")
    BY <1>3 DEF PushLatest
  <2>3. pc[d] \notin Over /\ stages[d] \in StageVectors
        /\ BuildShape("push_latest", stages[d], exit_code[d])
    BY <2>2, AtFacts DEF Over, Shape
  <2> DEFINE st == finish_stage(stages[d], "docker_push_latest", ok)
  <2>4. st \in StageVectors /\ DOMAIN st = DOMAIN stages[d]
        /\ (\A n \in DOMAIN st : n # "docker_push_latest" => st[n] = stages[d][n])
        /\ ("docker_push_latest" \in DOMAIN st => st["docker_push_latest"] \in {"success", "failed"})
    BY <2>3, StageFinished
  <2>5. finish(d, "success", 0, st)
    BY <2>1, Zenon DEF st
  <2> HIDE DEF st
  <2>6. Agrees("success", 0, st)
    BY <2>3, <2>4 DEF BuildShape, BuildStages, Agrees
  <2> QED BY <2>3, <2>4, <2>5, <2>6, Finish
<1> QED BY <1>1, <1>2, <1>3

\* Scripts.
LEMMA ContextScript ==
  ASSUME ContextInv, NEW d \in Deploys, faults' \in 0..faults, ScriptStep(d)
  PROVE  ContextInv'
<1>1. CASE BeginScript(d)
  <2> DEFINE fresh == new({"git_pull", "execute_script"})
             st == start(fresh, "git_pull")
  <2>1. At(d, "script", "begin") /\ goes_on(d, "git", st, 0)
    BY <1>1 DEF BeginScript
  <2>2. pc[d] \notin Over /\ strategy[d] = "script"
    BY <2>1, AtFacts DEF Over
  <2>3. {"git_pull", "execute_script"} \in SUBSET StageNames
    BY DEF StageNames
  <2>4. fresh \in StageVectors /\ DOMAIN fresh = {"git_pull", "execute_script"}
        /\ \A n \in {"git_pull", "execute_script"} : fresh[n] = "pending"
    BY <2>3, NewVector
  <2> HIDE DEF fresh
  <2>5. st \in StageVectors /\ DOMAIN st = DOMAIN fresh
        /\ \A n \in DOMAIN fresh : st[n] = IF n = "git_pull" THEN "running" ELSE fresh[n]
    BY <2>4, StageStarted
  <2> HIDE DEF st
  <2>6. Shape(strategy[d], "git", st, 0) /\ "git" \in Places \ Over
    BY <2>2, <2>4, <2>5 DEF Shape, ScriptShape, Places, Over
  <2> QED BY <2>1, <2>2, <2>5, <2>6, GoesOn
<1>2. CASE ScriptGitPull(d)
  <2>1. PICK ok \in BOOLEAN :
          LET st == finish_stage(stages[d], "git_pull", ok)
          IN  finish(d, "failed", -2, st) \/ goes_on(d, "spawn", start(st, "execute_script"), 0)
    BY <1>2, Zenon DEF ScriptGitPull
  <2>2. At(d, "script", "git")
    BY <1>2 DEF ScriptGitPull
  <2>3. pc[d] \notin Over /\ strategy[d] = "script" /\ stages[d] \in StageVectors
        /\ ScriptShape("git", stages[d])
    BY <2>2, AtFacts DEF Over, Shape
  <2> DEFINE st == finish_stage(stages[d], "git_pull", ok)
             both == start(st, "execute_script")
  <2>4. st \in StageVectors /\ DOMAIN st = DOMAIN stages[d]
        /\ (\A n \in DOMAIN st : n # "git_pull" => st[n] = stages[d][n])
        /\ ("git_pull" \in DOMAIN st => st["git_pull"] \in {"success", "failed"})
    BY <2>3, StageFinished
  <2>5. finish(d, "failed", -2, st) \/ goes_on(d, "spawn", both, 0)
    BY <2>1, Zenon
  <2> HIDE DEF st
  <2>6. CASE finish(d, "failed", -2, st)
    <3>1. Agrees("failed", -2, st) /\ -2 \in Int
      BY <2>3, <2>4 DEF ScriptShape, Agrees
    <3> QED BY <2>3, <2>4, <2>6, <3>1, Finish
  <2>7. CASE goes_on(d, "spawn", both, 0)
    <3>1. both \in StageVectors /\ DOMAIN both = DOMAIN st
          /\ \A n \in DOMAIN st : both[n] = IF n = "execute_script" THEN "running" ELSE st[n]
      BY <2>4, StageStarted
    <3> HIDE DEF both
    <3>2. Shape(strategy[d], "spawn", both, 0) /\ "spawn" \in Places \ Over
      BY <2>3, <2>4, <3>1 DEF Shape, ScriptShape, Places, Over
    <3> QED BY <2>3, <2>7, <3>1, <3>2, GoesOn
  <2> QED BY <2>5, <2>6, <2>7
<1>3. ASSUME NEW place \in {"spawn", "script", "drain"}, At(d, "script", place),
             NEW code \in Int,
             \/ goes_on(d, "script", stages[d], code) \/ goes_on(d, "drain", stages[d], code)
             \/ code # 0 /\ finish(d, "failed", code, finish_stage(stages[d], "execute_script", FALSE))
             \/ code = 0 /\ finish(d, "success", 0, finish_stage(stages[d], "execute_script", TRUE))
      PROVE  ContextInv'
  <2>1. pc[d] \notin Over /\ strategy[d] = "script" /\ stages[d] \in StageVectors
        /\ ScriptShape(place, stages[d])
    BY <1>3, AtFacts DEF Over, Shape
  <2>2. ASSUME NEW next_place \in {"script", "drain"}, goes_on(d, next_place, stages[d], code)
        PROVE  ContextInv'
    <3>1. Shape(strategy[d], next_place, stages[d], code) /\ next_place \in Places \ Over
      BY <1>3, <2>1 DEF Shape, ScriptShape, Places, Over
    <3> QED BY <1>3, <2>1, <2>2, <3>1, GoesOn
  <2>3. CASE code # 0 /\ finish(d, "failed", code, finish_stage(stages[d], "execute_script", FALSE))
    <3> DEFINE st == finish_stage(stages[d], "execute_script", FALSE)
    <3>1. st \in StageVectors /\ DOMAIN st = DOMAIN stages[d]
          /\ (\A n \in DOMAIN stages[d] : n # "execute_script" => st[n] = stages[d][n])
          /\ ("execute_script" \in DOMAIN stages[d] => st["execute_script"] = "failed")
      BY <2>1, StageFailed, Zenon
    <3>2. finish(d, "failed", code, st)
      BY <2>3
    <3> HIDE DEF st
    <3>3. Agrees("failed", code, st)
      BY <1>3, <2>1, <2>3, <3>1 DEF ScriptShape, Agrees
    <3> QED BY <1>3, <2>1, <3>1, <3>2, <3>3, Finish
  <2>4. CASE code = 0 /\ finish(d, "success", 0, finish_stage(stages[d], "execute_script", TRUE))
    <3> DEFINE st == finish_stage(stages[d], "execute_script", TRUE)
    <3>1. st \in StageVectors /\ DOMAIN st = DOMAIN stages[d]
          /\ (\A n \in DOMAIN stages[d] : n # "execute_script" => st[n] = stages[d][n])
          /\ ("execute_script" \in DOMAIN stages[d] => st["execute_script"] = "success")
      BY <2>1, StageSucceeded, Zenon
    <3>2. finish(d, "success", 0, st)
      BY <2>4
    <3> HIDE DEF st
    <3>3. Agrees("success", 0, st)
      BY <1>3, <2>1, <3>1 DEF ScriptShape, Agrees
    <3> QED BY <2>1, <3>1, <3>2, <3>3, Finish
  <2> QED BY <1>3, <2>2, <2>3, <2>4
<1>4. CASE SpawnScript(d)
  <2>1. At(d, "script", "spawn")
        /\ \/ goes_on(d, "script", stages[d], 0)
           \/ finish(d, "failed", -1, finish_stage(stages[d], "execute_script", FALSE))
    BY <1>4, Zenon DEF SpawnScript
  <2>2. 0 \in Int /\ -1 \in Int /\ -1 # 0
    OBVIOUS
  <2> QED BY <1>3, <2>1, <2>2
<1>5. CASE ScriptExits(d)
  <2>1. At(d, "script", "script") /\ \E code \in {0, 1, -1} : goes_on(d, "drain", stages[d], code)
    BY <1>5 DEF ScriptExits
  <2>2. PICK code \in {0, 1, -1} : goes_on(d, "drain", stages[d], code)
    BY <2>1
  <2>3. code \in Int
    OBVIOUS
  <2> QED BY <1>3, <2>1, <2>2, <2>3
<1>6. CASE ScriptDrained(d)
  <2>1. At(d, "script", "drain") /\ exit_code[d] \in Int
    BY <1>6, ContextFacts DEF ScriptDrained
  <2>2. CASE exit_code[d] = 0
    <3>1. finish(d, "success", 0, finish_stage(stages[d], "execute_script", TRUE))
      <4>1. (exit_code[d] = 0) = TRUE
        BY <2>2
      <4>2. finish(d, IF exit_code[d] = 0 THEN "success" ELSE "failed", exit_code[d],
                   finish_stage(stages[d], "execute_script", exit_code[d] = 0))
        BY <1>6 DEF ScriptDrained
      <4> QED BY <2>2, <4>1, <4>2, Zenon
    <3> QED BY <1>3, <2>1, <2>2, <3>1
  <2>3. CASE exit_code[d] # 0
    <3>1. finish(d, "failed", exit_code[d], finish_stage(stages[d], "execute_script", FALSE))
      <4>1. (exit_code[d] = 0) = FALSE
        BY <2>3
      <4>2. finish(d, IF exit_code[d] = 0 THEN "success" ELSE "failed", exit_code[d],
                   finish_stage(stages[d], "execute_script", exit_code[d] = 0))
        BY <1>6 DEF ScriptDrained
      <4> QED BY <2>3, <4>1, <4>2, Zenon
    <3> QED BY <1>3, <2>1, <2>3, <3>1
  <2> QED BY <2>2, <2>3
<1>7. CASE ScriptCancelled(d)
  <2>1. At(d, "script", "script")
        /\ finish(d, "failed", -2, finish_stage(stages[d], "execute_script", FALSE))
    BY <1>7, Zenon DEF ScriptCancelled
  <2>2. -2 \in Int /\ -2 # 0
    OBVIOUS
  <2> QED BY <1>3, <2>1, <2>2
<1> QED BY <1>1, <1>2, <1>4, <1>5, <1>6, <1>7 DEF ScriptStep

\* The task on the other host.
LEMMA ContextXiaojincut ==
  ASSUME ContextInv, NEW d \in Deploys, faults' \in 0..faults, XiaojincutStep(d)
  PROVE  ContextInv'
<1>1. PICK place \in {"begin", "task"} : At(d, "xiaojincut", place)
  BY DEF XiaojincutStep, CheckXiaojincut, RunXiaojincutTask
<1>2. \/ goes_on(d, "task", stages[d], 0)
      \/ finish(d, "success", 0, <<>>)
      \/ \E code \in {1, -1} : finish(d, "failed", code, <<>>)
  BY DEF XiaojincutStep, CheckXiaojincut, RunXiaojincutTask
<1>3. pc[d] \notin Over /\ strategy[d] = "xiaojincut" /\ stages[d] \in StageVectors
  BY <1>1, AtFacts DEF Over
<1>4. CASE goes_on(d, "task", stages[d], 0)
  <2>1. Shape(strategy[d], "task", stages[d], 0) /\ "task" \in Places \ Over
    BY <1>3 DEF Shape, Places, Over
  <2> QED BY <1>3, <1>4, <2>1, GoesOn
<1>5. Agrees("success", 0, <<>>) /\ \A code \in {1, -1} : code \in Int /\ Agrees("failed", code, <<>>)
  BY NoVector DEF Agrees
<1> QED BY <1>2, <1>3, <1>4, <1>5, NoVector, Finish

\* What Docker does by itself, and what others do to the registry.
DockerStep ==
  \/ \E n \in Names : CanaryRuns(n) /\ UNCHANGED buildVars
  \/ \E t \in Tags : (ServiceRuns(t) \/ Publish(t)) /\ UNCHANGED buildVars

\* Steps that change no place.
LEMMA ContextRest ==
  ASSUME ContextInv, HostTyped, NEW d \in Deploys,
         \/ run_git_pull(d) \/ run_docker_pull(d) \/ SweepCanary(d) \/ spawn_timeout(d)
         \/ DockerStep \/ UNCHANGED contextVars
  PROVE  ContextInv'
<1>1. UNCHANGED <<strategy, pc, stages, exit_code, outcome, attempt, center>>
  BY DEF run_git_pull, run_docker_pull, SweepCanary, spawn_timeout, DockerStep, CanaryRuns,
         ServiceRuns, Publish, contextVars
<1>2. cancelled' \in [Deploys -> BOOLEAN]
  BY DEF ContextInv, ContextTyped, run_git_pull, run_docker_pull, SweepCanary, spawn_timeout,
         DockerStep, CanaryRuns, ServiceRuns, Publish, contextVars
<1>3. faults' \in 0..faults
  <2>1. CASE run_git_pull(d) \/ run_docker_pull(d) \/ SweepCanary(d)
    BY <2>1, ComposeSpends DEF ComposeStep
  <2>2. CASE spawn_timeout(d) \/ DockerStep \/ UNCHANGED contextVars
    <3>1. faults' = faults
      BY <2>2 DEF spawn_timeout, DockerStep, CanaryRuns, ServiceRuns, Publish, contextVars
    <3> QED BY <3>1, ContextFacts
  <2> QED BY <2>1, <2>2
<1> QED BY <1>1, <1>2, <1>3, ContextKept

\* Every step keeps places, stages, outcomes and the center in agreement.
LEMMA ContextNext ==
  ASSUME ContextInv, HostTyped, [StrategiesNext]_strategyVars PROVE ContextInv'
<1>1. ASSUME NEW d \in Deploys, ComposeStep(d) PROVE ContextInv'
  BY <1>1, ComposeSpends, ContextPulls, ContextChecks, ContextSwap, ContextRest DEF ComposeStep
<1>2. ASSUME NEW d \in Deploys, BuildStep(d) PROVE ContextInv'
  BY <1>2, OtherSpends, ContextBuildStarts, ContextBuildRuns, ContextLatest DEF BuildStep
<1>3. ASSUME NEW d \in Deploys,
             ScriptStep(d) \/ XiaojincutStep(d) \/ ContextStep(d) \/ SweepCanary(d) \/ spawn_timeout(d)
      PROVE  ContextInv'
  BY <1>3, OtherSpends, ContextScript, ContextXiaojincut, Notified, ContextRest DEF ContextStep
<1>4. CASE DockerStep \/ UNCHANGED strategyVars
  <2>1. UNCHANGED <<strategy, pc, stages, exit_code, outcome, attempt, center, cancelled, faults>>
    BY <1>4 DEF DockerStep, CanaryRuns, ServiceRuns, Publish, contextVars, strategyVars
  <2>2. cancelled' \in [Deploys -> BOOLEAN] /\ faults' \in 0..faults
    BY <2>1, DeployContextAssumption DEF ContextInv, ContextTyped
  <2> QED BY <2>1, <2>2, ContextKept
<1> QED BY <1>1, <1>2, <1>3, <1>4 DEF StrategiesNext, DockerStep

LEMMA ContextInvInit == StrategiesInit => ContextInv
<1> SUFFICES ASSUME StrategiesInit PROVE ContextInv
  OBVIOUS
<1>1. ContextTyped
  BY DeployContextAssumption, NoVector
     DEF StrategiesInit, ContextInit, ContextTyped, Kinds, Places
<1>2. ASSUME NEW d \in Deploys PROVE Deployment(d)
  <2>1. pc[d] = "begin" /\ outcome[d] = None /\ center[d] = None /\ strategy[d] \in Kinds
    BY <1>1 DEF StrategiesInit, ContextInit, ContextTyped
  <2> QED BY <2>1 DEF Deployment, Over, Shape, ComposeShape, BuildShape, ScriptShape
<1> QED BY <1>1, <1>2 DEF ContextInv

-------------------------------------------------------------------------------
(* What a step of one deployment leaves alone                              *)

\* What a deployment that goes on changes of itself.
LEMMA Went ==
  ASSUME ContextInv, NEW d \in Deploys, NEW place, NEW st, NEW code, goes_on(d, place, st, code)
  PROVE  /\ pc'[d] = place /\ stages'[d] = st
         /\ UNCHANGED <<strategy, cancelled, outcome>>
BY DEF goes_on, Goto, update_stages, ContextInv, ContextTyped

\* What a deployment that ends changes of itself.
LEMMA FinishedAs ==
  ASSUME ContextInv, NEW d \in Deploys, NEW status, NEW code, NEW st, finish(d, status, code, st)
  PROVE  /\ pc'[d] = "notify" /\ stages'[d] = st /\ UNCHANGED <<strategy, cancelled>>
         /\ outcome'[d] = [status |-> status, code |-> code, stages |-> st]
         /\ outcome'[d].status = status
BY DEF finish, Goto, update_stages, ContextInv, ContextTyped

StepOf(d) ==
  \/ ComposeStep(d) /\ UNCHANGED buildVars
  \/ SweepCanary(d) /\ UNCHANGED buildVars
  \/ BuildStep(d) \/ ScriptStep(d) \/ XiaojincutStep(d) \/ ContextStep(d)
  \/ spawn_timeout(d) /\ UNCHANGED <<composeVars, buildVars>>

\* What is another deployment's own.
Apart(e) ==
  /\ pc'[e] = pc[e] /\ stages'[e] = stages[e] /\ cancelled'[e] = cancelled[e]
  /\ exit_code'[e] = exit_code[e] /\ outcome'[e] = outcome[e]
  /\ sweep'[e] = sweep[e] /\ gitOk'[e] = gitOk[e] /\ pullOk'[e] = pullOk[e]
  /\ logsOk'[e] = logsOk[e] /\ seen'[e] = seen[e]
  /\ built'[e] = built[e] /\ tagged'[e] = tagged[e] /\ tagOk'[e] = tagOk[e]

\* A step of one deployment leaves the others' places, stages and outcomes
\* alone,
LEMMA ContextApart ==
  ASSUME ContextInv, NEW d \in Deploys, NEW e \in Deploys, e # d, StepOf(d)
  PROVE  /\ UNCHANGED strategy
         /\ pc'[e] = pc[e] /\ stages'[e] = stages[e] /\ cancelled'[e] = cancelled[e]
         /\ exit_code'[e] = exit_code[e] /\ outcome'[e] = outcome[e]
<1>1. ASSUME NEW place, NEW st, NEW code, goes_on(d, place, st, code)
      PROVE  /\ UNCHANGED strategy
             /\ pc'[e] = pc[e] /\ stages'[e] = stages[e] /\ cancelled'[e] = cancelled[e]
             /\ exit_code'[e] = exit_code[e] /\ outcome'[e] = outcome[e]
  BY <1>1 DEF goes_on, Goto, update_stages, ContextInv, ContextTyped
<1>2. ASSUME NEW status, NEW code, NEW st, finish(d, status, code, st)
      PROVE  /\ UNCHANGED strategy
             /\ pc'[e] = pc[e] /\ stages'[e] = stages[e] /\ cancelled'[e] = cancelled[e]
             /\ exit_code'[e] = exit_code[e] /\ outcome'[e] = outcome[e]
  BY <1>2 DEF finish, Goto, update_stages, ContextInv, ContextTyped
<1>3. CASE run_git_pull(d) \/ run_docker_pull(d) \/ SweepCanary(d)
  BY <1>3 DEF run_git_pull, run_docker_pull, SweepCanary
<1>4. CASE spawn_timeout(d) \/ ContextStep(d)
  BY <1>4 DEF spawn_timeout, ContextStep, do_notify, Goto, ContextInv, ContextTyped
<1>5. CASE \/ \E place, st, code : goes_on(d, place, st, code)
           \/ \E status, code, st : finish(d, status, code, st)
  BY <1>1, <1>2, <1>5, Zenon
<1>6. CASE ComposeStep(d)
  <2>1. CASE cleanup_stale_canaries(d) \/ EnsureClean(d) \/ RunCanary(d) \/ PollCanary(d)
             \/ CheckHttp(d) \/ CheckLogs(d) \/ ReleaseCanary(d) \/ ComposePull(d)
    BY <1>5, <2>1, Zenon DEF cleanup_stale_canaries, EnsureClean, RunCanary, PollCanary,
                             CheckHttp, CheckLogs, ReleaseCanary, ComposePull
  <2>2. CASE StartPulls(d)
    BY <1>5, <2>2, Zenon DEF StartPulls
  <2>3. CASE PullsDone(d)
    BY <1>5, <2>3, Zenon DEF PullsDone
  <2>4. CASE AbortCanary(d) \/ ComposeUp(d) \/ MonitorEnds(d)
    BY <1>5, <2>4, Zenon DEF AbortCanary, ComposeUp, MonitorEnds, EndMonitor
  <2>5. CASE CheckService(d)
    BY <1>5, <2>5, Zenon DEF CheckService, EndMonitor
  <2> QED BY <1>3, <1>6, <2>1, <2>2, <2>3, <2>4, <2>5 DEF ComposeStep
<1>7. CASE BuildStep(d)
  <2>1. CASE BeginBuild(d) \/ BuildGitPull(d) \/ BuildGitFailed(d) \/ TagOfCommit(d)
    BY <1>5, <2>1, Zenon DEF BeginBuild, BuildGitPull, BuildGitFailed, TagOfCommit, finish_cancelled
  <2>2. CASE SpawnBuild(d) \/ BuildExits(d) \/ BuildDrained(d) \/ BuildCancelled(d)
             \/ BeforePush(d) \/ Push(d)
    BY <1>5, <2>2, Zenon DEF SpawnBuild, BuildExits, BuildDrained, BuildCancelled, BeforePush, Push, finish_cancelled
  <2>3. CASE BeforeLatest(d) \/ TagLatest(d) \/ PushLatest(d)
    BY <1>5, <2>3, Zenon DEF BeforeLatest, TagLatest, PushLatest, finish_cancelled
  <2> QED BY <1>7, <2>1, <2>2, <2>3 DEF BuildStep
<1>8. CASE ScriptStep(d) \/ XiaojincutStep(d)
  <2>1. CASE BeginScript(d) \/ ScriptGitPull(d) \/ SpawnScript(d) \/ ScriptExits(d)
    BY <1>5, <2>1, Zenon DEF BeginScript, ScriptGitPull, SpawnScript, ScriptExits
  <2>2. CASE ScriptDrained(d) \/ ScriptCancelled(d)
    BY <1>5, <2>2, Zenon DEF ScriptDrained, ScriptCancelled
  <2>3. CASE CheckXiaojincut(d) \/ RunXiaojincutTask(d)
    BY <1>5, <2>3, Zenon DEF CheckXiaojincut, RunXiaojincutTask
  <2> QED BY <1>8, <2>1, <2>2, <2>3 DEF ScriptStep, XiaojincutStep
<1> QED BY <1>3, <1>4, <1>6, <1>7, <1>8, Zenon DEF StepOf

\* ... and their sweeps, pulls, builds and tags.
LEMMA HostApart ==
  ASSUME HostInv, NEW d \in Deploys, NEW e \in Deploys, e # d, StepOf(d)
  PROVE  /\ sweep'[e] = sweep[e] /\ gitOk'[e] = gitOk[e] /\ pullOk'[e] = pullOk[e]
         /\ logsOk'[e] = logsOk[e] /\ seen'[e] = seen[e]
         /\ built'[e] = built[e] /\ tagged'[e] = tagged[e] /\ tagOk'[e] = tagOk[e]
<1>1. CASE ComposeStep(d) /\ UNCHANGED buildVars
  <2>1. CASE cleanup_stale_canaries(d) \/ StartPulls(d) \/ run_git_pull(d) \/ run_docker_pull(d)
             \/ CheckLogs(d) \/ CheckService(d)
    BY <1>1, <2>1 DEF cleanup_stale_canaries, StartPulls, run_git_pull, run_docker_pull,
                      CheckLogs, CheckService, hostVars, resultVars, buildVars, HostInv, HostTyped
  <2>2. CASE \/ EnsureClean(d) \/ RunCanary(d) \/ AbortCanary(d) \/ ReleaseCanary(d)
             \/ ComposePull(d) \/ ComposeUp(d)
             \/ PullsDone(d) \/ PollCanary(d) \/ CheckHttp(d) \/ MonitorEnds(d)
    <3>1. UNCHANGED <<sweep, gitOk, pullOk, logsOk, seen, built, tagged, tagOk>>
      BY <1>1, <2>2, Zenon DEF EnsureClean, RunCanary, AbortCanary, ReleaseCanary, ComposePull,
           ComposeUp, PullsDone, PollCanary, CheckHttp, MonitorEnds, composeVars, resultVars,
           buildVars
    <3> QED BY <3>1
  <2> QED BY <1>1, <2>1, <2>2 DEF ComposeStep
<1>2. CASE SweepCanary(d) /\ UNCHANGED buildVars
  BY <1>2 DEF SweepCanary, resultVars, buildVars, HostInv, HostTyped
<1>3. CASE BuildStep(d)
  <2>1. UNCHANGED <<sweep, gitOk, pullOk, logsOk, seen>>
    BY <1>3 DEF BuildStep, BeginBuild, BuildGitPull, BuildGitFailed, TagOfCommit, SpawnBuild,
         BuildExits, BuildDrained, BuildCancelled, BeforePush, Push, BeforeLatest, TagLatest,
         PushLatest, composeVars, resultVars
  <2>2. CASE TagOfCommit(d) \/ SpawnBuild(d) \/ TagLatest(d)
    BY <2>1, <2>2 DEF TagOfCommit, SpawnBuild, TagLatest, HostInv, TagsTyped
  <2>3. CASE \/ BeginBuild(d) \/ BuildGitPull(d) \/ BuildGitFailed(d) \/ BuildExits(d)
             \/ BuildDrained(d) \/ BuildCancelled(d) \/ BeforePush(d) \/ Push(d)
             \/ BeforeLatest(d) \/ PushLatest(d)
    <3>1. UNCHANGED <<built, tagged, tagOk>>
      BY <2>3 DEF BeginBuild, BuildGitPull, BuildGitFailed, BuildExits, BuildDrained,
           BuildCancelled, BeforePush, Push, BeforeLatest, PushLatest, buildVars
    <3> QED BY <2>1, <3>1
  <2> QED BY <1>3, <2>2, <2>3 DEF BuildStep
<1>4. CASE ScriptStep(d) \/ XiaojincutStep(d) \/ ContextStep(d)
           \/ (spawn_timeout(d) /\ UNCHANGED <<composeVars, buildVars>>)
  <2>1. UNCHANGED <<composeVars, buildVars>>
    BY <1>4, Zenon DEF ScriptStep, XiaojincutStep, ContextStep, BeginScript, ScriptGitPull,
         SpawnScript, ScriptExits, ScriptDrained, ScriptCancelled, CheckXiaojincut, RunXiaojincutTask
  <2> QED BY <2>1 DEF composeVars, buildVars
<1> QED BY <1>1, <1>2, <1>3, <1>4 DEF StepOf

LEMMA StepApart ==
  ASSUME ContextInv, HostInv, NEW d \in Deploys, NEW e \in Deploys, e # d, StepOf(d)
  PROVE  UNCHANGED strategy /\ Apart(e)
BY ContextApart, HostApart DEF Apart

\* Which strategies change what in Docker and in the registry.
LEMMA DockerUse ==
  ASSUME NEW d \in Deploys, StepOf(d)
  PROVE  /\ leftover' = leftover /\ published' = published
         /\ strategy[d] # "docker_build" => UNCHANGED <<registry, buildVars>>
         /\ ~UsesDocker(d) => local' = local
         /\ strategy[d] # "docker_compose" => live' = live
         /\ strategy[d] # "docker_compose" /\ sweep[d] = {} => canary' = canary /\ sweep' = sweep
<1>1. CASE ComposeStep(d) /\ UNCHANGED buildVars
  <2>1. strategy[d] = "docker_compose"
    BY <1>1 DEF ComposeStep, cleanup_stale_canaries, StartPulls, run_git_pull, run_docker_pull,
         PullsDone, EnsureClean, RunCanary, PollCanary, CheckHttp, CheckLogs, AbortCanary,
         ReleaseCanary, ComposePull, ComposeUp, CheckService, MonitorEnds, At
  <2>2. UNCHANGED <<registry, leftover, published>>
    BY <1>1, Zenon DEF ComposeStep, cleanup_stale_canaries, StartPulls, run_git_pull,
         run_docker_pull, PullsDone, EnsureClean, RunCanary, PollCanary, CheckHttp, CheckLogs,
         AbortCanary, ReleaseCanary, ComposePull, ComposeUp, CheckService, MonitorEnds,
         composeVars, hostVars
  <2> QED BY <1>1, <2>1, <2>2 DEF UsesDocker
<1>2. CASE SweepCanary(d) /\ UNCHANGED buildVars
  BY <1>2 DEF SweepCanary
<1>3. CASE BuildStep(d)
  <2>1. strategy[d] = "docker_build"
    BY <1>3 DEF BuildStep, BeginBuild, BuildGitPull, BuildGitFailed, TagOfCommit, SpawnBuild,
         BuildExits, BuildDrained, BuildCancelled, BeforePush, Push, BeforeLatest, TagLatest,
         PushLatest, At
  <2>2. UNCHANGED <<published, leftover, live, canary, sweep>>
    BY <1>3, Zenon DEF BuildStep, BeginBuild, BuildGitPull, BuildGitFailed, TagOfCommit,
         SpawnBuild, BuildExits, BuildDrained, BuildCancelled, BeforePush, Push, BeforeLatest,
         TagLatest, PushLatest, composeVars
  <2> QED BY <2>1, <2>2 DEF UsesDocker
<1>4. CASE ScriptStep(d) \/ XiaojincutStep(d) \/ ContextStep(d)
           \/ (spawn_timeout(d) /\ UNCHANGED <<composeVars, buildVars>>)
  <2>1. UNCHANGED <<composeVars, buildVars>>
    BY <1>4, Zenon DEF ScriptStep, XiaojincutStep, ContextStep, BeginScript, ScriptGitPull,
         SpawnScript, ScriptExits, ScriptDrained, ScriptCancelled, CheckXiaojincut, RunXiaojincutTask
  <2> QED BY <2>1 DEF composeVars
<1> QED BY <1>1, <1>2, <1>3, <1>4 DEF StepOf

-------------------------------------------------------------------------------
(* The host: its images, containers and sweeps                             *)

LEMMA TagTyped == \A d \in Deploys : Tag[d] \in Tags
BY ComposeAssumption

\* What HostTyped says of a container.
LEMMA CanaryTyped ==
  ASSUME HostTyped, NEW n \in Containers
  PROVE  /\ n \in Names /\ canary[n] \in Canaries
         /\ canary[n].id \in Deploys \cup {Old}
BY DEF HostTyped, Containers, Canaries

\* The image of a compose deployment that has been pulled is here.
LEMMA ImageHere ==
  ASSUME HostInv, NEW d \in Deploys, NEW place \in Checks \cup {"healthy", "swap"},
         At(d, "docker_compose", place)
  PROVE  local[Tag[d]] \in Images
<1>1. Supplied(d) /\ strategy[d] = "docker_compose" /\ pc[d] \in Checks \cup {"healthy", "swap"}
  BY DEF HostInv, At
<1>2. local[Tag[d]] # None
  BY <1>1, Zenon DEF Supplied
<1> QED BY <1>2, TagTyped DEF HostInv, HostTyped

LEMMA MadeTyped ==
  ASSUME NEW d \in Deploys, NEW image \in Images, NEW status \in {"created", "running", "exited"}
  PROVE  Container(d, image, status) \in Canaries
BY DEF Container, Canaries

LEMMA HostPulls ==
  ASSUME HostInv, NEW d \in Deploys,
         \/ cleanup_stale_canaries(d) \/ StartPulls(d) \/ run_git_pull(d) \/ run_docker_pull(d)
         \/ PullsDone(d) \/ SweepCanary(d) \/ EnsureClean(d) \/ RunCanary(d)
  PROVE  HostTyped'
<1> USE DEF HostInv
<1>1. CASE cleanup_stale_canaries(d)
  <2>1. { canary[n].id : n \in Containers } \in SUBSET (Deploys \cup {Old})
    BY CanaryTyped
  <2> QED BY <1>1, <2>1 DEF cleanup_stale_canaries, HostTyped, resultVars
<1>2. CASE StartPulls(d) \/ run_git_pull(d)
  BY <1>2 DEF StartPulls, run_git_pull, HostTyped, hostVars
<1>3. CASE run_docker_pull(d)
  BY <1>3, TagTyped DEF run_docker_pull, HostTyped
<1>4. CASE PullsDone(d)
  BY <1>4 DEF PullsDone, HostTyped, composeVars
<1>5. CASE SweepCanary(d)
  <2>1. canary' \in [Names -> Canaries \cup {None}]
    BY <1>5 DEF SweepCanary, HostTyped
  <2>2. sweep' \in [Deploys -> SUBSET (Deploys \cup {Old})]
    BY <1>5 DEF SweepCanary, HostTyped
  <2> QED BY <1>5, <2>1, <2>2 DEF SweepCanary, HostTyped, resultVars
<1>6. CASE EnsureClean(d)
  BY <1>6 DEF EnsureClean, cleanup_canary_strict, HostTyped, resultVars
<1>7. CASE RunCanary(d)
  <2>1. local[Tag[d]] \in Images
    BY <1>7, ImageHere DEF RunCanary, Checks
  <2>2. \A status \in {"created", "running"} :
          Container(d, local[Tag[d]], status) \in Canaries
    BY <2>1, MadeTyped
  <2>3. \/ canary' = canary
        \/ \E status \in {"created", "running"} :
             canary' = [canary EXCEPT ![CanaryName[d]] = Container(d, local[Tag[d]], status)]
    BY <1>7 DEF RunCanary
  <2>4. canary' \in [Names -> Canaries \cup {None}]
    BY <2>2, <2>3 DEF HostTyped
  <2> QED BY <1>7, <2>4 DEF RunCanary, HostTyped, resultVars
<1> QED BY <1>1, <1>2, <1>3, <1>4, <1>5, <1>6, <1>7

\* A service is only looked at as running when it is there.
LEMMA LooksRunning ==
  ASSUME NEW t \in Tags, "running" \in get_container_state(t) PROVE live[t] # None
BY DEF get_container_state

\* Containers and services keep their types in the checks and the swap,
LEMMA HostSwaps ==
  ASSUME HostInv, NEW d \in Deploys,
         \/ PollCanary(d) \/ CheckHttp(d) \/ CheckLogs(d) \/ AbortCanary(d) \/ ReleaseCanary(d)
         \/ ComposePull(d) \/ ComposeUp(d) \/ CheckService(d) \/ MonitorEnds(d)
  PROVE  HostTyped'
<1> USE DEF HostInv
<1>1. CASE PollCanary(d) \/ CheckHttp(d) \/ MonitorEnds(d)
  <2>1. UNCHANGED composeVars
    BY <1>1, Zenon DEF PollCanary, CheckHttp, MonitorEnds
  <2> QED BY <2>1 DEF HostTyped, composeVars
<1>2. CASE AbortCanary(d) \/ ReleaseCanary(d)
  BY <1>2 DEF AbortCanary, ReleaseCanary, cleanup_canary_strict, HostTyped, resultVars
<1>3. CASE ComposePull(d)
  BY <1>3, TagTyped DEF ComposePull, HostTyped, resultVars
<1>4. CASE ComposeUp(d)
  <2>1. local[Tag[d]] \in Images
    BY <1>4, ImageHere DEF ComposeUp
  <2>2. [image |-> local[Tag[d]], by |-> d, status |-> "running", restarts |-> 0] \in Services
    BY <2>1 DEF Services
  <2>3. live' \in [Tags -> Services \cup {None}]
    BY <1>4, <2>2 DEF ComposeUp, HostTyped
  <2> QED BY <1>4, <2>3 DEF ComposeUp, HostTyped, resultVars
<1>5. CASE CheckService(d)
  <2>1. live[Tag[d]] # None => live[Tag[d]].restarts \in Nat
    BY TagTyped DEF HostTyped, Services
  <2>2. seen' \in [Deploys -> Nat \cup {None}]
    <3>1. CASE seen' = seen
      BY <3>1 DEF HostTyped
    <3>2. CASE seen' # seen
      <4>1. /\ "running" \in get_container_state(Tag[d])
            /\ seen' = [seen EXCEPT ![d] = IF seen[d] = None THEN live[Tag[d]].restarts ELSE seen[d]]
        BY <1>5, <3>2 DEF CheckService
      <4>2. live[Tag[d]] # None
        BY <4>1, TagTyped, LooksRunning
      <4> QED BY <2>1, <4>1, <4>2 DEF HostTyped
    <3> QED BY <3>1, <3>2
  <2>3. UNCHANGED <<hostVars, gitOk, pullOk, logsOk>>
    BY <1>5, Zenon DEF CheckService
  <2> QED BY <2>2, <2>3 DEF HostTyped, hostVars
<1>6. CASE CheckLogs(d)
  <2>1. logsOk' \in [Deploys -> BOOLEAN \cup {None}]
    BY <1>6 DEF CheckLogs, HostTyped
  <2>2. UNCHANGED <<hostVars, gitOk, pullOk, seen>>
    BY <1>6, Zenon DEF CheckLogs
  <2> QED BY <2>1, <2>2 DEF HostTyped, hostVars
<1> QED BY <1>1, <1>2, <1>3, <1>4, <1>5, <1>6

\* What the tag of a build names here, if anything.
LEMMA FullImage ==
  ASSUME HostInv, NEW d \in Deploys PROVE full_image(d) \in Images \cup {None}
<1>1. tagged[d] \in TagNames \cup {"latest"} /\ Tag[d] \in Tags
  BY TagTyped DEF HostInv, TagsTyped
<1>2. local[Tag[d]] \in Images \cup {None}
  BY <1>1 DEF HostInv, HostTyped
<1>3. tagged[d] # "latest" => named[Tag[d]][tagged[d]] \in Images \cup {None}
  BY <1>1 DEF HostInv, TagsTyped
<1> QED BY <1>2, <1>3 DEF full_image

\* A tag of one image name is given an image.
LEMMA TagGiven ==
  ASSUME NEW f \in [Tags -> [TagNames -> Images \cup {None}]], NEW t \in Tags,
         NEW n \in TagNames, NEW image \in Images \cup {None}
  PROVE  [f EXCEPT ![t][n] = image] \in [Tags -> [TagNames -> Images \cup {None}]]
<1>1. [f[t] EXCEPT ![n] = image] \in [TagNames -> Images \cup {None}]
  OBVIOUS
<1>2. [f EXCEPT ![t][n] = image] = [f EXCEPT ![t] = [f[t] EXCEPT ![n] = image]]
  OBVIOUS
<1> QED BY <1>1, <1>2

\* docker build names an image that there is.
LEMMA NamesTyped ==
  ASSUME HostInv, NEW d \in Deploys, At(d, "docker_build", "building"), NamesBuilt(d)
  PROVE  /\ built[d] \in Images
         /\ local' = local \/ local' = [local EXCEPT ![Tag[d]] = built[d]]
         /\ named' \in [Tags -> [TagNames -> Images \cup {None}]]
<1>1. built[d] \in Images
  <2>1. Supplied(d) /\ strategy[d] = "docker_build" /\ pc[d] = "building"
    BY DEF HostInv, At
  <2>2. built[d] # None
    BY <2>1 DEF Supplied
  <2> QED BY <2>2 DEF HostInv, TagsTyped
<1>2. CASE tagged[d] = "latest"
  BY <1>1, <1>2 DEF NamesBuilt, HostInv, TagsTyped
<1>3. CASE tagged[d] # "latest"
  <2>1. tagged[d] \in TagNames /\ Tag[d] \in Tags /\ named \in [Tags -> [TagNames -> Images \cup {None}]]
    BY <1>3, TagTyped DEF HostInv, TagsTyped
  <2>2. local' = local /\ named' = [named EXCEPT ![Tag[d]][tagged[d]] = built[d]]
    BY <1>3 DEF NamesBuilt
  <2> QED BY <1>1, <2>1, <2>2, TagGiven
<1> QED BY <1>2, <1>3

\* ... images, tags and registry in a build,
LEMMA HostBuilds ==
  ASSUME HostInv, NEW d \in Deploys, BuildStep(d) PROVE HostTyped' /\ TagsTyped'
<1> USE DEF HostInv
<1>1. CASE BeginBuild(d) \/ BuildGitFailed(d) \/ BuildDrained(d) \/ BeforePush(d) \/ BeforeLatest(d)
  <2>1. UNCHANGED <<composeVars, buildVars>>
    BY <1>1, Zenon DEF BeginBuild, BuildGitFailed, BuildDrained, BeforePush, BeforeLatest
  <2> QED BY <2>1 DEF HostTyped, TagsTyped, composeVars, buildVars
<1>2. CASE BuildGitPull(d) \/ TagOfCommit(d) \/ SpawnBuild(d)
  <2>1. HostTyped'
    <3>1. UNCHANGED composeVars
      BY <1>2, Zenon DEF BuildGitPull, TagOfCommit, SpawnBuild
    <3> QED BY <3>1 DEF HostTyped, composeVars
  <2>2. Tree[d] \in Trees /\ ConfiguredTag[d] \in {"configured", "latest", None}
        /\ head[Tree[d]] \in Images
    BY BuildAssumption DEF TagsTyped
  <2>3. CASE BuildGitPull(d)
    BY <2>1, <2>2, <2>3 DEF BuildGitPull, TagsTyped
  <2>4. CASE TagOfCommit(d)
    <3>1. PICK name \in TagNames \cup {"latest"} : tagged' = [tagged EXCEPT ![d] = name]
      BY <2>2, <2>4 DEF TagOfCommit, TagNames
    <3> QED BY <2>1, <2>4, <3>1 DEF TagOfCommit, TagsTyped
  <2>5. CASE SpawnBuild(d)
    BY <2>1, <2>2, <2>5 DEF SpawnBuild, TagsTyped
  <2> QED BY <1>2, <2>1, <2>3, <2>4, <2>5
<1>3. CASE BuildExits(d) \/ BuildCancelled(d)
  <2>1. At(d, "docker_build", "building") /\ (NamesBuilt(d) \/ UNCHANGED <<local, named>>)
    BY <1>3, Zenon DEF BuildExits, BuildCancelled
  <2>2. local' \in [Tags -> Images \cup {None}] /\ named' \in [Tags -> [TagNames -> Images \cup {None}]]
    <3>1. CASE NamesBuilt(d)
      BY <2>1, <3>1, NamesTyped DEF HostTyped
    <3>2. CASE UNCHANGED <<local, named>>
      BY <3>2 DEF HostTyped, TagsTyped
    <3> QED BY <2>1, <3>1, <3>2
  <2>3. UNCHANGED <<published, leftover, registry, live, canary, sweep, resultVars,
                    head, built, tagged, tagOk, shipped>>
    BY <1>3, Zenon DEF BuildExits, BuildCancelled
  <2> QED BY <2>2, <2>3 DEF HostTyped, TagsTyped, resultVars
<1>4. CASE Push(d)
  <2>1. PICK ok \in BOOLEAN :
          /\ full_image(d) = None => ~ok
          /\ registry' = IF ok /\ tagged[d] = "latest"
                         THEN [registry EXCEPT ![Tag[d]] = full_image(d)] ELSE registry
          /\ shipped' = IF ok /\ tagged[d] # "latest"
                        THEN [shipped EXCEPT ![Tag[d]][tagged[d]] = full_image(d)] ELSE shipped
    BY <1>4, Zenon DEF Push
  <2>2. tagged[d] # "latest" => tagged[d] \in TagNames
    BY DEF TagsTyped
  <2>3. registry' \in [Tags -> Images]
    BY <2>1, FullImage DEF HostTyped
  <2>4. shipped' \in [Tags -> [TagNames -> Images \cup {None}]]
    <3>1. shipped \in [Tags -> [TagNames -> Images \cup {None}]]
      BY DEF TagsTyped
    <3> QED BY <2>1, <2>2, <3>1, FullImage, TagGiven, TagTyped
  <2>5. UNCHANGED <<published, leftover, local, live, canary, sweep, resultVars,
                    head, built, tagged, tagOk, named>>
    BY <1>4, Zenon DEF Push
  <2> QED BY <2>3, <2>4, <2>5 DEF HostTyped, TagsTyped, resultVars
<1>5. CASE TagLatest(d)
  <2>1. PICK ok \in BOOLEAN :
          /\ tagOk' = [tagOk EXCEPT ![d] = ok]
          /\ local' = IF ok THEN [local EXCEPT ![Tag[d]] = full_image(d)] ELSE local
    BY <1>5, Zenon DEF TagLatest
  <2>2. local' \in [Tags -> Images \cup {None}] /\ tagOk' \in [Deploys -> BOOLEAN \cup {None}]
    BY <2>1, FullImage DEF HostTyped, TagsTyped
  <2>3. UNCHANGED <<published, leftover, registry, live, canary, sweep, resultVars,
                    head, built, tagged, named, shipped>>
    BY <1>5, Zenon DEF TagLatest
  <2> QED BY <2>2, <2>3 DEF HostTyped, TagsTyped, resultVars
<1>6. CASE PushLatest(d)
  <2>1. \/ registry' = registry
        \/ local[Tag[d]] # None /\ registry' = [registry EXCEPT ![Tag[d]] = local[Tag[d]]]
    BY <1>6 DEF PushLatest
  <2>2. registry' \in [Tags -> Images]
    BY <2>1, TagTyped DEF HostTyped
  <2> QED BY <1>6, <2>2 DEF PushLatest, HostTyped, TagsTyped, resultVars, buildVars
<1> QED BY <1>1, <1>2, <1>3, <1>4, <1>5, <1>6 DEF BuildStep

\* ... and containers when Docker moves them, or others push an image.
LEMMA HostDocker == ASSUME HostInv, DockerStep PROVE HostTyped' /\ TagsTyped'
<1>0. UNCHANGED buildVars
  BY Zenon DEF DockerStep
<1>1. ASSUME NEW n \in Names, CanaryRuns(n) PROVE HostTyped'
  <2>1. canary[n] \in Canaries
    BY <1>1, CanaryTyped DEF HostInv, CanaryRuns, PortHolders
  <2>2. \/ canary' = [canary EXCEPT ![n] = [canary[n] EXCEPT !.status = "exited"]]
        \/ \E h \in {"unhealthy", "healthy"} :
             canary' = [canary EXCEPT ![n] = [canary[n] EXCEPT !.health = h]]
    BY <1>1 DEF CanaryRuns
  <2>3. [canary[n] EXCEPT !.status = "exited"] \in Canaries
        /\ \A h \in {"unhealthy", "healthy"} : [canary[n] EXCEPT !.health = h] \in Canaries
    BY <2>1 DEF Canaries
  <2>4. canary' \in [Names -> Canaries \cup {None}]
    BY <2>2, <2>3 DEF HostInv, HostTyped
  <2> QED BY <1>1, <2>4 DEF CanaryRuns, HostInv, HostTyped, resultVars
<1>2. ASSUME NEW t \in Tags, ServiceRuns(t) PROVE HostTyped'
  <2>1. live[t] \in Services
    BY <1>2 DEF HostInv, HostTyped, ServiceRuns
  <2>2. \/ live' = [live EXCEPT ![t] = [live[t] EXCEPT !.restarts = live[t].restarts + 1]]
        \/ live' = [live EXCEPT ![t] = [live[t] EXCEPT !.status = "exited"]]
    BY <1>2 DEF ServiceRuns
  <2>3. [live[t] EXCEPT !.restarts = live[t].restarts + 1] \in Services
        /\ [live[t] EXCEPT !.status = "exited"] \in Services
    BY <2>1 DEF Services
  <2>4. live' \in [Tags -> Services \cup {None}]
    BY <2>2, <2>3 DEF HostInv, HostTyped
  <2> QED BY <1>2, <2>4 DEF ServiceRuns, HostInv, HostTyped, resultVars
<1>3. ASSUME NEW t \in Tags, Publish(t) PROVE HostTyped'
  <2>1. registry' \in [Tags -> Images] /\ published' \in SUBSET Tags
    BY <1>3 DEF Publish, HostInv, HostTyped
  <2>2. UNCHANGED <<leftover, local, live, canary, sweep, resultVars>>
    BY <1>3, Zenon DEF Publish
  <2> QED BY <2>1, <2>2 DEF HostInv, HostTyped, resultVars
<1>4. TagsTyped'
  BY <1>0 DEF HostInv, TagsTyped, buildVars
<1> QED BY <1>1, <1>2, <1>3, <1>4 DEF DockerStep

LEMMA HostTypedStep ==
  ASSUME HostInv, NEW d \in Deploys, StepOf(d) PROVE HostTyped' /\ TagsTyped'
<1>1. CASE (ComposeStep(d) \/ SweepCanary(d)) /\ UNCHANGED buildVars
  <2>1. HostTyped'
    BY <1>1, HostPulls, HostSwaps DEF ComposeStep
  <2>2. TagsTyped'
    BY <1>1 DEF HostInv, TagsTyped, buildVars
  <2> QED BY <2>1, <2>2
<1>2. CASE BuildStep(d)
  BY <1>2, HostBuilds
<1>3. CASE ScriptStep(d) \/ XiaojincutStep(d) \/ ContextStep(d)
           \/ (spawn_timeout(d) /\ UNCHANGED <<composeVars, buildVars>>)
  <2>1. UNCHANGED <<composeVars, buildVars>>
    BY <1>3, Zenon DEF ScriptStep, XiaojincutStep, ContextStep, BeginScript, ScriptGitPull,
         SpawnScript, ScriptExits, ScriptDrained, ScriptCancelled, CheckXiaojincut, RunXiaojincutTask
  <2> QED BY <2>1 DEF HostInv, HostTyped, TagsTyped, composeVars, buildVars
<1> QED BY <1>1, <1>2, <1>3, Zenon DEF StepOf

\* An image that is here stays, or is replaced by another.
LEMMA LocalStays ==
  ASSUME HostInv, NEW d \in Deploys, StepOf(d), NEW t \in Tags, local[t] # None
  PROVE  local'[t] # None
<1> USE DEF HostInv
<1>1. local' = local \/ \E image \in Images : local' = [local EXCEPT ![Tag[d]] = image]
  <2>1. CASE run_docker_pull(d) \/ ComposePull(d)
    <3>1. registry[Tag[d]] \in Images
      BY TagTyped DEF HostTyped
    <3> QED BY <2>1, <3>1 DEF run_docker_pull, ComposePull
  <2>2. CASE BuildExits(d) \/ BuildCancelled(d)
    <3>1. At(d, "docker_build", "building") /\ (NamesBuilt(d) \/ local' = local)
      BY <2>2, Zenon DEF BuildExits, BuildCancelled
    <3> QED BY <3>1, NamesTyped
  <2>6. CASE TagLatest(d)
    <3>1. \/ local' = local
          \/ full_image(d) # None /\ local' = [local EXCEPT ![Tag[d]] = full_image(d)]
      BY <2>6, Zenon DEF TagLatest
    <3>2. full_image(d) # None => full_image(d) \in Images
      BY FullImage
    <3> QED BY <3>1, <3>2
  <2>3. CASE ComposeStep(d) /\ ~run_docker_pull(d) /\ ~ComposePull(d)
    BY <2>3, Zenon DEF ComposeStep, cleanup_stale_canaries, StartPulls, run_git_pull,
         PullsDone, EnsureClean, RunCanary, PollCanary, CheckHttp, CheckLogs, AbortCanary,
         ReleaseCanary, ComposeUp, CheckService, MonitorEnds, composeVars, hostVars
  <2>4. CASE BuildStep(d) /\ ~BuildExits(d) /\ ~BuildCancelled(d) /\ ~TagLatest(d)
    BY <2>4, Zenon DEF BuildStep, BeginBuild, BuildGitPull, BuildGitFailed, TagOfCommit,
         SpawnBuild, BuildDrained, BeforePush, Push, BeforeLatest, PushLatest, composeVars
  <2>5. CASE ScriptStep(d) \/ XiaojincutStep(d) \/ ContextStep(d) \/ SweepCanary(d)
             \/ (spawn_timeout(d) /\ UNCHANGED <<composeVars, buildVars>>)
    BY <2>5, Zenon DEF ScriptStep, XiaojincutStep, ContextStep, BeginScript, ScriptGitPull,
         SpawnScript, ScriptExits, ScriptDrained, ScriptCancelled, CheckXiaojincut,
         RunXiaojincutTask, SweepCanary, composeVars
  <2> QED BY <2>1, <2>2, <2>3, <2>4, <2>5, <2>6 DEF StepOf
<1>2. None \notin Images
  BY ComposeAssumption
<1> QED BY <1>1, <1>2, TagTyped DEF HostTyped

Supplies == Checks \cup {"healthy", "swap"}

\* A compose deployment finds what its next step takes from the host.
LEMMA SuppliedCompose ==
  ASSUME ContextInv, HostInv, NEW d \in Deploys, ComposeStep(d), UNCHANGED buildVars
  PROVE  Supplied(d)'
<1>1. strategy[d] = "docker_compose" /\ strategy' = strategy /\ Supplied(d) /\ StepOf(d)
  <2>1. strategy[d] = "docker_compose"
    BY DEF ComposeStep, cleanup_stale_canaries, StartPulls, run_git_pull, run_docker_pull,
         PullsDone, EnsureClean, RunCanary, PollCanary, CheckHttp, CheckLogs, AbortCanary,
         ReleaseCanary, ComposePull, ComposeUp, CheckService, MonitorEnds, At
  <2>2. strategy' = strategy
    BY Zenon DEF ComposeStep, cleanup_stale_canaries, StartPulls, run_git_pull, run_docker_pull,
         PullsDone, EnsureClean, RunCanary, PollCanary, CheckHttp, CheckLogs, AbortCanary,
         ReleaseCanary, ComposePull, ComposeUp, CheckService, MonitorEnds, EndMonitor,
         goes_on, finish
  <2> QED BY <2>1, <2>2 DEF StepOf, HostInv
<1>2. local[Tag[d]] # None => local'[Tag[d]] # None
  BY <1>1, LocalStays, TagTyped
<1>3. ASSUME pullOk' = pullOk, pc'[d] \in Supplies => pc[d] \in Supplies \/ pullOk[d] = TRUE
      PROVE  Supplied(d)'
  <2>1. pullOk[d] = TRUE => local'[Tag[d]] # None
    BY <1>1, <1>2, Zenon DEF Supplied
  <2>2. pc'[d] \in Supplies => pullOk[d] = TRUE
    BY <1>1, <1>3 DEF Supplied, Supplies
  <2>3. strategy'[d] # "docker_build"
    BY <1>1
  <2> QED BY <1>3, <2>1, <2>2, <2>3 DEF Supplied, Supplies
<1>4. CASE cleanup_stale_canaries(d) \/ StartPulls(d)
  <2>1. pc'[d] \in {"swept", "pulling"}
    BY <1>4, Went DEF cleanup_stale_canaries, StartPulls
  <2>2. pullOk' = pullOk
    BY <1>4 DEF cleanup_stale_canaries, StartPulls, resultVars
  <2> QED BY <1>3, <2>1, <2>2 DEF Supplies, Checks
<1>5. CASE run_git_pull(d)
  BY <1>3, <1>5 DEF run_git_pull
<1>6. CASE run_docker_pull(d)
  <2>1. pc'[d] = "pulling" /\ strategy'[d] = "docker_compose"
    BY <1>6 DEF run_docker_pull, At
  <2>2. PICK ok \in BOOLEAN :
          /\ pullOk' = [pullOk EXCEPT ![d] = ok]
          /\ local' = IF ok THEN [local EXCEPT ![Tag[d]] = registry[Tag[d]]] ELSE local
    BY <1>6 DEF run_docker_pull
  <2>3. pullOk'[d] = ok
    BY <2>2 DEF HostInv, HostTyped
  <2>4. ok => local'[Tag[d]] \in Images
    BY <2>2, TagTyped DEF HostInv, HostTyped
  <2>5. None \notin Images
    BY ComposeAssumption
  <2> QED BY <2>1, <2>3, <2>4, <2>5 DEF Supplied, Supplies, Checks
<1>7. CASE PullsDone(d)
  <2>1. pullOk[d] \in BOOLEAN /\ pullOk' = pullOk
    BY <1>7 DEF PullsDone, HostInv, HostTyped, composeVars
  <2>2. pc'[d] = "notify" \/ pullOk[d]
    <3>1. (\E status, code, st : finish(d, status, code, st)) \/ pullOk[d]
      BY <1>7, Zenon DEF PullsDone
    <3> QED BY <3>1, FinishedAs
  <2> QED BY <1>3, <2>1, <2>2 DEF Supplies, Checks
<1>8. CASE \/ EnsureClean(d) \/ RunCanary(d) \/ PollCanary(d) \/ CheckHttp(d) \/ CheckLogs(d)
           \/ AbortCanary(d) \/ ReleaseCanary(d) \/ ComposePull(d) \/ ComposeUp(d)
  <2>1. pc[d] \in Supplies
    BY <1>8 DEF EnsureClean, RunCanary, PollCanary, CheckHttp, CheckLogs, AbortCanary,
         ReleaseCanary, ComposePull, ComposeUp, At, Supplies, Checks
  <2>2. pullOk' = pullOk
    BY <1>8, Zenon DEF EnsureClean, RunCanary, PollCanary, CheckHttp, CheckLogs, AbortCanary,
         ReleaseCanary, ComposePull, ComposeUp, composeVars, resultVars
  <2> QED BY <1>3, <2>1, <2>2
<1>9. CASE CheckService(d) \/ MonitorEnds(d)
  <2>1. \/ \E st, code : goes_on(d, "watching", st, code)
        \/ \E status, code, st : finish(d, status, code, st)
    BY <1>9, Zenon DEF CheckService, MonitorEnds, EndMonitor
  <2>3. pc'[d] \in {"notify", "watching"}
    BY <2>1, Went, FinishedAs
  <2>2. pullOk' = pullOk
    BY <1>9 DEF CheckService, MonitorEnds, composeVars
  <2> QED BY <1>3, <2>2, <2>3 DEF Supplies, Checks
<1> QED BY <1>4, <1>5, <1>6, <1>7, <1>8, <1>9 DEF ComposeStep

\* So does a build.
LEMMA SuppliedBuild ==
  ASSUME ContextInv, HostInv, NEW d \in Deploys, BuildStep(d)
  PROVE  Supplied(d)'
<1>1. strategy[d] = "docker_build" /\ Supplied(d) /\ StepOf(d)
  BY DEF BuildStep, BeginBuild, BuildGitPull, BuildGitFailed, TagOfCommit, SpawnBuild, BuildExits,
         BuildDrained, BuildCancelled, BeforePush, Push, BeforeLatest, TagLatest, PushLatest, At,
         StepOf, HostInv
<1>2. local[Tag[d]] # None => local'[Tag[d]] # None
  BY <1>1, LocalStays, TagTyped
<1>3. pullOk' = pullOk
  BY Zenon DEF BuildStep, BeginBuild, BuildGitPull, BuildGitFailed, TagOfCommit, SpawnBuild,
         BuildExits, BuildDrained, BuildCancelled, BeforePush, Push, BeforeLatest, TagLatest,
         PushLatest, composeVars, resultVars
<1>4. strategy' = strategy
  BY Zenon DEF BuildStep, BeginBuild, BuildGitPull, BuildGitFailed, TagOfCommit, SpawnBuild,
         BuildExits, BuildDrained, BuildCancelled, BeforePush, Push, BeforeLatest, TagLatest,
         PushLatest, goes_on, finish, finish_cancelled
<1>5. pc'[d] = "building" => built'[d] # None
  <2>1. CASE SpawnBuild(d)
    <3>1. head[Tree[d]] \in Images /\ None \notin Images
      BY BuildAssumption, ComposeAssumption DEF HostInv, TagsTyped
    <3> QED BY <2>1, <3>1 DEF SpawnBuild, HostInv, TagsTyped
  <2>2. CASE ~SpawnBuild(d)
    <3>1. \/ \E place \in Places \ {"building"} : \E st, code : goes_on(d, place, st, code)
          \/ \E status, code, st : finish(d, status, code, st)
      <4>1. CASE BeginBuild(d) \/ BuildGitPull(d)
        BY <4>1 DEF BeginBuild, BuildGitPull, Places
      <4>2. CASE BuildGitFailed(d) \/ BuildCancelled(d) \/ PushLatest(d)
        BY <4>2, Zenon DEF BuildGitFailed, BuildCancelled, PushLatest, finish_cancelled
      <4>3. CASE TagOfCommit(d) \/ BeforePush(d) \/ BeforeLatest(d)
        BY <4>3 DEF TagOfCommit, BeforePush, BeforeLatest, finish_cancelled, Places
      <4>4. CASE BuildExits(d) \/ TagLatest(d)
        BY <4>4 DEF BuildExits, TagLatest, Places
      <4>5. CASE BuildDrained(d) \/ Push(d)
        BY <4>5 DEF BuildDrained, Push, Places
      <4> QED BY <2>2, <4>1, <4>2, <4>3, <4>4, <4>5 DEF BuildStep
    <3> QED BY <3>1, Went, FinishedAs
  <2> QED BY <2>1, <2>2
<1>6. pullOk'[d] = TRUE => local'[Tag[d]] # None
  BY <1>1, <1>2, <1>3, Zenon DEF Supplied
<1>7. strategy'[d] = "docker_build"
  BY <1>1, <1>4
<1> QED BY <1>5, <1>6, <1>7 DEF Supplied

LEMMA SuppliedRest ==
  ASSUME ContextInv, HostInv, NEW d \in Deploys,
         \/ ScriptStep(d) \/ XiaojincutStep(d) \/ ContextStep(d)
         \/ SweepCanary(d) /\ UNCHANGED buildVars
         \/ spawn_timeout(d) /\ UNCHANGED <<composeVars, buildVars>>
  PROVE  Supplied(d)'
<1>1. UNCHANGED <<pullOk, built, tagged, local>>
  BY Zenon DEF ScriptStep, XiaojincutStep, ContextStep, BeginScript, ScriptGitPull,
         SpawnScript, ScriptExits, ScriptDrained, ScriptCancelled, CheckXiaojincut,
         RunXiaojincutTask, SweepCanary, composeVars, buildVars, resultVars
<1>2. Supplied(d)
  BY DEF HostInv
<1>3. CASE ScriptStep(d) \/ XiaojincutStep(d)
  <2>1. strategy[d] \in {"script", "xiaojincut"}
    BY <1>3 DEF ScriptStep, XiaojincutStep, BeginScript, ScriptGitPull, SpawnScript, ScriptExits,
         ScriptDrained, ScriptCancelled, CheckXiaojincut, RunXiaojincutTask, At
  <2>2. strategy' = strategy
    BY <1>3, Zenon DEF ScriptStep, XiaojincutStep, BeginScript, ScriptGitPull, SpawnScript,
         ScriptExits, ScriptDrained, ScriptCancelled, CheckXiaojincut, RunXiaojincutTask,
         goes_on, finish
  <2> QED BY <1>1, <1>2, <2>1, <2>2 DEF Supplied
<1>4. CASE ContextStep(d)
  <2>1. strategy' = strategy /\ pc'[d] \in {"notify", "done"}
    BY <1>4 DEF ContextStep, do_notify, Goto, ContextInv, ContextTyped
  <2> QED BY <1>1, <1>2, <2>1 DEF Supplied, Checks
<1>5. CASE SweepCanary(d) \/ spawn_timeout(d)
  <2>1. strategy' = strategy /\ pc' = pc
    BY <1>5 DEF SweepCanary, spawn_timeout
  <2> QED BY <1>1, <1>2, <2>1 DEF Supplied
<1> QED BY <1>3, <1>4, <1>5

LEMMA HostStep ==
  ASSUME ContextInv, HostInv, NEW d \in Deploys, StepOf(d) PROVE HostInv'
<1>1. HostTyped /\ HostTyped' /\ TagsTyped'
  BY HostTypedStep DEF HostInv
<1>2. ASSUME NEW e \in Deploys, e # d PROVE Supplied(e)'
  <2>1. strategy' = strategy /\ Apart(e) /\ Supplied(e)
    BY <1>1, <1>2, StepApart DEF HostInv
  <2>2. local[Tag[e]] # None => local'[Tag[e]] # None
    BY LocalStays, TagTyped
  <2> QED BY <2>1, <2>2 DEF Supplied, Apart
<1>3. Supplied(d)'
  BY SuppliedCompose, SuppliedBuild, SuppliedRest DEF StepOf
<1> QED BY <1>1, <1>2, <1>3 DEF HostInv

\* Docker's own steps change containers and services only; somebody else's push
\* changes what is behind the tag, which is then published.
LEMMA DockerFrame ==
  ASSUME HostInv, DockerStep
  PROVE  /\ UNCHANGED <<contextVars, leftover, local, sweep, resultVars, buildVars>>
         /\ published \subseteq published'
         /\ \A t \in Tags \ published' : registry'[t] = registry[t]
<1>1. ASSUME NEW t \in Tags, Publish(t)
      PROVE  published \subseteq published' /\ \A u \in Tags \ published' : registry'[u] = registry[u]
  BY <1>1 DEF Publish, HostInv, HostTyped
<1>2. ASSUME UNCHANGED <<published, registry>>
      PROVE  published \subseteq published' /\ \A u \in Tags \ published' : registry'[u] = registry[u]
  BY <1>2
<1>3. UNCHANGED <<published, registry>> \/ \E t \in Tags : Publish(t)
  BY Zenon DEF DockerStep, CanaryRuns, ServiceRuns
<1>4. UNCHANGED <<contextVars, leftover, local, sweep, resultVars, buildVars>>
  BY Zenon DEF DockerStep, CanaryRuns, ServiceRuns, Publish
<1> QED BY <1>1, <1>2, <1>3, <1>4

\* Every step keeps the host typed and what deployments need of it in place.
LEMMA HostNext ==
  ASSUME ContextInv, HostInv, [StrategiesNext]_strategyVars PROVE HostInv'
<1>1. ASSUME NEW d \in Deploys, StepOf(d) PROVE HostInv'
  BY <1>1, HostStep
<1>2. CASE DockerStep
  <2>1. HostTyped' /\ TagsTyped'
    BY <1>2, HostDocker
  <2>2. ASSUME NEW d \in Deploys PROVE Supplied(d)'
    <3>1. UNCHANGED <<strategy, pc, pullOk, local, built>>
      BY <1>2, DockerFrame DEF contextVars, buildVars, resultVars
    <3> QED BY <3>1 DEF HostInv, Supplied
  <2> QED BY <2>1, <2>2 DEF HostInv
<1>3. CASE UNCHANGED strategyVars
  <2>1. HostTyped' /\ TagsTyped'
    BY <1>3 DEF HostInv, HostTyped, TagsTyped, strategyVars, composeVars, buildVars
  <2>2. ASSUME NEW d \in Deploys PROVE Supplied(d)'
    BY <1>3 DEF HostInv, Supplied, strategyVars, contextVars, composeVars, buildVars
  <2> QED BY <2>1, <2>2 DEF HostInv
<1> QED BY <1>1, <1>2, <1>3 DEF StrategiesNext, StepOf, DockerStep

LEMMA HostInvInit == StrategiesInit => HostInv
<1> SUFFICES ASSUME StrategiesInit PROVE HostInv
  OBVIOUS
<1>1. [image |-> OldImage, by |-> None, status |-> "running", restarts |-> 0] \in Services
      /\ \A status \in {"running", "exited"} : Container(Old, OldImage, status) \in Canaries
  BY ComposeAssumption DEF Services, Container, Canaries
<1>2. HostTyped
  <2>1. canary \in [Names -> Canaries \cup {None}] /\ leftover \in {"none", "running", "exited"}
    BY <1>1 DEF StrategiesInit, ComposeInit
  <2>2. local \in [Tags -> Images \cup {None}]
    BY ComposeAssumption DEF StrategiesInit, ComposeInit
  <2> QED BY <1>1, <2>1, <2>2 DEF StrategiesInit, ComposeInit, HostTyped
<1>3. TagsTyped
  BY ComposeAssumption DEF StrategiesInit, BuildInit, TagsTyped
<1>4. ASSUME NEW d \in Deploys PROVE Supplied(d)
  <2>1. pc[d] = "begin" /\ pullOk[d] = None /\ None \notin BOOLEAN
    BY ComposeAssumption DEF StrategiesInit, ContextInit, ComposeInit
  <2> QED BY <2>1 DEF Supplied, Checks
<1> QED BY <1>2, <1>3, <1>4 DEF HostInv

-------------------------------------------------------------------------------
(* Types, stages and the center                                            *)

\* The two invariants hold together in every behaviour.
LEMMA BothInvariant == StrategiesSpec => [](ContextInv /\ HostInv)
<1>1. StrategiesInit => ContextInv /\ HostInv
  BY ContextInvInit, HostInvInit
<1>2. ContextInv /\ HostInv /\ [StrategiesNext]_strategyVars => (ContextInv /\ HostInv)'
  BY ContextNext, HostNext DEF HostInv
<1> QED BY <1>1, <1>2, PTL DEF StrategiesSpec

\* Every deployment is at a place of the program with stages, attempts, an
\* outcome and images of the right kind, whatever the strategies, the images
\* and the bounds.
THEOREM StrategiesTyped == StrategiesSpec => []StrategiesTypeOK
<1>1. ContextInv /\ HostInv => StrategiesTypeOK
  <2> SUFFICES ASSUME ContextInv, HostInv PROVE StrategiesTypeOK
    OBVIOUS
  <2>1. ASSUME NEW d \in Deploys
        PROVE  /\ \A n \in DOMAIN stages[d] : stages[d][n] \in StageStatus
               /\ attempt[d] \in 0..3
               /\ outcome[d] # None => outcome[d].status \in {"success", "failed"}
    BY ContextFacts DEF StageVectors, Outcomes
  <2>2. \A n \in Containers : canary[n].status \in {"created", "running", "exited"}
    BY CanaryTyped DEF HostInv, Canaries
  <2>3. \A t \in Tags, n \in TagNames :
          /\ named[t][n] \in Images \cup {None}
          /\ shipped[t][n] \in Images \cup {None}
    BY DEF HostInv, TagsTyped
  <2> QED BY <2>1, <2>2, <2>3 DEF StrategiesTypeOK, ContextInv, ContextTyped, HostInv, HostTyped
<1> QED BY <1>1, BothInvariant, PTL

\* However a deployment of any strategy ends (a step that fails, a cancelled
\* token, success), the stages it hands over agree with the verdict.
THEOREM StagesAgree == StrategiesSpec => []StagesAgreeWithOutcome
<1>1. ContextInv => StagesAgreeWithOutcome
  <2> SUFFICES ASSUME ContextInv, NEW d \in Finished
               PROVE  Agrees(outcome[d].status, outcome[d].code, outcome[d].stages)
    BY DEF StagesAgreeWithOutcome, Agrees
  <2> QED BY ContextFacts DEF Finished, Deployment
<1> QED BY <1>1, BothInvariant, PTL

\* The Deploy Center learns the outcome of a deployment that is over, and never
\* another one, unless all three calls that tell it fail: for any number of
\* deployments that share the faults.
THEOREM CenterLearns == StrategiesSpec => []CenterLearnsOutcome
<1>1. ContextInv => CenterLearnsOutcome
  BY ContextFacts DEF CenterLearnsOutcome, Deployment
<1> QED BY <1>1, BothInvariant, PTL

-------------------------------------------------------------------------------
(* What a build pushes                                                     *)

\* A step with all faults left has met none.
LEMMA StepSpends ==
  ASSUME ContextInv, NEW d \in Deploys, StepOf(d)
  PROVE  /\ faults' \in 0..faults /\ faults \in 0..MaxFaults /\ MaxFaults \in Nat
         /\ faults' = MaxFaults => faults = MaxFaults /\ ~Fault
<1>1. faults \in 0..MaxFaults /\ MaxFaults \in Nat
  BY ContextFacts
<1>2. faults' \in 0..faults
  <2>1. CASE spawn_timeout(d)
    BY <1>1, <2>1 DEF spawn_timeout
  <2>2. CASE ~spawn_timeout(d)
    BY <2>2, ComposeSpends, OtherSpends DEF StepOf, ContextStep
  <2> QED BY <2>1, <2>2
<1> QED BY <1>1, <1>2 DEF Fault

\* Who has Docker to himself is settled at the start.
LEMMA SoloKept == ASSUME UNCHANGED strategy, NEW d PROVE Solo(d)' = Solo(d)
BY DEF Solo, UsesDocker

\* The steps of a deployment that are not of its strategy, and a timeout.
Aside(d) ==
  \/ ContextStep(d)
  \/ SweepCanary(d) /\ UNCHANGED buildVars
  \/ spawn_timeout(d) /\ UNCHANGED <<composeVars, buildVars>>

\* Pulls, sweeps, timeouts and calls to the center leave images and services
\* alone.
LEMMA AsideKeeps ==
  ASSUME ContextInv, NEW d \in Deploys, Aside(d)
  PROVE  /\ UNCHANGED <<strategy, stages, exit_code, outcome, published, leftover, registry, local,
                        live, resultVars, buildVars>>
         /\ pc'[d] = pc[d] \/ (pc[d] = "notify" /\ pc'[d] = "done")
         /\ StepOf(d)
<1>1. CASE ContextStep(d)
  <2>1. pc'[d] = pc[d] \/ (pc[d] = "notify" /\ pc'[d] = "done")
    BY <1>1 DEF ContextStep, do_notify, Goto, ContextInv, ContextTyped
  <2> QED BY <1>1, <2>1 DEF ContextStep, do_notify, composeVars, resultVars, StepOf
<1>2. CASE SweepCanary(d) /\ UNCHANGED buildVars
  BY <1>2 DEF SweepCanary, StepOf
<1>3. CASE spawn_timeout(d) /\ UNCHANGED <<composeVars, buildVars>>
  BY <1>3 DEF spawn_timeout, composeVars, resultVars, StepOf
<1> QED BY <1>1, <1>2, <1>3 DEF Aside

\* A step is one of its deployment's strategy, or aside from it.
LEMMA StepKinds ==
  ASSUME NEW d \in Deploys, StepOf(d)
  PROVE  \/ strategy[d] = "docker_compose" /\ ComposeStep(d) /\ UNCHANGED buildVars
         \/ strategy[d] = "docker_build" /\ BuildStep(d)
         \/ strategy[d] \in {"script", "xiaojincut"} /\ (ScriptStep(d) \/ XiaojincutStep(d))
         \/ Aside(d)
<1>1. ComposeStep(d) => strategy[d] = "docker_compose"
  BY DEF ComposeStep, cleanup_stale_canaries, StartPulls, run_git_pull, run_docker_pull,
         PullsDone, EnsureClean, RunCanary, PollCanary, CheckHttp, CheckLogs, AbortCanary,
         ReleaseCanary, ComposePull, ComposeUp, CheckService, MonitorEnds, At
<1>2. BuildStep(d) => strategy[d] = "docker_build"
  BY DEF BuildStep, BeginBuild, BuildGitPull, BuildGitFailed, TagOfCommit, SpawnBuild,
         BuildExits, BuildDrained, BuildCancelled, BeforePush, Push, BeforeLatest, TagLatest, PushLatest, At
<1>3. ScriptStep(d) \/ XiaojincutStep(d) => strategy[d] \in {"script", "xiaojincut"}
  BY DEF ScriptStep, XiaojincutStep, BeginScript, ScriptGitPull, SpawnScript, ScriptExits,
         ScriptDrained, ScriptCancelled, CheckXiaojincut, RunXiaojincutTask, At
<1> QED BY <1>1, <1>2, <1>3, Zenon DEF StepOf, Aside

LEMMA StrategyKept ==
  ASSUME ContextInv, NEW d \in Deploys, StepOf(d) PROVE strategy' = strategy
<1>1. CASE ComposeStep(d)
  BY <1>1, Zenon DEF ComposeStep, cleanup_stale_canaries, StartPulls, run_git_pull, run_docker_pull,
         PullsDone, EnsureClean, RunCanary, PollCanary, CheckHttp, CheckLogs, AbortCanary,
         ReleaseCanary, ComposePull, ComposeUp, CheckService, MonitorEnds, EndMonitor,
         goes_on, finish
<1>2. CASE BuildStep(d)
  BY <1>2, Zenon DEF BuildStep, BeginBuild, BuildGitPull, BuildGitFailed, TagOfCommit, SpawnBuild,
         BuildExits, BuildDrained, BuildCancelled, BeforePush, Push, BeforeLatest, TagLatest, PushLatest, goes_on, finish,
         finish_cancelled
<1>3. CASE ScriptStep(d) \/ XiaojincutStep(d)
  BY <1>3, Zenon DEF ScriptStep, XiaojincutStep, BeginScript, ScriptGitPull, SpawnScript,
         ScriptExits, ScriptDrained, ScriptCancelled, CheckXiaojincut, RunXiaojincutTask,
         goes_on, finish
<1>4. CASE Aside(d)
  BY <1>4, AsideKeeps
<1> QED BY <1>1, <1>2, <1>3, <1>4, StepKinds

PushedInv == (OwnTrees => TrueNames) /\ \A d \in Deploys : PushedSoFar(d)

\* No commit is called latest, or has a configured name.
LEMMA CommitNames == "latest" \notin Images /\ "configured" \notin Images /\ None \notin Images
BY ComposeAssumption DEF Behaviours

\* By which step a build reaches a place, and a success.
LEMMA BuildPath ==
  ASSUME ContextInv, NEW d \in Deploys, BuildStep(d)
  PROVE  /\ pc[d] \notin Over /\ outcome[d] = None /\ pc'[d] # "done"
         /\ pc'[d] = "spawn_build" => TagOfCommit(d)
         /\ pc'[d] = "building" => SpawnBuild(d)
         /\ pc'[d] = "output" => BuildExits(d)
         /\ pc'[d] = "built" => BuildDrained(d) /\ exit_code[d] = 0
         /\ pc'[d] = "push" => BeforePush(d)
         /\ pc'[d] = "pushed" => Push(d)
         /\ pc'[d] = "tag" => BeforeLatest(d)
         /\ pc'[d] = "push_latest" => TagLatest(d)
         /\ Success(d)' => BeforeLatest(d) \/ PushLatest(d)
<1> DEFINE To(place) == pc'[d] = place /\ ~Success(d)'
           Fails == pc'[d] = "notify" /\ ~Success(d)'
<1>1. pc[d] \notin Over /\ outcome[d] = None
  <2>1. strategy[d] = "docker_build" /\ pc[d] \notin Over
    BY DEF BuildStep, BeginBuild, BuildGitPull, BuildGitFailed, TagOfCommit, SpawnBuild, BuildExits,
           BuildDrained, BuildCancelled, BeforePush, Push, BeforeLatest, TagLatest, PushLatest, At,
           Over
  <2> QED BY <2>1, ContextFacts
<1>2. ASSUME NEW place, NEW st, NEW code, goes_on(d, place, st, code) PROVE To(place)
  BY <1>1, <1>2, Went DEF Success
<1>3. ASSUME NEW code, NEW st, finish(d, "failed", code, st) PROVE Fails
  <2>1. pc'[d] = "notify" /\ outcome'[d].status = "failed"
    BY <1>3, FinishedAs
  <2>2. outcome'[d].status # "success"
    BY <2>1
  <2> QED BY <2>1, <2>2 DEF Success
<1>4. ASSUME NEW code, NEW st, finish(d, "success", code, st) PROVE pc'[d] = "notify"
  BY <1>4, FinishedAs
<1>5. BeginBuild(d) => To("git")
  BY <1>2, Zenon DEF BeginBuild
<1>6. BuildGitPull(d) => To("hash") \/ To("git_failed")
  <2>1. BuildGitPull(d) => \E st, code : goes_on(d, "hash", st, code) \/ goes_on(d, "git_failed", st, code)
    BY DEF BuildGitPull
  <2> QED BY <1>2, <2>1, Zenon
<1>7. BuildGitFailed(d) \/ BuildCancelled(d) => Fails
  BY <1>3, Zenon DEF BuildGitFailed, BuildCancelled, finish_cancelled
<1>8. TagOfCommit(d) => To("spawn_build") \/ Fails
  BY <1>2, <1>3, Zenon DEF TagOfCommit, finish_cancelled
<1>9. SpawnBuild(d) => To("building") \/ Fails
  BY <1>2, <1>3, Zenon DEF SpawnBuild
<1>10. BuildExits(d) => To("output")
  BY <1>2, Zenon DEF BuildExits
<1>11. BuildDrained(d) => (exit_code[d] = 0 /\ To("built")) \/ Fails
  BY <1>2, <1>3, Zenon DEF BuildDrained
<1>12. BeforePush(d) => To("push") \/ Fails
  BY <1>2, <1>3, Zenon DEF BeforePush, finish_cancelled
<1>13. Push(d) => To("pushed") \/ Fails
  BY <1>2, <1>3, Zenon DEF Push
<1>14. BeforeLatest(d) => To("tag") \/ pc'[d] = "notify"
  BY <1>2, <1>3, <1>4, Zenon DEF BeforeLatest, finish_cancelled
<1>15. TagLatest(d) => To("push_latest")
  BY <1>2, Zenon DEF TagLatest
<1>16. PushLatest(d) => pc'[d] = "notify"
  BY <1>4, Zenon DEF PushLatest
<1> HIDE DEF Success
<1> QED BY <1>1, <1>5, <1>6, <1>7, <1>8, <1>9, <1>10, <1>11, <1>12, <1>13, <1>14, <1>15, <1>16
        DEF BuildStep

\* A push makes a tag stand for what it names here.
LEMMA PushShips ==
  ASSUME ContextInv, HostInv, NEW d \in Deploys, Push(d), tagged[d] # "latest"
  PROVE  \/ shipped' = shipped /\ pc'[d] = "notify"
         \/ /\ named[Tag[d]][tagged[d]] # None
            /\ shipped' = [shipped EXCEPT ![Tag[d]] =
                             [shipped[Tag[d]] EXCEPT ![tagged[d]] = named[Tag[d]][tagged[d]]]]
<1>1. PICK ok \in BOOLEAN :
        /\ full_image(d) = None => ~ok
        /\ shipped' = IF ok /\ tagged[d] # "latest"
                      THEN [shipped EXCEPT ![Tag[d]][tagged[d]] = full_image(d)] ELSE shipped
        /\ LET st == finish_stage(stages[d], "docker_push", ok)
           IN  IF ok THEN goes_on(d, "pushed", st, 0) ELSE finish(d, "failed", 1, st)
  BY Zenon DEF Push
<1>2. full_image(d) = named[Tag[d]][tagged[d]]
  BY DEF full_image
<1>3. CASE ok
  <2>1. shipped' = [shipped EXCEPT ![Tag[d]][tagged[d]] = full_image(d)] /\ full_image(d) # None
    BY <1>1, <1>3, Zenon
  <2>2. [shipped EXCEPT ![Tag[d]][tagged[d]] = full_image(d)] =
          [shipped EXCEPT ![Tag[d]] = [shipped[Tag[d]] EXCEPT ![tagged[d]] = full_image(d)]]
    OBVIOUS
  <2> QED BY <1>2, <2>1, <2>2, Zenon
<1>4. CASE ~ok
  BY <1>1, <1>4, FinishedAs, Zenon
<1> QED BY <1>3, <1>4

\* docker build makes a tag of one name stand for the image it has made.
LEMMA BuildNames ==
  ASSUME HostInv, NEW d \in Deploys, NamesBuilt(d)
  PROVE  /\ tagged' = tagged => full_image(d)' = built[d]
         /\ \A t \in Tags, n \in TagNames :
              \/ named'[t][n] = named[t][n]
              \/ n = tagged[d] /\ t = Tag[d] /\ named'[t][n] = built[d]
<1>1. tagged[d] \in TagNames \cup {"latest"} /\ Tag[d] \in Tags
      /\ named \in [Tags -> [TagNames -> Images \cup {None}]] /\ local \in [Tags -> Images \cup {None}]
  BY TagTyped DEF HostInv, TagsTyped, HostTyped
<1>2. CASE tagged[d] = "latest"
  <2>1. local' = [local EXCEPT ![Tag[d]] = built[d]] /\ named' = named
    BY <1>2 DEF NamesBuilt
  <2> QED BY <1>1, <1>2, <2>1 DEF full_image
<1>3. CASE tagged[d] # "latest"
  <2>1. named' = [named EXCEPT ![Tag[d]][tagged[d]] = built[d]]
    BY <1>3 DEF NamesBuilt
  <2>2. named' = [named EXCEPT ![Tag[d]] = [named[Tag[d]] EXCEPT ![tagged[d]] = built[d]]]
    BY <2>1
  <2>3. named'[Tag[d]] = [named[Tag[d]] EXCEPT ![tagged[d]] = built[d]]
        /\ \A t \in Tags : t # Tag[d] => named'[t] = named[t]
    BY <1>1, <2>2
  <2>4. named'[Tag[d]][tagged[d]] = built[d]
        /\ \A n \in TagNames : n # tagged[d] => named'[Tag[d]][n] = named[Tag[d]][n]
    BY <1>1, <1>3, <2>3
  <2> QED BY <1>3, <2>3, <2>4 DEF full_image
<1> QED BY <1>2, <1>3

\* Tags that name commits stay true, in the registry too.
LEMMA NamesTrue ==
  ASSUME ContextInv, HostInv, OwnTrees, TrueNames, NEW d \in Deploys, StepOf(d), PushedSoFar(d)
  PROVE  /\ TrueNames'
         /\ \A t \in Tags, n \in Images : shipped[t][n] = n => shipped'[t][n] = n
<1>1. CASE UNCHANGED <<named, shipped>>
  BY <1>1 DEF TrueNames
<1>2. CASE (BuildExits(d) \/ BuildCancelled(d)) /\ NamesBuilt(d)
  <2>1. shipped' = shipped /\ pc[d] = "building" /\ strategy[d] = "docker_build"
    BY <1>2 DEF BuildExits, BuildCancelled, At
  <2>2. tagged[d] \in Images => built[d] = tagged[d]
    BY <2>1 DEF PushedSoFar, TrueBuild
  <2>3. \A t \in Tags, n \in Images : named'[t][n] = named[t][n] \/ named'[t][n] = n
    BY <1>2, <2>2, BuildNames DEF TagNames
  <2> QED BY <2>1, <2>3 DEF TrueNames
<1>3. CASE Push(d) /\ tagged[d] # "latest"
  <2>1. tagged[d] \in TagNames /\ Tag[d] \in Tags /\ shipped \in [Tags -> [TagNames -> Images \cup {None}]]
    BY <1>3, TagTyped DEF HostInv, TagsTyped
  <2>2. named' = named
    BY <1>3 DEF Push
  <2>3. CASE shipped' = shipped
    BY <2>2, <2>3 DEF TrueNames
  <2>4. CASE /\ named[Tag[d]][tagged[d]] # None
             /\ shipped' = [shipped EXCEPT ![Tag[d]] =
                              [shipped[Tag[d]] EXCEPT ![tagged[d]] = named[Tag[d]][tagged[d]]]]
    <3>1. \A t \in Tags : t # Tag[d] => shipped'[t] = shipped[t]
      BY <2>1, <2>4
    <3>2. shipped'[Tag[d]] = [shipped[Tag[d]] EXCEPT ![tagged[d]] = named[Tag[d]][tagged[d]]]
      BY <2>1, <2>4
    <3>3. \A n \in Images : n # tagged[d] => shipped'[Tag[d]][n] = shipped[Tag[d]][n]
      BY <2>1, <3>2 DEF TagNames
    <3>4. tagged[d] \in Images => shipped'[Tag[d]][tagged[d]] = tagged[d]
      <4>1. shipped'[Tag[d]][tagged[d]] = named[Tag[d]][tagged[d]]
        BY <2>1, <3>2
      <4>2. tagged[d] \in Images => named[Tag[d]][tagged[d]] \in {tagged[d], None}
        BY <2>1 DEF TrueNames
      <4> QED BY <2>4, <4>1, <4>2
    <3>5. \A t \in Tags, n \in Images : shipped'[t][n] = shipped[t][n] \/ shipped'[t][n] = n
      BY <3>1, <3>3, <3>4
    <3> QED BY <2>2, <3>5 DEF TrueNames
  <2> QED BY <1>3, <2>3, <2>4, PushShips
<1>4. \/ UNCHANGED <<named, shipped>>
      \/ (BuildExits(d) \/ BuildCancelled(d)) /\ NamesBuilt(d)
      \/ Push(d) /\ tagged[d] # "latest"
  <2>1. CASE BuildExits(d) \/ BuildCancelled(d)
    BY <2>1, Zenon DEF BuildExits, BuildCancelled
  <2>2. CASE Push(d)
    BY <2>2 DEF Push
  <2>3. CASE BuildStep(d) /\ ~BuildExits(d) /\ ~BuildCancelled(d) /\ ~Push(d)
    BY <2>3, Zenon DEF BuildStep, BeginBuild, BuildGitPull, BuildGitFailed, TagOfCommit, SpawnBuild,
         BuildDrained, BeforePush, BeforeLatest, TagLatest, PushLatest, buildVars
  <2>4. CASE strategy[d] # "docker_build" \/ Aside(d)
    BY <2>4, DockerUse, AsideKeeps DEF buildVars
  <2> QED BY <2>1, <2>2, <2>3, <2>4, StepKinds
<1> QED BY <1>1, <1>2, <1>3, <1>4

\* Another deployment's step does not change what a build has pushed.
LEMMA PushedOther ==
  ASSUME ContextInv, HostInv, OwnTrees => TrueNames, NEW d \in Deploys, PushedSoFar(d),
         NEW e \in Deploys, e # d, StepOf(d), PushedSoFar(e)
  PROVE  PushedSoFar(e)'
<1>1. UNCHANGED strategy /\ Apart(e)
  BY StepApart
<1>2. Solo(e)' = Solo(e)
  BY <1>1, SoloKept
<1>3. Solo(e) => UNCHANGED <<local, registry, published, named>>
  <2>1. Solo(e) => ~UsesDocker(d) /\ strategy[d] # "docker_build"
    BY DEF Solo, UsesDocker
  <2> QED BY <2>1, DockerUse DEF buildVars
<1>4. ASSUME strategy[e] = "docker_build", Solo(e) PROVE LoneBuild(e)'
  <2>1. full_image(e)' = full_image(e)
    BY <1>1, <1>3, <1>4 DEF full_image, Apart
  <2> QED BY <1>1, <1>3, <1>4, <2>1 DEF LoneBuild, PushedSoFar, Apart, Success
<1>5. ASSUME strategy[e] = "docker_build", OwnTrees PROVE TrueBuild(e)'
  <2>1. head'[Tree[e]] = head[Tree[e]]
    <3>1. CASE BuildGitPull(d)
      <4>1. Tree[d] # Tree[e] /\ Tree[e] \in Trees /\ head \in [Trees -> Images]
        BY <1>5, BuildAssumption DEF OwnTrees, HostInv, TagsTyped
      <4> QED BY <3>1, <4>1 DEF BuildGitPull
    <3>2. CASE BuildStep(d) /\ ~BuildGitPull(d)
      BY <3>2, Zenon DEF BuildStep, BeginBuild, BuildGitFailed, TagOfCommit, SpawnBuild, BuildExits,
         BuildDrained, BuildCancelled, BeforePush, Push, BeforeLatest, TagLatest, PushLatest,
         buildVars
    <3>3. CASE strategy[d] # "docker_build" \/ Aside(d)
      BY <3>3, DockerUse, AsideKeeps DEF buildVars
    <3> QED BY <3>1, <3>2, <3>3, StepKinds
  <2>2. \A n \in Images : shipped[Tag[e]][n] = n => shipped'[Tag[e]][n] = n
    BY <1>5, NamesTrue, TagTyped
  <2> QED BY <1>1, <1>5, <2>1, <2>2 DEF TrueBuild, PushedSoFar, Apart, Success
<1> QED BY <1>1, <1>2, <1>4, <1>5 DEF PushedSoFar, Apart

\* A build with a working tree of its own builds the commit it has named, and
\* pushes it under that name.
LEMMA TrueOwn ==
  ASSUME ContextInv, HostInv, OwnTrees, TrueNames, NEW d \in Deploys, BuildStep(d), TrueBuild(d)
  PROVE  TrueBuild(d)'
<1> SUFFICES ASSUME tagged'[d] \in Images
             PROVE  /\ pc'[d] = "spawn_build" => head'[Tree[d]] = tagged'[d]
                    /\ pc'[d] = "building" => built'[d] = tagged'[d]
                    /\ pc'[d] \in {"pushed", "tag", "push_latest"} \/ Success(d)'
                         => shipped'[Tag[d]][tagged'[d]] = tagged'[d]
  BY DEF TrueBuild
<1>1. CASE TagOfCommit(d)
  <2>1. head' = head /\ tagged'[d] = head[Tree[d]]
    BY <1>1, CommitNames, BuildAssumption DEF TagOfCommit, HostInv, TagsTyped
  <2>2. pc'[d] \in {"spawn_build", "notify"} /\ ~Success(d)'
    <3>1. \/ \E st, code : goes_on(d, "spawn_build", st, code)
          \/ \E code, st : finish(d, "failed", code, st)
      BY <1>1, Zenon DEF TagOfCommit, finish_cancelled
    <3>2. outcome[d] = None
      BY BuildPath
    <3>3. \/ pc'[d] = "spawn_build" /\ outcome'[d] = None
          \/ pc'[d] = "notify" /\ outcome'[d].status = "failed"
      BY <3>1, <3>2, Went, FinishedAs
    <3> QED BY <3>3 DEF Success
  <2> QED BY <2>1, <2>2
<1>2. CASE ~TagOfCommit(d)
  <2>1. tagged' = tagged
    BY <1>2, Zenon DEF BuildStep, BeginBuild, BuildGitPull, BuildGitFailed, SpawnBuild, BuildExits,
         BuildDrained, BuildCancelled, BeforePush, Push, BeforeLatest, TagLatest, PushLatest,
         buildVars
  <2>2. pc'[d] # "spawn_build"
    BY <1>2, BuildPath
  <2>3. ASSUME pc'[d] = "building" PROVE built'[d] = tagged'[d]
    <3>1. SpawnBuild(d)
      BY <2>3, BuildPath
    <3>2. pc[d] = "spawn_build" /\ built'[d] = head[Tree[d]]
      BY <3>1 DEF SpawnBuild, At, HostInv, TagsTyped
    <3> QED BY <2>1, <3>2 DEF TrueBuild
  <2>4. ASSUME pc'[d] = "pushed" PROVE shipped'[Tag[d]][tagged'[d]] = tagged'[d]
    <3>1. Push(d)
      BY <2>4, BuildPath
    <3>2. tagged[d] \in Images /\ tagged[d] # "latest" /\ Tag[d] \in Tags
          /\ shipped \in [Tags -> [TagNames -> Images \cup {None}]]
      BY <2>1, CommitNames, TagTyped DEF HostInv, TagsTyped
    <3>3. /\ named[Tag[d]][tagged[d]] # None
          /\ shipped' = [shipped EXCEPT ![Tag[d]] =
                           [shipped[Tag[d]] EXCEPT ![tagged[d]] = named[Tag[d]][tagged[d]]]]
      BY <2>4, <3>1, <3>2, PushShips
    <3>4. shipped'[Tag[d]] = [shipped[Tag[d]] EXCEPT ![tagged[d]] = named[Tag[d]][tagged[d]]]
      BY <3>2, <3>3
    <3>5. shipped'[Tag[d]][tagged[d]] = named[Tag[d]][tagged[d]]
      BY <3>2, <3>4 DEF TagNames
    <3>6. named[Tag[d]][tagged[d]] \in {tagged[d], None}
      BY <3>2 DEF TrueNames
    <3> QED BY <2>1, <3>3, <3>5, <3>6
  <2>5. ASSUME BeforeLatest(d) \/ TagLatest(d) \/ PushLatest(d)
        PROVE  shipped'[Tag[d]][tagged'[d]] = tagged'[d]
    <3>1. pc[d] \in {"pushed", "tag", "push_latest"}
      BY <2>5 DEF BeforeLatest, TagLatest, PushLatest, At
    <3>2. shipped' = shipped
      BY <2>5 DEF BeforeLatest, TagLatest, PushLatest, buildVars
    <3> QED BY <2>1, <3>1, <3>2 DEF TrueBuild
  <2> QED BY <2>2, <2>3, <2>4, <2>5, BuildPath
<1> QED BY <1>1, <1>2

\* A lone build keeps its tag on what it has built until it has been pushed.
LEMMA LoneOwn ==
  ASSUME ContextInv, HostInv, NEW d \in Deploys, BuildStep(d), LoneBuild(d),
         pc[d] \notin Over \cup {"push_latest"} => tagOk[d] = None
  PROVE  LoneBuild(d)'
<1>1. ASSUME UNCHANGED <<local, built, tagged, named>>, full_image(d) = built[d]
      PROVE  full_image(d)' = built'[d]
  BY <1>1 DEF full_image
<1>2. ASSUME pc'[d] = "output", exit_code'[d] = 0 PROVE full_image(d)' = built'[d]
  <2>1. BuildExits(d)
    BY <1>2, BuildPath
  <2>2. exit_code \in [Deploys -> Int]
    BY DEF ContextInv, ContextTyped
  <2>3. NamesBuilt(d) \/ goes_on(d, "output", stages[d], 1)
    BY <2>1, Zenon DEF BuildExits
  <2>4. NamesBuilt(d)
    BY <1>2, <2>2, <2>3 DEF goes_on
  <2>5. tagged' = tagged /\ built' = built
    BY <2>1 DEF BuildExits
  <2> QED BY <2>4, <2>5, BuildNames
<1>3. ASSUME pc'[d] \in {"built", "push", "pushed", "tag"} PROVE full_image(d)' = built'[d]
  <2>1. \/ BuildDrained(d) /\ exit_code[d] = 0
        \/ BeforePush(d) \/ Push(d) \/ BeforeLatest(d)
    BY <1>3, BuildPath
  <2>2. UNCHANGED <<local, built, tagged, named>>
    BY <2>1, Zenon DEF BuildDrained, BeforePush, Push, BeforeLatest, composeVars, buildVars
  <2>3. full_image(d) = built[d]
    BY <2>1 DEF BuildDrained, BeforePush, Push, BeforeLatest, At, LoneBuild
  <2> QED BY <1>1, <2>2, <2>3
<1>4. ASSUME pc'[d] = "push_latest", tagOk'[d] = TRUE PROVE local'[Tag[d]] = built'[d]
  <2>1. TagLatest(d)
    BY <1>4, BuildPath
  <2>2. full_image(d) = built[d] /\ built' = built
    BY <2>1 DEF TagLatest, At, LoneBuild
  <2>3. PICK ok \in BOOLEAN :
          /\ tagOk' = [tagOk EXCEPT ![d] = ok]
          /\ local' = IF ok THEN [local EXCEPT ![Tag[d]] = full_image(d)] ELSE local
    BY <2>1, Zenon DEF TagLatest
  <2>4. ok = TRUE
    BY <1>4, <2>3 DEF HostInv, TagsTyped
  <2> QED BY <2>2, <2>3, <2>4, TagTyped DEF HostInv, HostTyped
<1>5. ASSUME Success(d)', tagOk'[d] = TRUE, outcome'[d].stages["docker_push_latest"] = "success"
      PROVE  registry'[Tag[d]] = built'[d]
  <2>1. pc[d] = "push_latest" /\ PushLatest(d) /\ UNCHANGED <<tagOk, built>>
    <3>1. BeforeLatest(d) \/ PushLatest(d)
      BY <1>5, BuildPath
    <3>2. UNCHANGED <<tagOk, built>>
      BY <3>1 DEF BeforeLatest, PushLatest, buildVars
    <3>3. tagOk[d] # None
      BY <1>5, <3>2, ComposeAssumption
    <3> QED BY <3>1, <3>2, <3>3 DEF BeforeLatest, PushLatest, At, Over
  <2>2. local[Tag[d]] = built[d]
    BY <1>5, <2>1 DEF LoneBuild
  <2>3. PICK ok \in BOOLEAN :
          /\ registry' = IF ok THEN [registry EXCEPT ![Tag[d]] = local[Tag[d]]] ELSE registry
          /\ finish(d, "success", 0, finish_stage(stages[d], "docker_push_latest", ok))
    BY <2>1, Zenon DEF PushLatest
  <2>4. outcome'[d].stages = finish_stage(stages[d], "docker_push_latest", ok)
    <3> DEFINE st == finish_stage(stages[d], "docker_push_latest", ok)
    <3>1. finish(d, "success", 0, st)
      BY <2>3
    <3> HIDE DEF st
    <3>2. outcome'[d] = [status |-> "success", code |-> 0, stages |-> st]
      BY <3>1, FinishedAs
    <3>3. outcome'[d].stages = st
      BY <3>2
    <3> QED BY <3>3 DEF st
  <2>5. stages[d] \in StageVectors /\ "docker_push_latest" \in DOMAIN stages[d]
    <3>1. At(d, "docker_build", "push_latest")
      BY <2>1 DEF PushLatest
    <3>2. stages[d] \in StageVectors /\ BuildShape("push_latest", stages[d], exit_code[d])
      BY <3>1, AtFacts DEF Over, Shape
    <3> QED BY <3>2 DEF BuildShape
  <2>6. ok
    BY <1>5, <2>4, <2>5, StageFinished
  <2> QED BY <2>1, <2>2, <2>3, <2>6, TagTyped DEF HostInv, HostTyped
<1> QED BY <1>2, <1>3, <1>4, <1>5 DEF LoneBuild

\* A build pushes the image it built.
LEMMA PushedOwn ==
  ASSUME ContextInv, HostInv, OwnTrees => TrueNames, NEW d \in Deploys, BuildStep(d),
         strategy[d] = "docker_build", PushedSoFar(d)
  PROVE  PushedSoFar(d)'
<1>1. pc'[d] \notin Over \cup {"push_latest"} => tagOk'[d] = None
  <2>1. CASE TagLatest(d)
    <3>1. pc'[d] = "push_latest"
      BY <2>1, Went DEF TagLatest
    <3> QED BY <3>1
  <2>2. CASE PushLatest(d)
    <3>1. pc'[d] = "notify"
      BY <2>2, FinishedAs DEF PushLatest
    <3> QED BY <3>1 DEF Over
  <2>3. CASE ~TagLatest(d) /\ ~PushLatest(d)
    <3>1. tagOk' = tagOk
      BY <2>3, Zenon DEF BuildStep, BeginBuild, BuildGitPull, BuildGitFailed, TagOfCommit,
         SpawnBuild, BuildExits, BuildDrained, BuildCancelled, BeforePush, Push, BeforeLatest,
         buildVars
    <3>2. pc[d] \notin Over \cup {"push_latest"}
      BY <2>3 DEF BuildStep, BeginBuild, BuildGitPull, BuildGitFailed, TagOfCommit, SpawnBuild,
         BuildExits, BuildDrained, BuildCancelled, BeforePush, Push, BeforeLatest, At, Over
    <3> QED BY <3>1, <3>2 DEF PushedSoFar
  <2> QED BY <2>1, <2>2, <2>3
<1>2. strategy' = strategy
  BY StrategyKept DEF StepOf
<1>3. Solo(d)' = Solo(d)
  BY <1>2, SoloKept
<1>4. OwnTrees => TrueBuild(d)'
  BY TrueOwn DEF PushedSoFar
<1>5. Solo(d) => LoneBuild(d)'
  BY LoneOwn DEF PushedSoFar
<1> QED BY <1>1, <1>2, <1>3, <1>4, <1>5 DEF PushedSoFar

\* Steps that leave builds, images, tags and the registry alone.
LEMMA PushedKept ==
  ASSUME ContextInv, HostInv, NEW e \in Deploys, PushedSoFar(e),
         UNCHANGED <<strategy, stages, exit_code, outcome, local, buildVars>>,
         pc'[e] = pc[e] \/ (pc[e] = "notify" /\ pc'[e] = "done"),
         published \subseteq published',
         \A t \in Tags \ published' : registry'[t] = registry[t]
  PROVE  PushedSoFar(e)'
<1>1. Solo(e)' = Solo(e)
  BY SoloKept
<1>2. UNCHANGED <<head, built, tagged, tagOk, named, shipped>>
  BY DEF buildVars
<1>3. full_image(e)' = full_image(e)
  BY <1>2 DEF full_image
<1>4. TrueBuild(e) => TrueBuild(e)'
  BY <1>2 DEF TrueBuild, Success
<1>5. LoneBuild(e) => LoneBuild(e)'
  <2>1. Tag[e] \notin published' => Tag[e] \notin published /\ registry'[Tag[e]] = registry[Tag[e]]
    BY TagTyped
  <2> QED BY <1>2, <1>3, <2>1 DEF LoneBuild, Success
<1> QED BY <1>1, <1>2, <1>4, <1>5 DEF PushedSoFar, Over

LEMMA PushedNext ==
  ASSUME ContextInv, HostInv, PushedInv, [StrategiesNext]_strategyVars PROVE PushedInv'
<1>1. ASSUME NEW d \in Deploys, StepOf(d) PROVE PushedInv'
  <2>1. \A e \in Deploys \ {d} : PushedSoFar(e)'
    BY <1>1, PushedOther DEF PushedInv
  <2>2. PushedSoFar(d)'
    <3>1. CASE BuildStep(d) /\ strategy[d] = "docker_build"
      BY <3>1, PushedOwn DEF PushedInv
    <3>2. CASE strategy[d] # "docker_build"
      BY <1>1, <3>2, StrategyKept DEF PushedSoFar
    <3>3. CASE Aside(d)
      <4>1. /\ UNCHANGED <<strategy, stages, exit_code, outcome, published, registry, local, buildVars>>
            /\ pc'[d] = pc[d] \/ (pc[d] = "notify" /\ pc'[d] = "done")
        BY <3>3, AsideKeeps
      <4> QED BY <4>1, PushedKept DEF PushedInv
    <3> QED BY <1>1, <3>1, <3>2, <3>3, StepKinds
  <2>3. OwnTrees => TrueNames'
    BY <1>1, NamesTrue DEF PushedInv
  <2> QED BY <2>1, <2>2, <2>3 DEF PushedInv, OwnTrees
<1>2. CASE DockerStep \/ UNCHANGED strategyVars
  <2>1. /\ UNCHANGED <<strategy, pc, stages, exit_code, outcome, local, buildVars>>
        /\ published \subseteq published'
        /\ \A t \in Tags \ published' : registry'[t] = registry[t]
    <3>1. CASE DockerStep
      BY <3>1, DockerFrame DEF contextVars
    <3>2. CASE UNCHANGED strategyVars
      BY <3>2 DEF contextVars, composeVars, strategyVars
    <3> QED BY <1>2, <3>1, <3>2
  <2>2. \A e \in Deploys : PushedSoFar(e)'
    BY <2>1, PushedKept DEF PushedInv
  <2>3. OwnTrees => TrueNames'
    BY <2>1 DEF PushedInv, TrueNames, buildVars
  <2> QED BY <2>2, <2>3 DEF PushedInv, OwnTrees
<1> QED BY <1>1, <1>2 DEF StrategiesNext, StepOf, DockerStep

LEMMA PushedInit == StrategiesInit => PushedInv
<1> SUFFICES ASSUME StrategiesInit PROVE PushedInv
  OBVIOUS
<1>1. TrueNames
  BY DEF StrategiesInit, BuildInit, TrueNames, TagNames
<1>2. ASSUME NEW d \in Deploys PROVE PushedSoFar(d)
  <2>1. pc[d] = "begin" /\ outcome[d] = None /\ tagOk[d] = None /\ tagged[d] = "latest"
    BY <1>2 DEF StrategiesInit, ContextInit, BuildInit
  <2> QED BY <2>1 DEF PushedSoFar, TrueBuild, LoneBuild, Success
<1> QED BY <1>1, <1>2 DEF PushedInv

\* A tag that names a commit stands for the image of that commit, however many
\* builds of any names overtake each other, if each has its own working tree;
\* and what a lone build reports as pushed under latest is what it built,
\* whatever failed before, unless docker tag did.
THEOREM BuildsArePushed == StrategiesSpec => []PushedIsBuilt
<1>1. PushedInv => PushedIsBuilt
  BY DEF PushedInv, PushedSoFar, PushedIsBuilt, TrueBuild, LoneBuild, Finished, Success
<1> QED BY <1>1, PushedInit, BothInvariant, PushedNext, PTL DEF StrategiesSpec

-------------------------------------------------------------------------------
(* Whose service runs                                                      *)

SwappedInv == \A d \in Deploys : SwappedBy(d)

\* A service becomes a deployment's with its compose up and in no other way.
LEMMA ServiceOf ==
  ASSUME HostInv, NEW d \in Deploys, StepOf(d), NEW t \in Tags, live'[t] # None
  PROVE  \/ live'[t] = live[t]
         \/ /\ ComposeUp(d) /\ live'[t].by = d /\ live'[t].image = local[Tag[d]]
            /\ \E code : goes_on(d, "monitor", start(finish_stage(stages[d], "compose_up", TRUE),
                                                     "post_deploy_monitor"), code)
<1>1. CASE ComposeUp(d)
  <2> DEFINE new_service == [image |-> local[Tag[d]], by |-> d, status |-> "running", restarts |-> 0]
  <2>1. \/ /\ live' = [live EXCEPT ![Tag[d]] = new_service]
           /\ goes_on(d, "monitor", start(finish_stage(stages[d], "compose_up", TRUE),
                                          "post_deploy_monitor"), 0)
        \/ live' \in {live, [live EXCEPT ![Tag[d]] = None]}
    BY <1>1, Zenon DEF ComposeUp
  <2>2. CASE live' \in {live, [live EXCEPT ![Tag[d]] = None]}
    BY <2>2 DEF HostInv, HostTyped
  <2>3. CASE live' = [live EXCEPT ![Tag[d]] = new_service] /\ live'[t] # live[t]
    <3>1. live'[t] = new_service
      BY <2>3 DEF HostInv, HostTyped
    <3>2. live'[t].by = d /\ live'[t].image = local[Tag[d]]
      BY <3>1
    <3>3. live' \notin {live, [live EXCEPT ![Tag[d]] = None]}
      <4>1. live' # live
        BY <2>3
      <4>2. ASSUME live' = [live EXCEPT ![Tag[d]] = None] PROVE FALSE
        <5>1. [live EXCEPT ![Tag[d]] = None][t] \in {live[t], None}
          BY DEF HostInv, HostTyped
        <5> QED BY <2>3, <4>2, <5>1
      <4> QED BY <4>1, <4>2
    <3> HIDE DEF new_service
    <3>4. goes_on(d, "monitor", start(finish_stage(stages[d], "compose_up", TRUE),
                                      "post_deploy_monitor"), 0)
      BY <2>1, <3>3, Zenon
    <3> QED BY <1>1, <3>2, <3>4, Zenon
  <2> QED BY <2>1, <2>2, <2>3
<1>2. CASE ~ComposeUp(d)
  <2>1. CASE ComposeStep(d)
    <3>1. live' = live
      BY <1>2, <2>1, Zenon DEF ComposeStep, cleanup_stale_canaries, StartPulls, run_git_pull,
         run_docker_pull, PullsDone, EnsureClean, RunCanary, PollCanary, CheckHttp, CheckLogs,
         AbortCanary, ReleaseCanary, ComposePull, CheckService, MonitorEnds, composeVars, hostVars
    <3> QED BY <3>1
  <2>2. CASE strategy[d] # "docker_compose" \/ Aside(d)
    <3>1. live' = live
      BY <2>2, DockerUse DEF Aside, ContextStep, SweepCanary, composeVars
    <3> QED BY <3>1
  <2> QED BY <2>1, <2>2, StepKinds
<1> QED BY <1>1, <1>2

\* A deployment's service comes with its own compose up.
LEMMA SwappedOwn ==
  ASSUME ContextInv, HostInv, NEW d \in Deploys, StepOf(d), SwappedBy(d)
  PROVE  SwappedBy(d)'
<1> SUFFICES ASSUME NEW t \in Tags, live'[t] # None, live'[t].by = d
             PROVE  /\ strategy'[d] = "docker_compose"
                    /\ \/ pc'[d] \in {"monitor", "watching"}
                       \/ pc'[d] \in Over /\ stages'[d]["compose_up"] = "success"
  BY DEF SwappedBy
<1>1. strategy' = strategy
  BY StrategyKept
<1>2. CASE ComposeUp(d) /\ live'[t] # live[t]
  <2>1. PICK code : goes_on(d, "monitor", start(finish_stage(stages[d], "compose_up", TRUE),
                                                "post_deploy_monitor"), code)
    BY <1>2, ServiceOf, Zenon
  <2>2. pc'[d] = "monitor"
    BY <2>1 DEF goes_on, Goto, ContextInv, ContextTyped
  <2>3. strategy[d] = "docker_compose"
    BY <1>2 DEF ComposeUp, At
  <2> QED BY <1>1, <2>2, <2>3
<1>3. CASE live'[t] = live[t]
  <2>1. /\ strategy[d] = "docker_compose"
        /\ \/ pc[d] \in {"monitor", "watching"}
           \/ pc[d] \in Over /\ stages[d]["compose_up"] = "success"
    BY <1>3 DEF SwappedBy
  <2>2. CASE Aside(d)
    BY <1>1, <2>1, <2>2, AsideKeeps DEF Over
  <2>3. CASE ComposeStep(d)
    <3>1. CheckService(d) \/ MonitorEnds(d)
      BY <2>1, <2>3 DEF ComposeStep, cleanup_stale_canaries, StartPulls, run_git_pull,
         run_docker_pull, PullsDone, EnsureClean, RunCanary, PollCanary, CheckHttp, CheckLogs,
         AbortCanary, ReleaseCanary, ComposePull, ComposeUp, At, Over
    <3>2. \/ goes_on(d, "watching", stages[d], 0)
          \/ \E ok \in BOOLEAN : EndMonitor(d, ok)
      BY <3>1, Zenon DEF CheckService, MonitorEnds
    <3>3. CASE goes_on(d, "watching", stages[d], 0)
      BY <1>1, <2>1, <3>3, Went
    <3>4. ASSUME NEW ok \in BOOLEAN, EndMonitor(d, ok)
          PROVE  pc'[d] = "notify" /\ stages'[d]["compose_up"] = "success"
      <4>1. PICK place \in {"monitor", "watching"} :
              stages[d] \in StageVectors /\ ComposeShape(place, stages[d])
        <5>1. PICK place \in {"monitor", "watching"} : At(d, "docker_compose", place)
          BY <3>1 DEF CheckService, MonitorEnds
        <5>2. stages[d] \in StageVectors /\ ComposeShape(place, stages[d])
          BY <5>1, AtFacts DEF Over, Shape
        <5> QED BY <5>2
      <4>2. "compose_up" \in DOMAIN stages[d] /\ stages[d]["compose_up"] = "success"
        BY <4>1 DEF ComposeShape, Checks
      <4>3. pc'[d] = "notify" /\ stages'[d] = finish_stage(stages[d], "post_deploy_monitor", ok)
        <5> DEFINE st == finish_stage(stages[d], "post_deploy_monitor", ok)
        <5>1. finish(d, "success", 0, st)
          BY <3>4 DEF EndMonitor
        <5> HIDE DEF st
        <5>2. pc'[d] = "notify" /\ stages'[d] = st
          BY <5>1, FinishedAs
        <5> QED BY <5>2 DEF st
      <4>4. finish_stage(stages[d], "post_deploy_monitor", ok)["compose_up"] = "success"
        BY <4>1, <4>2, StageFinished
      <4> QED BY <4>3, <4>4
    <3> QED BY <1>1, <2>1, <3>2, <3>3, <3>4 DEF Over
  <2> QED BY <2>1, <2>2, <2>3, StepKinds
<1> QED BY <1>2, <1>3, ServiceOf

\* Docker's own steps, and other people's, leave a service's image and owner alone.
LEMMA DockerServices ==
  ASSUME HostInv, DockerStep, NEW t \in Tags, live'[t] # None
  PROVE  live[t] # None /\ live'[t].by = live[t].by /\ live'[t].image = live[t].image
<1>1. CASE live' = live
  BY <1>1
<1>2. ASSUME NEW u \in Tags, ServiceRuns(u)
      PROVE  live[t] # None /\ live'[t].by = live[t].by /\ live'[t].image = live[t].image
  <2>1. live[u] \in Services
    BY <1>2 DEF ServiceRuns, HostInv, HostTyped
  <2>2. t # u => live'[t] = live[t]
    BY <1>2 DEF ServiceRuns, HostInv, HostTyped
  <2>3. live'[u].by = live[u].by /\ live'[u].image = live[u].image
    BY <1>2, <2>1 DEF ServiceRuns, HostInv, HostTyped, Services
  <2> QED BY <1>2, <2>2, <2>3 DEF ServiceRuns
<1> QED BY <1>1, <1>2 DEF DockerStep, CanaryRuns, Publish

LEMMA SwappedInit == StrategiesInit => SwappedInv
BY DeployContextAssumption DEF StrategiesInit, ComposeInit, SwappedInv, SwappedBy

LEMMA SwappedNext ==
  ASSUME ContextInv, HostInv, SwappedInv, [StrategiesNext]_strategyVars PROVE SwappedInv'
<1>1. ASSUME NEW d \in Deploys, StepOf(d), NEW e \in Deploys, e # d PROVE SwappedBy(e)'
  <2>1. UNCHANGED strategy /\ Apart(e)
    BY <1>1, StepApart DEF HostInv
  <2>2. \A t \in Tags : live'[t] # None /\ live'[t].by = e => live'[t] = live[t]
    BY <1>1, ServiceOf
  <2> QED BY <2>1, <2>2 DEF SwappedInv, SwappedBy, Apart
<1>2. ASSUME NEW d \in Deploys, StepOf(d) PROVE SwappedInv'
  BY <1>1, <1>2, SwappedOwn DEF SwappedInv
<1>3. CASE DockerStep \/ UNCHANGED strategyVars
  <2>1. UNCHANGED <<strategy, pc, stages>>
    BY <1>3, DockerFrame DEF contextVars, strategyVars
  <2>2. \A t \in Tags : live'[t] # None => live[t] # None /\ live'[t].by = live[t].by
    BY <1>3, DockerServices DEF strategyVars, composeVars
  <2> QED BY <2>1, <2>2 DEF SwappedInv, SwappedBy
<1> QED BY <1>2, <1>3 DEF StrategiesNext, StepOf, DockerStep

-------------------------------------------------------------------------------
(* Which containers a step makes and removes                               *)

\* A compose step that is about canaries.
LEMMA CanaryStep ==
  ASSUME HostInv, NEW d \in Deploys, StepOf(d), canary' # canary
  PROVE  EnsureClean(d) \/ RunCanary(d) \/ AbortCanary(d) \/ ReleaseCanary(d) \/ SweepCanary(d)
<1>1. CASE ComposeStep(d)
  BY <1>1, Zenon DEF ComposeStep, cleanup_stale_canaries, StartPulls, run_git_pull,
     run_docker_pull, PullsDone, PollCanary, CheckHttp, CheckLogs, ComposePull, ComposeUp,
     CheckService, MonitorEnds, composeVars, hostVars
<1>2. CASE BuildStep(d)
  BY <1>2, Zenon DEF BuildStep, BeginBuild, BuildGitPull, BuildGitFailed, TagOfCommit, SpawnBuild,
     BuildExits, BuildDrained, BuildCancelled, BeforePush, Push, BeforeLatest, TagLatest, PushLatest, composeVars
<1>3. CASE ScriptStep(d) \/ XiaojincutStep(d) \/ ContextStep(d)
           \/ (spawn_timeout(d) /\ UNCHANGED <<composeVars, buildVars>>)
  BY <1>3, Zenon DEF ScriptStep, XiaojincutStep, ContextStep, BeginScript, ScriptGitPull,
     SpawnScript, ScriptExits, ScriptDrained, ScriptCancelled, CheckXiaojincut, RunXiaojincutTask,
     composeVars
<1> QED BY <1>1, <1>2, <1>3, Zenon DEF StepOf

\* Only RunCanary makes a container, and it is the deployment's.
LEMMA RunMakes ==
  ASSUME HostInv, NEW d \in Deploys, RunCanary(d)
  PROVE  LET name == CanaryName[d]
         IN  \/ canary' = canary
             \/ \E status \in {"created", "running"} :
                  /\ canary[name] = None
                  /\ status = "running" <=> PortHolders = {}
                  /\ canary'[name] = Container(d, local[Tag[d]], status) /\ canary'[name] # None
                  /\ canary'[name].id = d /\ canary'[name].image = local[Tag[d]]
                  /\ canary'[name].status = status /\ canary'[name].health # "unhealthy"
                  /\ Containers' = Containers \cup {name}
                  /\ \A n \in Containers : canary'[n] = canary[n]
<1> DEFINE name == CanaryName[d]
<1>1. name \in Names
  BY DEF Names
<1>2. local[Tag[d]] \in Images
  BY ImageHere DEF RunCanary, Checks
<1>3. \/ canary' = canary
      \/ \E status \in {"created", "running"} :
           /\ canary[name] = None
           /\ status = "running" <=> PortHolders = {}
           /\ canary' = [canary EXCEPT ![name] = Container(d, local[Tag[d]], status)]
  BY DEF RunCanary
<1>4. ASSUME NEW status \in {"created", "running"}, canary[name] = None,
             canary' = [canary EXCEPT ![name] = Container(d, local[Tag[d]], status)]
      PROVE  /\ canary'[name] = Container(d, local[Tag[d]], status) /\ canary'[name] # None
             /\ canary'[name].id = d /\ canary'[name].image = local[Tag[d]]
             /\ canary'[name].status = status /\ canary'[name].health # "unhealthy"
             /\ Containers' = Containers \cup {name}
             /\ \A n \in Containers : canary'[n] = canary[n]
  <2>1. Container(d, local[Tag[d]], status) \in Canaries
    BY <1>2, MadeTyped
  <2>2. Container(d, local[Tag[d]], status) # None
    BY <2>1, ComposeAssumption
  <2>3. canary'[name] = Container(d, local[Tag[d]], status)
        /\ \A n \in Names : n # name => canary'[n] = canary[n]
    BY <1>1, <1>4 DEF HostInv, HostTyped
  <2>4. canary'[name].id = d /\ canary'[name].image = local[Tag[d]]
        /\ canary'[name].status = status /\ canary'[name].health # "unhealthy"
    BY <2>3 DEF Container
  <2>5. Containers' = Containers \cup {name}
    BY <1>1, <1>4, <2>2, <2>3 DEF Containers
  <2> QED BY <1>4, <2>2, <2>3, <2>4, <2>5 DEF Containers
<1> QED BY <1>3, <1>4

\* The others remove: what is left is as it was.
LEMMA Removes ==
  ASSUME HostInv, NEW d \in Deploys, StepOf(d), ~RunCanary(d)
  PROVE  /\ Containers' \subseteq Containers
         /\ \A n \in Containers' : canary'[n] = canary[n]
         /\ PortHolders' \subseteq PortHolders
<1>1. \A n \in Names : canary'[n] = canary[n] \/ canary'[n] = None
  <2>1. CASE canary' = canary
    BY <2>1
  <2>2. CASE EnsureClean(d) \/ AbortCanary(d) \/ ReleaseCanary(d)
    BY <2>2 DEF EnsureClean, AbortCanary, ReleaseCanary, cleanup_canary_strict, HostInv, HostTyped
  <2>3. CASE SweepCanary(d)
    BY <2>3 DEF SweepCanary
  <2> QED BY <2>1, <2>2, <2>3, CanaryStep
<1>2. Containers' \subseteq Containers /\ \A n \in Containers' : canary'[n] = canary[n]
  BY <1>1 DEF Containers
<1> QED BY <1>2 DEF PortHolders

\* Docker's steps neither make nor remove a container.
LEMMA DockerCanaries ==
  ASSUME HostInv, DockerStep
  PROVE  /\ Containers' = Containers /\ PortHolders' \subseteq PortHolders
         /\ \A n \in Containers : /\ canary'[n].id = canary[n].id
                                  /\ canary'[n].image = canary[n].image
<1>1. CASE canary' = canary
  BY <1>1 DEF Containers, PortHolders
<1>2. ASSUME NEW m \in Names, CanaryRuns(m)
      PROVE  /\ Containers' = Containers /\ PortHolders' \subseteq PortHolders
             /\ \A n \in Containers : /\ canary'[n].id = canary[n].id
                                      /\ canary'[n].image = canary[n].image
  <2>1. canary[m] \in Canaries /\ m \in Containers /\ canary[m].status = "running"
    BY <1>2, CanaryTyped DEF HostInv, CanaryRuns, PortHolders
  <2>2. \A n \in Names : n # m => canary'[n] = canary[n]
    BY <1>2 DEF CanaryRuns, HostInv, HostTyped
  <2>3. canary'[m] \in Canaries /\ canary'[m].id = canary[m].id /\ canary'[m].image = canary[m].image
    <3>1. \/ canary'[m] = [canary[m] EXCEPT !.status = "exited"]
          \/ \E h \in {"unhealthy", "healthy"} : canary'[m] = [canary[m] EXCEPT !.health = h]
      BY <1>2, <2>1 DEF CanaryRuns, HostInv, HostTyped
    <3> QED BY <2>1, <3>1 DEF Canaries
  <2>4. canary'[m] # None
    BY <2>3, ComposeAssumption
  <2>5. Containers' = Containers
    BY <2>1, <2>2, <2>4 DEF Containers
  <2> QED BY <2>1, <2>2, <2>3, <2>5 DEF PortHolders, Containers
<1> QED BY <1>1, <1>2 DEF DockerStep, ServiceRuns, Publish

-------------------------------------------------------------------------------
(* Who removes a canary                                                    *)

\* Only the sweep and its start change what is to be swept.
LEMMA SweepUse ==
  ASSUME NEW d \in Deploys, StepOf(d), sweep' # sweep
  PROVE  cleanup_stale_canaries(d) \/ SweepCanary(d)
<1>1. CASE ComposeStep(d)
  BY <1>1, Zenon DEF ComposeStep, StartPulls, run_git_pull, run_docker_pull, PullsDone,
     EnsureClean, RunCanary, PollCanary, CheckHttp, CheckLogs, AbortCanary, ReleaseCanary,
     ComposePull, ComposeUp, CheckService, MonitorEnds, composeVars, hostVars
<1>2. CASE BuildStep(d)
  BY <1>2, Zenon DEF BuildStep, BeginBuild, BuildGitPull, BuildGitFailed, TagOfCommit, SpawnBuild,
     BuildExits, BuildDrained, BuildCancelled, BeforePush, Push, BeforeLatest, TagLatest, PushLatest, composeVars
<1>3. CASE ScriptStep(d) \/ XiaojincutStep(d) \/ ContextStep(d)
           \/ (spawn_timeout(d) /\ UNCHANGED <<composeVars, buildVars>>)
  BY <1>3, Zenon DEF ScriptStep, XiaojincutStep, ContextStep, BeginScript, ScriptGitPull,
     SpawnScript, ScriptExits, ScriptDrained, ScriptCancelled, CheckXiaojincut, RunXiaojincutTask,
     composeVars
<1> QED BY <1>1, <1>2, <1>3, Zenon DEF StepOf

\* A removal that does not fail removes.
LEMMA StrictCleanup ==
  ASSUME HostTyped, NEW d \in Deploys, cleanup_canary_strict(CanaryName[d]), ~Fault
  PROVE  CanaryName[d] \notin Containers'
<1>1. CanaryName[d] \in Names
  BY DEF Names
<1>2. canary' = [canary EXCEPT ![CanaryName[d]] = None]
  BY DEF cleanup_canary_strict, Ends
<1> QED BY <1>1, <1>2 DEF HostTyped, Containers

\* A deployment whose canary may exist is checking it or removes it.
LEMMA HeldStep ==
  ASSUME ContextInv, HostInv, NEW d \in Deploys, StepOf(d), strategy[d] = "docker_compose",
         pc[d] \in Held
  PROVE  \/ pc'[d] \in Held
         \/ cleanup_canary_strict(CanaryName[d])
<1>1. CASE Aside(d)
  BY <1>1, AsideKeeps DEF Held
<1>2. CASE ComposeStep(d)
  <2>1. PollCanary(d) \/ CheckHttp(d) \/ CheckLogs(d) \/ AbortCanary(d) \/ ReleaseCanary(d)
    BY <1>2 DEF ComposeStep, cleanup_stale_canaries, StartPulls, run_git_pull, run_docker_pull,
       PullsDone, EnsureClean, RunCanary, ComposePull, ComposeUp, CheckService, MonitorEnds, At, Held
  <2>2. CASE AbortCanary(d) \/ ReleaseCanary(d)
    BY <2>2, Zenon DEF AbortCanary, ReleaseCanary
  <2>3. CASE PollCanary(d) \/ CheckHttp(d)
    <3>1. \/ goes_on(d, "abort", stages[d], 0) \/ goes_on(d, "curl", stages[d], 0)
          \/ goes_on(d, "logs", stages[d], 0)
      BY <2>3, Zenon DEF PollCanary, CheckHttp
    <3> QED BY <3>1, Went DEF Held
  <2>4. CASE CheckLogs(d)
    BY <2>4, Went DEF CheckLogs, Held
  <2> QED BY <2>1, <2>2, <2>3, <2>4
<1> QED BY <1>1, <1>2, StepKinds

\* The ids that are due to be removed.
LEMMA SweepKept ==
  ASSUME ContextInv, HostInv, NEW d \in Deploys, StepOf(d), ~Fault,
         strategy[d] = "docker_compose", pc[d] = "begin" \/ Old \in sweep[d],
         NEW n \in Containers', n \in Containers, canary[n].id = Old, canary'[n].id = Old
  PROVE  pc'[d] = "begin" \/ Old \in sweep'[d]
<1>1. CASE cleanup_stale_canaries(d)
  <2>1. sweep' = [sweep EXCEPT ![d] = { canary[m].id : m \in Containers }]
    BY <1>1 DEF cleanup_stale_canaries, Ends
  <2>2. sweep'[d] = { canary[m].id : m \in Containers }
    BY <2>1 DEF HostInv, HostTyped
  <2> QED BY <2>2
<1>2. CASE SweepCanary(d)
  <2>1. PICK id \in sweep[d] :
          /\ sweep' = [sweep EXCEPT ![d] = sweep[d] \ {id}]
          /\ canary' = [m \in Names |->
                          IF canary[m] # None /\ canary[m].id = id /\ TRUE
                          THEN None ELSE canary[m]]
    BY <1>2 DEF SweepCanary, Ends
  <2>2. id # Old
    BY <2>1 DEF Containers
  <2>3. pc' = pc
    BY <1>2 DEF SweepCanary
  <2>4. sweep'[d] = sweep[d] \ {id}
    BY <2>1 DEF HostInv, HostTyped
  <2> QED BY <2>2, <2>3, <2>4
<1>3. CASE ~cleanup_stale_canaries(d) /\ ~SweepCanary(d)
  <2>1. sweep' = sweep
    BY <1>3, SweepUse
  <2>2. CASE pc[d] = "begin"
    <3>1. CASE Aside(d)
      BY <2>2, <3>1, AsideKeeps
    <3>2. CASE ComposeStep(d)
      BY <1>3, <2>2, <3>2 DEF ComposeStep, StartPulls, run_git_pull, run_docker_pull,
         PullsDone, EnsureClean, RunCanary, PollCanary, CheckHttp, CheckLogs, AbortCanary,
         ReleaseCanary, ComposePull, ComposeUp, CheckService, MonitorEnds, At
    <3> QED BY <3>1, <3>2, StepKinds
  <2> QED BY <2>1, <2>2
<1> QED BY <1>1, <1>2, <1>3

\* A canary is removed by its deployment or by a sweep, and a new one has a
\* deployment that will.
LEMMA OwnerStep ==
  ASSUME ContextInv, HostInv, CanaryHasOwner, NEW d \in Deploys, StepOf(d)
  PROVE  CanaryHasOwner'
<1> SUFFICES ASSUME faults' = MaxFaults, NEW n \in Containers'
             PROVE  /\ canary'[n].id \in Deploys =>
                         /\ n = CanaryName[canary'[n].id]
                         /\ strategy'[canary'[n].id] = "docker_compose"
                         /\ pc'[canary'[n].id] \in Held
                    /\ canary'[n].id = Old =>
                         \A e \in Deploys :
                           strategy'[e] = "docker_compose" => pc'[e] = "begin" \/ Old \in sweep'[e]
  BY DEF CanaryHasOwner
<1>1. faults = MaxFaults /\ ~Fault
  BY StepSpends
<1>2. strategy' = strategy /\ \A e \in Deploys \ {d} : Apart(e)
  BY StepApart, StrategyKept DEF HostInv
<1>3. Old \notin Deploys
  BY ComposeAssumption
<1>4. ASSUME n \in Containers, canary'[n] = canary[n], canary[n].id \in Deploys
      PROVE  /\ n = CanaryName[canary[n].id]
             /\ strategy[canary[n].id] = "docker_compose"
             /\ pc[canary[n].id] \in Held
  BY <1>1, <1>4 DEF CanaryHasOwner
<1>5. ASSUME n \in Containers, canary'[n] = canary[n], canary[n].id = Old,
             NEW e \in Deploys, strategy[e] = "docker_compose"
      PROVE  pc'[e] = "begin" \/ Old \in sweep'[e]
  <2>1. pc[e] = "begin" \/ Old \in sweep[e]
    BY <1>1, <1>5 DEF CanaryHasOwner
  <2>2. CASE e = d
    BY <1>1, <1>5, <2>1, <2>2, SweepKept
  <2>3. CASE e # d
    BY <1>2, <2>1, <2>3 DEF Apart
  <2> QED BY <2>2, <2>3
<1>6. CASE RunCanary(d)
  <2>1. pc[d] = "run" /\ strategy[d] = "docker_compose"
    BY <1>6 DEF RunCanary, At
  <2>2. pc'[d] \in {"waiting", "abort"}
    <3>1. goes_on(d, "waiting", stages[d], 0) \/ goes_on(d, "abort", stages[d], 0)
      BY <1>6, Zenon DEF RunCanary
    <3> QED BY <3>1, Went
  <2>3. CASE n \in Containers /\ canary'[n] = canary[n]
    <3>1. canary[n].id \in Deploys => canary[n].id # d
      BY <1>4, <2>1, <2>3 DEF Held
    <3> QED BY <1>2, <1>4, <1>5, <2>3, <3>1 DEF Apart
  <2>4. CASE ~(n \in Containers /\ canary'[n] = canary[n])
    <3>1. n = CanaryName[d] /\ canary'[n].id = d
      BY <1>6, <2>4, RunMakes DEF Containers
    <3> QED BY <1>2, <1>3, <2>1, <2>2, <3>1 DEF Held
  <2> QED BY <2>3, <2>4
<1>7. CASE ~RunCanary(d)
  <2>1. n \in Containers /\ canary'[n] = canary[n]
    BY <1>7, Removes
  <2>2. CASE canary[n].id \in Deploys \ {d}
    BY <1>2, <1>3, <1>4, <2>1, <2>2 DEF Apart
  <2>3. CASE canary[n].id = d
    <3>1. n = CanaryName[d] /\ strategy[d] = "docker_compose" /\ pc[d] \in Held
      BY <1>4, <2>1, <2>3
    <3>2. ~cleanup_canary_strict(CanaryName[d])
      BY <1>1, <3>1, StrictCleanup DEF HostInv
    <3>3. pc'[d] \in Held
      BY <3>1, <3>2, HeldStep
    <3> QED BY <1>2, <1>3, <2>1, <2>3, <3>1, <3>3
  <2>4. CASE canary[n].id \notin Deploys
    BY <1>2, <1>5, <2>1, <2>4
  <2> QED BY <2>2, <2>3, <2>4
<1> QED BY <1>6, <1>7

LEMMA OwnerNext ==
  ASSUME ContextInv, HostInv, CanaryHasOwner, [StrategiesNext]_strategyVars
  PROVE  CanaryHasOwner'
<1>1. CASE DockerStep
  <2>1. UNCHANGED <<strategy, pc, faults, sweep>>
    BY <1>1, DockerFrame DEF contextVars
  <2>2. Containers' = Containers /\ \A n \in Containers : canary'[n].id = canary[n].id
    BY <1>1, DockerCanaries
  <2> QED BY <2>1, <2>2 DEF CanaryHasOwner
<1>2. CASE UNCHANGED strategyVars
  <2>1. UNCHANGED <<strategy, pc, faults, sweep, canary>>
    BY <1>2 DEF strategyVars, contextVars, composeVars
  <2> QED BY <2>1 DEF CanaryHasOwner, Containers
<1> QED BY <1>1, <1>2, OwnerStep DEF StrategiesNext, StepOf, DockerStep

LEMMA OwnerInit == StrategiesInit => CanaryHasOwner
<1> SUFFICES ASSUME StrategiesInit, NEW n \in Containers
             PROVE  canary[n].id = Old /\ \A d \in Deploys : pc[d] = "begin"
  BY ComposeAssumption DEF CanaryHasOwner
<1>1. canary[n] = Container(Old, OldImage, leftover)
  BY DEF StrategiesInit, ComposeInit, Containers
<1> QED BY <1>1 DEF StrategiesInit, ContextInit, Container

\* No canary survives: once every deployment and every sweep has ended and no
\* command failed by itself, no container named deploy-canary is left, not
\* even one an earlier agent had left, whatever the number of deployments and
\* however their sweeps, checks and timeouts interleave.
THEOREM CanariesAreRemoved == StrategiesSpec => []NoCanaryLeftBehind
<1>1. ContextInv /\ HostInv /\ CanaryHasOwner => NoCanaryLeftBehind
  <2> SUFFICES ASSUME HostInv, CanaryHasOwner, Quiet, faults = MaxFaults,
                      NEW d \in Deploys, strategy[d] = "docker_compose", NEW n \in Containers
               PROVE  FALSE
    BY DEF NoCanaryLeftBehind
  <2>1. canary[n].id \in Deploys \cup {Old}
    BY CanaryTyped DEF HostInv
  <2> QED BY <2>1 DEF CanaryHasOwner, Held, Quiet
<1> QED BY <1>1, BothInvariant, OwnerInit, OwnerNext, PTL DEF StrategiesSpec

-------------------------------------------------------------------------------
(* A deployment that has Docker to itself                                  *)

\* What a step does about the canary as the deployment goes from one place of
\* its strategy to the next.
LEMMA ComposeMoves ==
  ASSUME ContextInv, HostInv, NEW d \in Deploys, StepOf(d), strategy[d] = "docker_compose"
  PROVE  LET name == CanaryName[d]
         IN  \/ pc'[d] = pc[d] /\ (canary' = canary \/ SweepCanary(d))
             \/ pc'[d] \in Over \cup {"monitor", "watching", "abort"}
             \/ pc'[d] \in Early /\ pc[d] \in Early /\ ~RunCanary(d)
             \/ /\ RunCanary(d) /\ pc'[d] = "waiting" /\ PortHolders = {}
                /\ canary[name] = None /\ canary' # canary
             \/ pc[d] = "waiting" /\ pc'[d] = "curl" /\ canary' = canary
             \/ /\ pc[d] = "curl" /\ pc'[d] = "logs" /\ canary' = canary
                /\ \E n \in PortHolders : Serves(canary[n].image)
             \/ /\ pc[d] = "logs" /\ pc'[d] = "release" /\ canary' = canary
                /\ logsOk'[d] = FALSE \/ ~check_logs_for_fatal_patterns(name)
             \/ pc[d] = "release" /\ pc'[d] = "healthy"
             \/ pc[d] = "healthy" /\ pc'[d] = "swap"
<1> DEFINE name == CanaryName[d]
<1>1. CASE Aside(d)
  <2>1. pc'[d] = pc[d] \/ pc'[d] = "done"
    BY <1>1, AsideKeeps
  <2>2. canary' = canary \/ SweepCanary(d)
    BY <1>1 DEF Aside, ContextStep, composeVars
  <2> QED BY <2>1, <2>2 DEF Over
<1>2. CASE run_git_pull(d) \/ run_docker_pull(d)
  BY <1>2 DEF run_git_pull, run_docker_pull, hostVars
<1>3. CASE cleanup_stale_canaries(d) \/ StartPulls(d) \/ PullsDone(d) \/ EnsureClean(d)
  <2>1. pc[d] \in Early /\ ~RunCanary(d)
    BY <1>3 DEF cleanup_stale_canaries, StartPulls, PullsDone, EnsureClean, RunCanary, At, Early,
       Unpulled
  <2>2. \/ \E place \in Early : \E st, code : goes_on(d, place, st, code)
        \/ \E status, code, st : finish(d, status, code, st)
    BY <1>3, Zenon DEF cleanup_stale_canaries, StartPulls, PullsDone, EnsureClean, Early, Unpulled
  <2>3. pc'[d] \in Early \/ pc'[d] \in Over
    BY <2>2, Went, FinishedAs DEF Over
  <2> QED BY <2>1, <2>3
<1>4. CASE RunCanary(d)
  <2>1. \/ /\ canary[name] = None /\ PortHolders = {}
           /\ canary' = [canary EXCEPT ![name] = Container(d, local[Tag[d]], "running")]
           /\ goes_on(d, "waiting", stages[d], 0)
        \/ goes_on(d, "abort", stages[d], 0)
    BY <1>4, Zenon DEF RunCanary
  <2>2. canary[name] = None /\ canary' = [canary EXCEPT ![name] = Container(d, local[Tag[d]], "running")]
          => canary' # canary
    <3>1. local[Tag[d]] \in Images
      BY <1>4, ImageHere DEF RunCanary, Checks
    <3>2. Container(d, local[Tag[d]], "running") # None
      BY <3>1, MadeTyped, ComposeAssumption
    <3>3. name \in Names
      BY DEF Names
    <3> QED BY <3>2, <3>3 DEF HostInv, HostTyped
  <2> QED BY <1>4, <2>1, <2>2, Went
<1>5. CASE PollCanary(d)
  <2>1. pc[d] = "waiting" /\ canary' = canary
    BY <1>5 DEF PollCanary, At, composeVars
  <2>2. goes_on(d, "abort", stages[d], 0) \/ goes_on(d, "curl", stages[d], 0)
    BY <1>5, Zenon DEF PollCanary
  <2> QED BY <2>1, <2>2, Went
<1>6. CASE CheckHttp(d)
  <2>1. pc[d] = "curl" /\ canary' = canary
    BY <1>6 DEF CheckHttp, At, composeVars
  <2>2. \/ goes_on(d, "abort", stages[d], 0)
        \/ goes_on(d, "logs", stages[d], 0) /\ \E n \in PortHolders : Serves(canary[n].image)
    BY <1>6, Zenon DEF CheckHttp
  <2> QED BY <2>1, <2>2, Went
<1>7. CASE CheckLogs(d)
  <2>1. pc[d] = "logs" /\ canary' = canary
    BY <1>7 DEF CheckLogs, At, hostVars
  <2>2. PICK ok \in BOOLEAN :
          /\ logsOk' = [logsOk EXCEPT ![d] = ok]
          /\ goes_on(d, IF ok /\ check_logs_for_fatal_patterns(name) THEN "abort" ELSE "release",
                     stages[d], 0)
    BY <1>7, Zenon DEF CheckLogs
  <2>3. pc'[d] = IF ok /\ check_logs_for_fatal_patterns(name) THEN "abort" ELSE "release"
    BY <2>2, Went
  <2>4. logsOk'[d] = ok
    BY <2>2 DEF HostInv, HostTyped
  <2> QED BY <2>1, <2>3, <2>4
<1>8. CASE AbortCanary(d) \/ ComposeUp(d) \/ CheckService(d) \/ MonitorEnds(d)
  <2>1. \/ \E st, code : goes_on(d, "monitor", st, code) \/ goes_on(d, "watching", st, code)
        \/ \E status, code, st : finish(d, status, code, st)
    BY <1>8, Zenon DEF AbortCanary, ComposeUp, CheckService, MonitorEnds, EndMonitor
  <2>2. pc'[d] \in Over \cup {"monitor", "watching"}
    BY <2>1, Went, FinishedAs DEF Over
  <2> QED BY <2>2
<1>9. CASE ReleaseCanary(d) \/ ComposePull(d)
  BY <1>9, Went DEF ReleaseCanary, ComposePull, At
<1> QED BY <1>1, <1>2, <1>3, <1>4, <1>5, <1>6, <1>7, <1>8, <1>9, StepKinds DEF ComposeStep

\* A compose deployment's image here is one it had or the registry's.
LEMMA ComposeLocal ==
  ASSUME NEW d \in Deploys, HostInv, StepOf(d), strategy[d] = "docker_compose",
         ContextInv
  PROVE  local'[Tag[d]] \in {local[Tag[d]], registry[Tag[d]]}
<1>1. CASE run_docker_pull(d) \/ ComposePull(d)
  BY <1>1, TagTyped DEF run_docker_pull, ComposePull, HostInv, HostTyped
<1>2. CASE Aside(d)
  BY <1>2, AsideKeeps
<1>3. CASE ComposeStep(d) /\ ~run_docker_pull(d) /\ ~ComposePull(d)
  <2>1. local' = local
    BY <1>3, Zenon DEF ComposeStep, cleanup_stale_canaries, StartPulls, run_git_pull,
       PullsDone, EnsureClean, RunCanary, PollCanary, CheckHttp, CheckLogs, AbortCanary,
       ReleaseCanary, ComposeUp, CheckService, MonitorEnds, composeVars, hostVars
  <2> QED BY <2>1
<1> QED BY <1>1, <1>2, <1>3, StepKinds

\* A sweep of older containers removes no other.
LEMMA SweepOfOld ==
  ASSUME HostInv, NEW d \in Deploys, SweepCanary(d), sweep[d] \subseteq {Old},
         NEW n \in Containers, canary[n].id # Old
  PROVE  n \in Containers' /\ canary'[n] = canary[n]
<1>1. n \in Names /\ canary[n] # None
  BY DEF Containers
<1>2. PICK ok \in BOOLEAN :
        canary' = [m \in Names |-> IF canary[m] # None /\ canary[m].id = Old /\ ok
                                   THEN None ELSE canary[m]]
  BY DEF SweepCanary
<1> QED BY <1>1, <1>2 DEF Containers

SoloInv == \A d \in Deploys : SoloCheck(d)

\* Another deployment's step, and Docker's, leave all of it alone.
LEMMA SoloOther ==
  ASSUME ContextInv, HostInv, NEW d \in Deploys, strategy[d] = "docker_compose", Solo(d),
         SoloCanary(d), NEW e \in Deploys, e # d, StepOf(e)
  PROVE  /\ UNCHANGED <<strategy, registry, local, live, canary, sweep, leftover, published>>
         /\ Apart(d)
<1>1. ~UsesDocker(e)
  BY DEF Solo
<1>2. sweep[e] = {}
  BY DEF SoloCanary
<1>3. strategy[e] # "docker_build" /\ strategy[e] # "docker_compose"
  BY <1>1 DEF UsesDocker
<1> QED BY <1>1, <1>2, <1>3, DockerUse, StepApart

\* Which step learns how the pull and the reading of the logs have ended.
LEMMA ResultUse ==
  ASSUME ContextInv, HostInv, NEW d \in Deploys, StepOf(d), strategy[d] = "docker_compose"
  PROVE  /\ pullOk' = pullOk \/ run_docker_pull(d)
         /\ logsOk' = logsOk \/ CheckLogs(d)
<1>1. CASE Aside(d)
  BY <1>1, AsideKeeps DEF resultVars
<1>2. CASE ComposeStep(d)
  <2>1. pullOk' = pullOk \/ run_docker_pull(d)
    BY <1>2, Zenon DEF ComposeStep, cleanup_stale_canaries, StartPulls, run_git_pull, PullsDone,
       EnsureClean, RunCanary, PollCanary, CheckHttp, CheckLogs, AbortCanary, ReleaseCanary,
       ComposePull, ComposeUp, CheckService, MonitorEnds, composeVars, resultVars
  <2>2. logsOk' = logsOk \/ CheckLogs(d)
    BY <1>2, Zenon DEF ComposeStep, cleanup_stale_canaries, StartPulls, run_git_pull,
       run_docker_pull, PullsDone, EnsureClean, RunCanary, PollCanary, CheckHttp, AbortCanary,
       ReleaseCanary, ComposePull, ComposeUp, CheckService, MonitorEnds, composeVars, resultVars
  <2> QED BY <2>1, <2>2
<1> QED BY <1>1, <1>2, StepKinds

\* What docker pull leaves.
LEMMA PullResult ==
  ASSUME HostInv, NEW d \in Deploys, run_docker_pull(d)
  PROVE  /\ pullOk'[d] \in BOOLEAN /\ (pullOk'[d] = FALSE => Fault)
         /\ pullOk'[d] = TRUE => local'[Tag[d]] = registry[Tag[d]]
         /\ pc[d] = "pulling" /\ pc' = pc
<1>1. PICK ok \in BOOLEAN :
        /\ Ends(ok)
        /\ pullOk' = [pullOk EXCEPT ![d] = ok]
        /\ local' = IF ok THEN [local EXCEPT ![Tag[d]] = registry[Tag[d]]] ELSE local
  BY Zenon DEF run_docker_pull
<1>2. pullOk'[d] = ok
  BY <1>1 DEF HostInv, HostTyped
<1>3. ok => local'[Tag[d]] = registry[Tag[d]]
  BY <1>1, TagTyped DEF HostInv, HostTyped
<1>4. ok = FALSE => Fault
  BY <1>1 DEF Ends
<1> QED BY <1>2, <1>3, <1>4 DEF run_docker_pull, At

\* The pulls are over when both have ended and docker's has succeeded.
LEMMA PullsLeave ==
  ASSUME ContextInv, HostInv, NEW d \in Deploys, StepOf(d), strategy[d] = "docker_compose",
         pc[d] \in Unpulled, pc'[d] \notin Unpulled
  PROVE  pullOk[d] # None /\ pullOk' = pullOk
<1>1. CASE Aside(d)
  BY <1>1, AsideKeeps DEF Unpulled
<1>2. CASE ComposeStep(d)
  <2>1. CASE PullsDone(d)
    BY <2>1 DEF PullsDone, composeVars
  <2>2. CASE cleanup_stale_canaries(d) \/ StartPulls(d)
    <3>1. pc'[d] \in {"swept", "pulling"}
      BY <2>2, Went DEF cleanup_stale_canaries, StartPulls
    <3> QED BY <3>1 DEF Unpulled
  <2>3. CASE run_git_pull(d) \/ run_docker_pull(d)
    BY <2>3 DEF run_git_pull, run_docker_pull
  <2> QED BY <1>2, <2>1, <2>2, <2>3 DEF ComposeStep, EnsureClean, RunCanary, PollCanary, CheckHttp,
       CheckLogs, AbortCanary, ReleaseCanary, ComposePull, ComposeUp, CheckService, MonitorEnds, At,
       Unpulled
<1> QED BY <1>1, <1>2, StepKinds

\* Once it has been pulled, the image here is the registry's.
LEMMA ImagePulled ==
  ASSUME HostInv, NEW d \in Deploys, strategy[d] = "docker_compose", pc[d] \in Supplies,
         SoloImages(d)
  PROVE  local[Tag[d]] = registry[Tag[d]]
BY DEF HostInv, Supplied, Supplies, SoloImages

\* A deployment that is alone keeps the image it pulled.
LEMMA SoloImagesStep ==
  ASSUME ContextInv, HostInv, NEW d \in Deploys, strategy[d] = "docker_compose", SwappedBy(d),
         SoloImages(d), SoloCanary(d), StepOf(d)
  PROVE  SoloImages(d)'
<1>1. registry' = registry
  BY DockerUse
<1>2. pullOk'[d] = TRUE => local'[Tag[d]] = registry[Tag[d]]
  <2>1. CASE run_docker_pull(d)
    BY <2>1, PullResult
  <2>2. CASE pullOk' = pullOk
    BY <2>2, ComposeLocal DEF SoloImages
  <2> QED BY <2>1, <2>2, ResultUse
<1>3. ASSUME faults' = MaxFaults
      PROVE  pullOk'[d] # FALSE /\ (pc'[d] \notin Unpulled => pullOk'[d] = TRUE)
  <2>1. faults = MaxFaults /\ ~Fault
    BY <1>3, StepSpends
  <2>2. pullOk[d] # FALSE /\ (pc[d] \notin Unpulled => pullOk[d] = TRUE)
    BY <2>1 DEF SoloImages
  <2>3. CASE run_docker_pull(d)
    BY <2>1, <2>3, PullResult DEF Unpulled
  <2>4. CASE pullOk' = pullOk
    <3>1. pullOk[d] \in BOOLEAN \cup {None}
      BY DEF HostInv, HostTyped
    <3> QED BY <2>2, <2>4, <3>1, PullsLeave
  <2> QED BY <2>3, <2>4, ResultUse
<1>4. ASSUME pc'[d] = "logs" PROVE Serves(registry[Tag[d]])
  <2>1. CASE pc[d] = "logs"
    BY <2>1 DEF SoloImages
  <2>2. CASE pc[d] # "logs"
    <3>1. pc[d] = "curl" /\ \E n \in PortHolders : Serves(canary[n].image)
      BY <1>4, <2>2, ComposeMoves DEF Over, Early, Unpulled
    <3>2. CanaryName[d] \in Containers /\ canary[CanaryName[d]].id = d
          /\ PortHolders \subseteq {CanaryName[d]}
      BY <3>1 DEF SoloCanary, Watched
    <3>3. canary[CanaryName[d]].image = registry[Tag[d]]
      BY <3>2 DEF SoloCanary
    <3> QED BY <3>1, <3>2, <3>3
  <2> QED BY <2>1, <2>2
<1>5. ASSUME pc'[d] \in {"release", "healthy", "swap"} PROVE Verified(d, registry[Tag[d]])'
  <2>1. CASE pc[d] \in {"release", "healthy", "swap"}
    <3>1. logsOk' = logsOk
      BY <2>1, ResultUse DEF CheckLogs, At
    <3> QED BY <1>1, <2>1, <3>1 DEF SoloImages, Verified
  <2>2. CASE pc[d] \notin {"release", "healthy", "swap"}
    <3>1. pc[d] = "logs" /\ (logsOk'[d] = FALSE \/ ~check_logs_for_fatal_patterns(CanaryName[d]))
      BY <1>5, <2>2, ComposeMoves DEF Over, Early, Unpulled
    <3>2. CanaryName[d] \in Containers /\ canary[CanaryName[d]].id = d
      BY <3>1 DEF SoloCanary, Watched
    <3>3. canary[CanaryName[d]].image = registry[Tag[d]]
      BY <3>2 DEF SoloCanary
    <3>4. registry[Tag[d]] # "fatal" \/ logsOk'[d] = FALSE
      BY <3>1, <3>2, <3>3 DEF check_logs_for_fatal_patterns, Containers
    <3>5. Serves(registry[Tag[d]])
      BY <3>1 DEF SoloImages
    <3> QED BY <1>1, <3>4, <3>5 DEF Verified
  <2> QED BY <2>1, <2>2
<1>6. ASSUME NEW t \in Tags, live'[t] # None, live'[t].by = d
      PROVE  Serves(live'[t].image) /\ (live'[t].image = "fatal" => logsOk'[d] = FALSE)
  <2>1. CASE live'[t] = live[t]
    <3>1. pc[d] \in {"monitor", "watching"} \cup Over
      BY <1>6, <2>1 DEF SwappedBy
    <3>2. logsOk' = logsOk
      BY <3>1, ResultUse DEF CheckLogs, At, Over
    <3>3. Verified(d, live[t].image)
      BY <1>6, <2>1 DEF SoloImages
    <3> QED BY <2>1, <3>2, <3>3 DEF Verified
  <2>2. CASE live'[t] # live[t]
    <3>1. ComposeUp(d) /\ live'[t].image = local[Tag[d]]
      BY <1>6, <2>2, ServiceOf
    <3>2. pc[d] = "swap"
      BY <3>1 DEF ComposeUp, At
    <3>3. logsOk' = logsOk
      BY <3>2, ResultUse DEF CheckLogs, At
    <3>4. live'[t].image = registry[Tag[d]]
      BY <3>1, <3>2, ImagePulled DEF Supplies
    <3>5. Verified(d, registry[Tag[d]])
      BY <3>2 DEF SoloImages
    <3> QED BY <3>3, <3>4, <3>5 DEF Verified
  <2> QED BY <2>1, <2>2
<1> QED BY <1>1, <1>2, <1>3, <1>4, <1>5, <1>6 DEF SoloImages, Verified

\* ... and its canary; its sweep is after older containers.
LEMMA SoloCanaryStep ==
  ASSUME ContextInv, HostInv, NEW d \in Deploys, strategy[d] = "docker_compose",
         SoloImages(d), SoloCanary(d), StepOf(d)
  PROVE  SoloCanary(d)'
<1> DEFINE name == CanaryName[d]
<1>1. registry' = registry
  BY DockerUse
<1>2. /\ \A n \in Containers : n \in Names /\ canary[n].id \in {Old, d}
      /\ Old # d
  BY CanaryTyped, ComposeAssumption DEF SoloCanary, HostInv
<1>3. sweep'[d] \subseteq {Old} /\ \A e \in Deploys \ {d} : sweep'[e] = {}
  <2>1. \A e \in Deploys \ {d} : sweep'[e] = sweep[e]
    BY StepApart DEF HostInv, Apart
  <2>2. CASE sweep' = sweep
    BY <2>2 DEF SoloCanary
  <2>3. CASE SweepCanary(d)
    <3>1. sweep'[d] \subseteq sweep[d]
      BY <2>3 DEF SweepCanary, HostInv, HostTyped
    <3> QED BY <2>1, <3>1 DEF SoloCanary
  <2>4. CASE cleanup_stale_canaries(d)
    <3>1. pc[d] \in Early
      BY <2>4 DEF cleanup_stale_canaries, At, Early, Unpulled
    <3>2. { canary[n].id : n \in Containers } \subseteq {Old}
      BY <3>1 DEF SoloCanary
    <3>3. sweep'[d] \in { {}, { canary[n].id : n \in Containers } }
      BY <2>4 DEF cleanup_stale_canaries, HostInv, HostTyped
    <3> QED BY <2>1, <3>2, <3>3 DEF SoloCanary
  <2> QED BY <2>2, <2>3, <2>4, SweepUse
<1>4. CASE RunCanary(d) /\ canary' # canary
  <2>1. PICK status \in {"created", "running"} :
          /\ status = "running" <=> PortHolders = {}
          /\ canary'[name].id = d /\ canary'[name].image = local[Tag[d]]
          /\ Containers' = Containers \cup {name}
          /\ canary[name] = None
          /\ \A n \in Containers : canary'[n] = canary[n]
    BY <1>4, RunMakes
  <2>2. pc[d] = "run" /\ At(d, "docker_compose", "run")
    BY <1>4 DEF RunCanary, At
  <2>3. local[Tag[d]] = registry[Tag[d]]
    BY <2>2, ImagePulled DEF Supplies, Checks
  <2>4. \A n \in Containers : canary[n].id = Old
    BY <2>2 DEF SoloCanary, Early, Unpulled
  <2>5. \A n \in Containers' : IF n = name THEN canary'[n].id = d /\ canary'[n].image = registry[Tag[d]]
                               ELSE canary'[n].id = Old
    BY <2>1, <2>3, <2>4
  <2>6. pc'[d] \in {"waiting", "abort"}
    <3>1. goes_on(d, "waiting", stages[d], 0) \/ goes_on(d, "abort", stages[d], 0)
      BY <1>4, Zenon DEF RunCanary
    <3> QED BY <3>1, Went
  <2>7. pc'[d] = "waiting" => PortHolders = {}
    BY <2>6, <2>2, ComposeMoves DEF Over, Early, Unpulled
  <2>8. PortHolders = {} => PortHolders' \subseteq {name}
    BY <2>1 DEF PortHolders
  <2> QED BY <1>1, <1>2, <1>3, <2>1, <2>5, <2>6, <2>7, <2>8 DEF SoloCanary, Early, Unpulled, Watched
<1>5. CASE ~(RunCanary(d) /\ canary' # canary)
  <2>1. /\ Containers' \subseteq Containers
        /\ \A n \in Containers' : canary'[n] = canary[n]
        /\ PortHolders' \subseteq PortHolders
    <3>1. CASE canary' = canary
      BY <3>1 DEF Containers, PortHolders
    <3> QED BY <1>5, <3>1, Removes
  <2>2. /\ \A n \in Containers' :
             canary'[n].id = d => n = name /\ canary'[n].image = registry[Tag[d]]
        /\ \A n \in Containers' : canary'[n].id \in {Old, d}
    BY <2>1 DEF SoloCanary
  <2>3. pc'[d] \in Early => \A n \in Containers' : canary'[n].id = Old
    <3>1. pc'[d] \in Early => pc[d] \in Early
      BY ComposeMoves DEF Over, Early, Unpulled
    <3> QED BY <2>1, <3>1 DEF SoloCanary
  <2>4. ASSUME pc'[d] \in Watched
        PROVE  name \in Containers' /\ canary'[name].id = d /\ PortHolders' \subseteq {name}
    <3>1. pc[d] \in Watched /\ (canary' = canary \/ SweepCanary(d))
      BY <1>5, <2>4, ComposeMoves DEF Over, Early, Unpulled, Watched
    <3>2. name \in Containers /\ canary[name].id = d /\ PortHolders \subseteq {name}
      BY <3>1 DEF SoloCanary
    <3>3. name \in Containers'
      <4>1. CASE canary' = canary
        BY <3>2, <4>1 DEF Containers
      <4>2. CASE SweepCanary(d)
        BY <1>2, <3>2, <4>2, SweepOfOld DEF SoloCanary
      <4> QED BY <3>1, <4>1, <4>2
    <3> QED BY <2>1, <3>2, <3>3
  <2> QED BY <1>1, <1>3, <2>2, <2>3, <2>4 DEF SoloCanary
<1> QED BY <1>4, <1>5

LEMMA SoloNext ==
  ASSUME ContextInv, HostInv, SwappedInv, SoloInv, [StrategiesNext]_strategyVars PROVE SoloInv'
<1> SUFFICES ASSUME NEW d \in Deploys, Alone(d)'
             PROVE  SoloImages(d)' /\ SoloCanary(d)'
  BY DEF SoloInv, SoloCheck
<1>1. ASSUME strategy' = strategy, published \subseteq published'
      PROVE  strategy[d] = "docker_compose" /\ Solo(d) /\ SoloImages(d) /\ SoloCanary(d)
             /\ Tag[d] \notin published'
  BY <1>1, SoloKept DEF SoloInv, SoloCheck, Alone
<1>2. CASE StepOf(d)
  <2>1. strategy' = strategy /\ published' = published
    BY <1>2, StrategyKept, DockerUse
  <2> QED BY <1>1, <1>2, <2>1, SoloImagesStep, SoloCanaryStep DEF SwappedInv
<1>3. ASSUME NEW e \in Deploys, e # d, StepOf(e) PROVE SoloImages(d)' /\ SoloCanary(d)'
  <2>1. strategy' = strategy /\ published' = published
    BY <1>3, StrategyKept, DockerUse
  <2>2. strategy[d] = "docker_compose" /\ Solo(d) /\ SoloImages(d) /\ SoloCanary(d)
    BY <1>1, <2>1
  <2>3. /\ UNCHANGED <<registry, local, live, canary, sweep>> /\ pc'[d] = pc[d]
        /\ pullOk'[d] = pullOk[d] /\ logsOk'[d] = logsOk[d]
    BY <1>3, <2>2, SoloOther DEF Apart
  <2>4. faults' = MaxFaults => faults = MaxFaults
    BY <1>3, StepSpends
  <2> QED BY <2>2, <2>3, <2>4 DEF SoloImages, SoloCanary, Containers, PortHolders, Verified
<1>4. CASE DockerStep
  <2>1. UNCHANGED <<strategy, pc, faults, local, sweep, pullOk, logsOk>>
        /\ published \subseteq published'
    BY <1>4, DockerFrame DEF contextVars, resultVars
  <2>2. SoloImages(d) /\ SoloCanary(d) /\ registry'[Tag[d]] = registry[Tag[d]]
    BY <1>1, <1>4, <2>1, DockerFrame, TagTyped
  <2>3. SoloImages(d)'
    BY <1>4, <2>1, <2>2, DockerServices DEF SoloImages, Verified
  <2>4. SoloCanary(d)'
    BY <1>4, <2>1, <2>2, DockerCanaries DEF SoloCanary
  <2> QED BY <2>3, <2>4
<1>5. CASE UNCHANGED strategyVars
  <2>1. UNCHANGED <<strategy, pc, faults, published, registry, local, live, sweep, canary, pullOk,
                    logsOk>>
    BY <1>5 DEF strategyVars, contextVars, composeVars
  <2>2. SoloImages(d) /\ SoloCanary(d)
    BY <1>1, <2>1
  <2> QED BY <2>1, <2>2 DEF SoloImages, SoloCanary, Containers, PortHolders, Verified
<1> QED BY <1>2, <1>3, <1>4, <1>5 DEF StrategiesNext, StepOf, DockerStep

LEMMA SoloInit == StrategiesInit => SoloInv
<1> SUFFICES ASSUME StrategiesInit, NEW d \in Deploys PROVE SoloImages(d) /\ SoloCanary(d)
  BY DEF SoloInv, SoloCheck
<1>1. ASSUME NEW n \in Containers PROVE canary[n].id = Old
  BY <1>1 DEF StrategiesInit, ComposeInit, Containers, Container
<1>2. pc[d] = "begin" /\ sweep = [e \in Deploys |-> {}] /\ pullOk[d] = None
  BY DEF StrategiesInit, ContextInit, ComposeInit
<1>3. ASSUME NEW t \in Tags, live[t].by = d PROVE FALSE
  BY <1>3, DeployContextAssumption DEF StrategiesInit, ComposeInit
<1>4. Old # d /\ None \notin BOOLEAN
  BY ComposeAssumption
<1>5. SoloImages(d)
  BY <1>2, <1>3, <1>4 DEF SoloImages, Unpulled
<1>6. SoloCanary(d)
  BY <1>1, <1>2, <1>4 DEF SoloCanary, Early, Unpulled, Watched
<1> QED BY <1>5, <1>6

\* "If unhealthy, abort and keep old container running": a compose deployment
\* that failed before its compose up has left the service alone, with any
\* deployments beside it; and one beside which nobody deploys or pushes an image
\* puts into service only one that comes up and answers, and that logs nothing
\* fatal unless docker logs could not be run.
THEOREM SwapsAreVerified == StrategiesSpec => []SoloSwapIsVerified
<1>1. ContextInv /\ SwappedInv /\ SoloInv => SoloSwapIsVerified
  <2> SUFFICES ASSUME ContextInv, SwappedInv, SoloInv,
                      NEW d \in Deploys, strategy[d] = "docker_compose"
               PROVE  /\ d \in Finished /\ outcome[d].status = "failed"
                           /\ outcome[d].stages["compose_up"] = "pending"
                           => live[Tag[d]] = None \/ live[Tag[d]].by # d
                      /\ Solo(d) /\ Tag[d] \notin published
                           /\ live[Tag[d]] # None /\ live[Tag[d]].by = d
                           => Verified(d, live[Tag[d]].image)
    BY DEF SoloSwapIsVerified, Verified
  <2>1. Solo(d) /\ Tag[d] \notin published /\ live[Tag[d]] # None /\ live[Tag[d]].by = d
          => Verified(d, live[Tag[d]].image)
    BY TagTyped DEF SoloInv, SoloCheck, SoloImages, Alone
  <2>2. ASSUME d \in Finished, outcome[d].stages["compose_up"] = "pending",
               live[Tag[d]] # None, live[Tag[d]].by = d
        PROVE  FALSE
    <3>1. pc[d] \in Over /\ outcome[d].stages = stages[d]
      BY <2>2, ContextFacts DEF Finished, Deployment
    <3> QED BY <2>2, <3>1, TagTyped DEF SwappedInv, SwappedBy, Over
  <2> QED BY <2>1, <2>2
<1> QED BY <1>1, BothInvariant, SwappedInit, SwappedNext, SoloInit, SoloNext, PTL DEF StrategiesSpec

-------------------------------------------------------------------------------
(* And that nothing goes wrong for                                         *)

GoodInv == \A d \in Deploys : SoloGood(d)

\* A cancelled token stays cancelled.
LEMMA TokenStays ==
  ASSUME ContextInv, NEW d \in Deploys, StepOf(d), ~cancelled'[d]
  PROVE  ~cancelled[d]
<1>1. cancelled' = cancelled \/ spawn_timeout(d)
  <2>1. CASE ComposeStep(d)
    BY <2>1, Zenon DEF ComposeStep, cleanup_stale_canaries, StartPulls, run_git_pull,
       run_docker_pull, PullsDone, EnsureClean, RunCanary, PollCanary, CheckHttp, CheckLogs,
       AbortCanary, ReleaseCanary, ComposePull, ComposeUp, CheckService, MonitorEnds, EndMonitor,
       goes_on, finish
  <2>2. CASE BuildStep(d)
    BY <2>2, Zenon DEF BuildStep, BeginBuild, BuildGitPull, BuildGitFailed, TagOfCommit, SpawnBuild,
       BuildExits, BuildDrained, BuildCancelled, BeforePush, Push, BeforeLatest, TagLatest,
       PushLatest, goes_on, finish, finish_cancelled
  <2>3. CASE ScriptStep(d) \/ XiaojincutStep(d)
    BY <2>3, Zenon DEF ScriptStep, XiaojincutStep, BeginScript, ScriptGitPull, SpawnScript,
       ScriptExits, ScriptDrained, ScriptCancelled, CheckXiaojincut, RunXiaojincutTask,
       goes_on, finish
  <2>4. CASE SweepCanary(d) \/ ContextStep(d)
    BY <2>4 DEF SweepCanary, ContextStep, do_notify
  <2> QED BY <2>1, <2>2, <2>3, <2>4 DEF StepOf
<1>2. spawn_timeout(d) => cancelled'[d]
  BY DEF spawn_timeout, ContextInv, ContextTyped
<1> QED BY <1>1, <1>2

\* What was undisturbed until now is so before the step.
LEMMA WasUndisturbed ==
  ASSUME ContextInv, HostInv, NEW d \in Deploys, NEW e \in Deploys, StepOf(e), Undisturbed(d)'
  PROVE  Undisturbed(d) /\ Alone(d)' /\ faults = MaxFaults /\ ~Fault
<1>1. strategy' = strategy /\ strategy[d] = "docker_compose" /\ Solo(d) /\ Alone(d)'
  BY StrategyKept, SoloKept DEF Undisturbed, Alone
<1>2. faults = MaxFaults /\ ~Fault
  BY StepSpends DEF Undisturbed
<1>3. leftover' = leftover /\ published' = published
  BY DockerUse
<1>4. registry' = registry
  <2>1. strategy[e] # "docker_build"
    BY <1>1 DEF Solo, UsesDocker
  <2> QED BY <2>1, DockerUse
<1>5. ~cancelled[d]
  <2>1. CASE e = d
    BY <2>1, TokenStays DEF Undisturbed
  <2>2. CASE e # d
    BY <2>2, StepApart DEF Apart, Undisturbed
  <2> QED BY <2>1, <2>2
<1> QED BY <1>1, <1>2, <1>3, <1>4, <1>5 DEF Undisturbed, Alone, Healthy

\* A step that removes containers, or is none about them.
LEMMA GoodRest ==
  ASSUME ContextInv, HostInv, NEW d \in Deploys, GoesWell(d), StepOf(d), ~RunCanary(d),
         pc'[d] # "abort", pc'[d] \in Watched => pc[d] \in Watched,
         pc'[d] = "run" => CanaryName[d] \notin Containers',
         outcome'[d] # None => outcome'[d].status = "success",
         SoloCanary(d)'
  PROVE  GoesWell(d)'
<1> DEFINE name == CanaryName[d]
<1>1. /\ Containers' \subseteq Containers
      /\ \A n \in Containers' : canary'[n] = canary[n]
  BY Removes
<1>2. pc'[d] \in Watched => name \in Containers'
  BY DEF SoloCanary
<1> QED BY <1>1, <1>2 DEF GoesWell

\* The canary of a healthy image starts: nothing that runs is in its way.
LEMMA GoodStart ==
  ASSUME ContextInv, HostInv, NEW d \in Deploys, SoloImages(d), SoloCanary(d), GoesWell(d),
         Undisturbed(d), RunCanary(d), ~Fault
  PROVE  GoesWell(d)'
<1> DEFINE name == CanaryName[d]
<1>1. pc[d] = "run" /\ strategy[d] = "docker_compose" /\ outcome[d] = None
  <2>1. pc[d] = "run" /\ strategy[d] = "docker_compose"
    BY DEF RunCanary, At
  <2> QED BY <2>1, ContextFacts DEF Over
<1>2. \A n \in Containers : canary[n].status = "exited"
  <2>1. d # Old
    BY ComposeAssumption
  <2> QED BY <1>1, <2>1 DEF SoloCanary, GoesWell, Early
<1>3. name \in Names /\ canary[name] = None /\ PortHolders = {}
  <2>1. name \in Names
    BY DEF Names
  <2>2. name \notin Containers
    BY <1>1 DEF GoesWell
  <2> QED BY <1>2, <2>1, <2>2 DEF Containers, PortHolders
<1>4. goes_on(d, "waiting", stages[d], 0)
      /\ canary' = [canary EXCEPT ![name] = Container(d, local[Tag[d]], "running")]
  BY <1>3, Zenon DEF RunCanary
<1>5. pc'[d] = "waiting" /\ outcome'[d] = None
  BY <1>1, <1>4, Went
<1>6. local[Tag[d]] = registry[Tag[d]]
  BY <1>1, ImagePulled DEF Supplies, Checks
<1>7. canary' # canary
  <2>1. local[Tag[d]] \in Images
    BY ImageHere DEF RunCanary, Checks
  <2>2. Container(d, local[Tag[d]], "running") # None
    BY <2>1, MadeTyped, ComposeAssumption
  <2> QED BY <1>3, <1>4, <2>2 DEF HostInv, HostTyped
<1>8. PICK status \in {"created", "running"} :
        /\ status = "running" <=> PortHolders = {}
        /\ canary'[name] = Container(d, local[Tag[d]], status)
        /\ canary'[name].id = d
        /\ canary'[name].status = status /\ canary'[name].health # "unhealthy"
        /\ Containers' = Containers \cup {name}
        /\ \A n \in Containers : canary'[n] = canary[n]
  BY <1>7, RunMakes
<1>9. canary'[name].health = "none" => InspectsBare
  <2>1. canary'[name].health = IF registry[Tag[d]] \in Bare THEN "none" ELSE "starting"
    BY <1>6, <1>8 DEF Container
  <2> QED BY <2>1 DEF Undisturbed, Healthy, Bare
<1>10. \A n \in Containers' : canary'[n].id = d \/ canary'[n].status = "exited"
  BY <1>2, <1>8
<1>11. canary'[name].status = "running"
  BY <1>3, <1>8
<1> QED BY <1>5, <1>8, <1>9, <1>10, <1>11 DEF GoesWell

\* The places of a deployment whose checks all succeed.
LEMMA GoodCompose ==
  ASSUME ContextInv, HostInv, NEW d \in Deploys, SoloImages(d), SoloCanary(d), GoesWell(d),
         Undisturbed(d), ComposeStep(d), UNCHANGED buildVars, ~Fault, SoloCanary(d)'
  PROVE  GoesWell(d)'
<1> DEFINE name == CanaryName[d]
           To(place) == \E st, code : goes_on(d, place, st, code)
           Succeeds == \E code, st : finish(d, "success", code, st)
<1>1. strategy[d] = "docker_compose" /\ StepOf(d) /\ ~cancelled[d] /\ faults = MaxFaults
  BY DEF Undisturbed, Alone, StepOf
<1>2. pc[d] \notin Over /\ outcome[d] = None
  <2>1. pc[d] \notin Over
    BY DEF ComposeStep, cleanup_stale_canaries, StartPulls, run_git_pull, run_docker_pull,
       PullsDone, EnsureClean, RunCanary, PollCanary, CheckHttp, CheckLogs, AbortCanary,
       ReleaseCanary, ComposePull, ComposeUp, CheckService, MonitorEnds, At, Over
  <2> QED BY <2>1, ContextFacts
<1>3. pc[d] \in Watched =>
        /\ name \in Containers /\ canary[name].image = registry[Tag[d]]
        /\ canary[name] # None /\ name \in PortHolders
        /\ canary[name].status = "running" /\ canary[name].health # "unhealthy"
        /\ canary[name].health = "none" => InspectsBare
  BY DEF SoloCanary, GoesWell, PortHolders, Containers
<1>4. registry[Tag[d]] \in {"good", "bare"}
  BY DEF Undisturbed, Healthy
<1>5. ASSUME NEW place, To(place) PROVE pc'[d] = place /\ outcome'[d] = None
  BY <1>2, <1>5, Went
<1>6. ASSUME Succeeds PROVE pc'[d] = "notify" /\ outcome'[d].status = "success"
  BY <1>6, FinishedAs
<1>7. ASSUME ~RunCanary(d),
             \/ \E place \in Places \ {"abort"} :
                  /\ To(place)
                  /\ place \in Watched => pc[d] \in Watched
                  /\ place = "run" => name \notin Containers'
             \/ Succeeds
      PROVE  GoesWell(d)'
  <2>1. /\ pc'[d] # "abort" /\ (pc'[d] \in Watched => pc[d] \in Watched)
        /\ pc'[d] = "run" => name \notin Containers'
        /\ outcome'[d] # None => outcome'[d].status = "success"
    BY <1>5, <1>6, <1>7 DEF Watched
  <2> QED BY <1>1, <1>7, <2>1, GoodRest
<1> HIDE DEF To, Succeeds
<1>8. CASE cleanup_stale_canaries(d) \/ ReleaseCanary(d) \/ ComposePull(d) \/ StartPulls(d)
  <2>1. To("swept") \/ To("healthy") \/ To("swap") \/ To("pulling")
    BY <1>8, Zenon DEF cleanup_stale_canaries, ReleaseCanary, ComposePull, StartPulls, To
  <2>2. ~RunCanary(d)
    BY <1>8 DEF cleanup_stale_canaries, ReleaseCanary, ComposePull, StartPulls, RunCanary, At
  <2> QED BY <1>7, <2>1, <2>2 DEF Places, Watched
<1>9. CASE EnsureClean(d)
  <2>1. To("run")
    BY <1>9, Zenon DEF EnsureClean, To
  <2>2. ~RunCanary(d)
    BY <1>9 DEF EnsureClean, RunCanary, At
  <2>3. name \notin Containers'
    BY <1>9, StrictCleanup DEF EnsureClean, HostInv
  <2> QED BY <1>7, <2>1, <2>2, <2>3 DEF Places, Watched
<1>10. CASE run_git_pull(d) \/ run_docker_pull(d)
  <2>1. pc' = pc /\ outcome' = outcome /\ pc[d] = "pulling"
    BY <1>10 DEF run_git_pull, run_docker_pull, At
  <2>2. ~RunCanary(d)
    BY <2>1 DEF RunCanary, At
  <2> QED BY <1>1, <1>2, <2>1, <2>2, GoodRest DEF Watched
<1>11. CASE PullsDone(d)
  <2>1. pullOk[d] = TRUE
    <3>1. pullOk[d] \in BOOLEAN \cup {None} /\ pullOk[d] # None
      BY <1>11 DEF PullsDone, HostInv, HostTyped
    <3>2. pullOk[d] # FALSE
      BY <1>1 DEF SoloImages
    <3> QED BY <3>1, <3>2
  <2>2. To("clean")
    BY <1>1, <1>11, <2>1, Zenon DEF PullsDone, To
  <2>3. ~RunCanary(d)
    BY <1>11 DEF PullsDone, RunCanary, At
  <2> QED BY <1>7, <2>2, <2>3 DEF Places, Watched
<1>12. CASE RunCanary(d)
  BY <1>12, GoodStart
<1>13. CASE PollCanary(d)
  <2>1. pc[d] = "waiting"
    BY <1>13 DEF PollCanary, At
  <2>2. goes_on(d, "curl", stages[d], 0)
    BY <1>3, <1>13, <2>1 DEF PollCanary, Watched
  <2>3. To("curl") /\ ~RunCanary(d)
    BY <2>1, <2>2 DEF To, RunCanary, At
  <2> QED BY <1>7, <2>1, <2>3 DEF Places, Watched
<1>14. CASE CheckHttp(d)
  <2>1. pc[d] = "curl"
    BY <1>14 DEF CheckHttp, At
  <2>2. \E n \in PortHolders : Serves(canary[n].image)
    BY <1>3, <1>4, <2>1 DEF Watched, Serves
  <2>3. goes_on(d, "logs", stages[d], 0)
    BY <1>14, <2>2, Zenon DEF CheckHttp
  <2>4. To("logs") /\ ~RunCanary(d)
    BY <2>1, <2>3 DEF To, RunCanary, At
  <2> QED BY <1>7, <2>1, <2>4 DEF Places, Watched
<1>15. CASE CheckLogs(d)
  <2>1. pc[d] = "logs"
    BY <1>15 DEF CheckLogs, At
  <2>2. ~check_logs_for_fatal_patterns(name)
    BY <1>3, <1>4, <2>1 DEF Watched, check_logs_for_fatal_patterns
  <2>3. goes_on(d, "release", stages[d], 0)
    BY <1>15, <2>2 DEF CheckLogs
  <2>4. To("release") /\ ~RunCanary(d)
    BY <2>1, <2>3 DEF To, RunCanary, At
  <2> QED BY <1>7, <2>1, <2>4 DEF Places, Watched
<1>16. CASE AbortCanary(d)
  BY <1>16 DEF AbortCanary, At, GoesWell
<1>17. CASE ComposeUp(d) \/ CheckService(d) \/ MonitorEnds(d)
  <2>1. To("monitor") \/ To("watching") \/ Succeeds
    BY <1>17, Zenon DEF ComposeUp, CheckService, MonitorEnds, EndMonitor, To, Succeeds
  <2>2. ~RunCanary(d)
    BY <1>17 DEF ComposeUp, CheckService, MonitorEnds, RunCanary, At
  <2> QED BY <1>7, <2>1, <2>2 DEF Places, Watched
<1> QED BY <1>8, <1>9, <1>10, <1>11, <1>12, <1>13, <1>14, <1>15, <1>16, <1>17 DEF ComposeStep

\* Deployment steps: no check of a healthy image fails.
LEMMA GoodStep ==
  ASSUME ContextInv, HostInv, SoloInv, SoloInv', GoodInv, NEW e \in Deploys, StepOf(e)
  PROVE  GoodInv'
<1> SUFFICES ASSUME NEW d \in Deploys, Undisturbed(d)' PROVE GoesWell(d)'
  BY DEF GoodInv, SoloGood
<1>1. Undisturbed(d) /\ Alone(d)' /\ faults = MaxFaults /\ ~Fault
  BY WasUndisturbed
<1>2. GoesWell(d) /\ strategy[d] = "docker_compose" /\ Solo(d)
  BY <1>1 DEF GoodInv, SoloGood, Undisturbed, Alone
<1>3. SoloImages(d) /\ SoloCanary(d) /\ SoloCanary(d)'
  BY <1>1 DEF SoloInv, SoloCheck, Undisturbed
<1>4. CASE e # d
  <2>1. UNCHANGED canary /\ Apart(d)
    BY <1>2, <1>3, <1>4, SoloOther
  <2> QED BY <1>2, <2>1 DEF GoesWell, Apart, Containers
<1>5. CASE e = d /\ Aside(d)
  <2>1. UNCHANGED outcome /\ (pc'[d] = pc[d] \/ (pc[d] = "notify" /\ pc'[d] = "done"))
    BY <1>5, AsideKeeps
  <2>2. ~RunCanary(d)
    <3>1. ASSUME RunCanary(d) PROVE pc[d] = "run" /\ pc'[d] \in {"waiting", "abort"}
      <4>1. goes_on(d, "waiting", stages[d], 0) \/ goes_on(d, "abort", stages[d], 0)
        BY <3>1, Zenon DEF RunCanary
      <4> QED BY <3>1, <4>1, Went DEF RunCanary, At
    <3> QED BY <2>1, <3>1
  <2>3. pc'[d] = "run" => CanaryName[d] \notin Containers'
    BY <1>2, <1>5, <2>1, <2>2, Removes DEF GoesWell
  <2>4. pc'[d] # "abort" /\ (pc'[d] \in Watched => pc[d] \in Watched)
        /\ (outcome'[d] # None => outcome'[d].status = "success")
    BY <1>2, <2>1 DEF GoesWell, Watched
  <2> QED BY <1>2, <1>3, <1>5, <2>2, <2>3, <2>4, GoodRest
<1>6. CASE e = d /\ ComposeStep(d) /\ UNCHANGED buildVars
  BY <1>1, <1>2, <1>3, <1>6, GoodCompose
<1> QED BY <1>2, <1>4, <1>5, <1>6, StepKinds

\* Docker's steps: a healthy image comes up and stays up, and a stopped canary
\* stays stopped.
LEMMA GoodDocker ==
  ASSUME ContextInv, HostInv, SoloInv, GoodInv, DockerStep PROVE GoodInv'
<1> SUFFICES ASSUME NEW d \in Deploys, Undisturbed(d)' PROVE GoesWell(d)'
  BY DEF GoodInv, SoloGood
<1> DEFINE name == CanaryName[d]
<1>1. UNCHANGED <<strategy, pc, outcome, cancelled, faults, leftover>>
  BY DockerFrame DEF contextVars
<1>2. Undisturbed(d)
  <2>1. strategy[d] = "docker_compose" /\ Solo(d) /\ Tag[d] \notin published'
    BY <1>1, SoloKept DEF Undisturbed, Alone
  <2>2. Tag[d] \notin published /\ registry'[Tag[d]] = registry[Tag[d]]
    BY <2>1, TagTyped, DockerFrame
  <2> QED BY <1>1, <2>1, <2>2 DEF Undisturbed, Alone, Healthy
<1>3. GoesWell(d)
  BY <1>2 DEF GoodInv, SoloGood
<1>4. SoloCanary(d) /\ registry[Tag[d]] \in {"good", "bare"}
  BY <1>2 DEF SoloInv, SoloCheck, Undisturbed, Healthy
<1>5. Containers' = Containers /\ \A n \in Containers : canary'[n].id = canary[n].id
  BY DockerCanaries
<1>6. CASE canary' = canary
  BY <1>1, <1>3, <1>5, <1>6 DEF GoesWell
<1>7. ASSUME NEW m \in Names, CanaryRuns(m) PROVE GoesWell(d)'
  <2>1. m \in Containers /\ canary[m].status = "running" /\ canary[m] \in Canaries
    BY <1>7, CanaryTyped DEF CanaryRuns, PortHolders, HostInv
  <2>2. \A n \in Names : n # m => canary'[n] = canary[n]
    BY <1>7 DEF CanaryRuns, HostInv, HostTyped
  <2>3. \A n \in Containers : canary'[n].id = d \/ canary'[n].status = "exited"
    <3>1. \A n \in Containers : n \in Names
      BY DEF Containers
    <3> QED BY <1>3, <1>5, <2>1, <2>2, <3>1 DEF GoesWell
  <2>4. ASSUME pc[d] \in Watched
        PROVE  /\ canary'[name].status = "running" /\ canary'[name].health # "unhealthy"
               /\ canary'[name].health = "none" => InspectsBare
    <3>1. /\ name \in Containers /\ name \in Names /\ canary[name].image \in {"good", "bare"}
          /\ canary[name].status = "running" /\ canary[name].health # "unhealthy"
          /\ canary[name].health = "none" => InspectsBare
      BY <1>3, <1>4, <2>4 DEF GoesWell, SoloCanary, Containers
    <3>2. CASE m = name
      <4>1. canary'[name] = [canary[name] EXCEPT !.health = "healthy"]
        BY <1>7, <3>1, <3>2 DEF CanaryRuns, HostInv, HostTyped, Crashing
      <4> QED BY <2>1, <3>1, <3>2, <4>1 DEF Canaries
    <3>3. CASE m # name
      BY <2>2, <3>1, <3>3
    <3> QED BY <3>2, <3>3
  <2> QED BY <1>1, <1>3, <1>5, <2>3, <2>4 DEF GoesWell
<1> QED BY <1>6, <1>7 DEF DockerStep, ServiceRuns, Publish

LEMMA GoodNext ==
  ASSUME ContextInv, HostInv, SwappedInv, SoloInv, GoodInv, [StrategiesNext]_strategyVars
  PROVE  GoodInv'
<1>1. SoloInv'
  BY SoloNext
<1>2. CASE UNCHANGED strategyVars
  <2>1. UNCHANGED <<strategy, pc, outcome, cancelled, faults, published, leftover, registry, canary>>
    BY <1>2 DEF strategyVars, contextVars, composeVars
  <2>2. Containers' = Containers
    BY <2>1 DEF Containers
  <2>3. ASSUME NEW d \in Deploys PROVE Undisturbed(d)' => Undisturbed(d)
    BY <2>1, SoloKept DEF Undisturbed, Alone, Healthy
  <2>4. ASSUME NEW d \in Deploys, GoesWell(d) PROVE GoesWell(d)'
    BY <2>1, <2>2, <2>4 DEF GoesWell
  <2> QED BY <2>3, <2>4 DEF GoodInv, SoloGood
<1> QED BY <1>1, <1>2, GoodStep, GoodDocker DEF StrategiesNext, StepOf, DockerStep

LEMMA GoodInit == StrategiesInit => GoodInv
<1> SUFFICES ASSUME StrategiesInit, NEW d \in Deploys, leftover # "running" PROVE GoesWell(d)
  BY DEF GoodInv, SoloGood, Undisturbed
<1>1. ASSUME NEW n \in Containers PROVE canary[n].status = "exited"
  <2>1. n \in Names /\ canary[n] # None
    BY <1>1 DEF Containers
  <2>2. canary[n] = IF n = Old /\ leftover # "none"
                    THEN Container(Old, OldImage, leftover) ELSE None
    BY <2>1 DEF StrategiesInit, ComposeInit
  <2>3. canary[n] = Container(Old, OldImage, leftover) /\ leftover # "none"
    BY <2>1, <2>2
  <2>4. leftover = "exited"
    BY <2>3 DEF StrategiesInit, ComposeInit
  <2> QED BY <2>3, <2>4 DEF Container
<1>2. pc[d] = "begin" /\ outcome[d] = None
  BY DEF StrategiesInit, ContextInit
<1> QED BY <1>1, <1>2 DEF GoesWell, Watched

\* A lone deployment of a healthy image succeeds when no command fails by
\* itself, no timeout strikes and no canary was left running: its own sweep,
\* at work in the background while the canary starts and is checked, removes
\* the stopped one it has listed and not the new one, and no check fails.
THEOREM GoodImagesDeploy == StrategiesSpec => []SoloGoodImageDeploys
<1>1. ContextInv /\ HostInv /\ SoloInv /\ GoodInv => SoloGoodImageDeploys
  <2> SUFFICES ASSUME ContextInv, SoloInv, GoodInv, NEW d \in Finished,
                      strategy[d] = "docker_compose", Solo(d), faults = MaxFaults, ~cancelled[d],
                      Tag[d] \notin published, leftover # "running", Healthy(local[Tag[d]])
               PROVE  outcome[d].status = "success"
    BY DEF SoloGoodImageDeploys
  <2>1. d \in Deploys /\ outcome[d] # None
    BY DEF Finished
  <2>2. Alone(d) /\ SoloImages(d)
    BY <2>1 DEF Alone, SoloInv, SoloCheck
  <2>3. pc[d] \in Over
    BY <2>1, ContextFacts
  <2>4. local[Tag[d]] = registry[Tag[d]]
    BY <2>2, <2>3 DEF SoloImages, Over, Unpulled
  <2>5. Undisturbed(d)
    BY <2>2, <2>4 DEF Undisturbed
  <2> QED BY <2>1, <2>5 DEF GoodInv, SoloGood, GoesWell
<1> QED BY <1>1, BothInvariant, SwappedInit, SwappedNext, SoloInit, SoloNext, GoodInit, GoodNext, PTL
    DEF StrategiesSpec

===============================================================================
