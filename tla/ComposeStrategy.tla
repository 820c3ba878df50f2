---------------------------- MODULE ComposeStrategy ----------------------------
(***************************************************************************)
(* services/deploy/docker_compose.rs: a blue-green deployment.  It sweeps  *)
(* old canary containers in the background, pulls, starts a canary of the  *)
(* new image on port 19999, checks it, removes it, swaps the service and   *)
(* watches it.                                                             *)
(*                                                                         *)
(* The Docker daemon is modelled from how the code uses it: containers     *)
(* have unique names, a running canary holds port 19999, and `compose run` *)
(* of a container whose port is taken leaves it behind, created.           *)
(* A canary's id is the deployment that made it, for each makes one.       *)
(***************************************************************************)
EXTENDS DeployContext

CONSTANTS
  Tags,          \* image names; each is deployed as one service
  Tag,           \* the image name of each deployment
  Images,        \* contents of an image: what a container made of it does
  OldImage,      \* what runs, and is in the registry, to begin with
  CanaryName,    \* "deploy-canary-" and 8 characters of each task id
  InspectsBare,  \* does docker inspect render the health status of a container
                 \* without a HEALTHCHECK?  (If not it fails for such a container.)
  MaxRestarts,   \* bound on the restarts of a crashing service
  U32            \* 2^32; any number above MaxRestarts + 2 behaves alike

\* What containers do: come up well, with a HEALTHCHECK or bare of one; come up
\* and log a fatal pattern; run without serving HTTP; turn unhealthy; die before
\* they serve, with a HEALTHCHECK or, frail, without.
Behaviours == {"good", "bare", "fatal", "silent", "unhealthy", "crash", "frail"}
Bare == {"bare", "silent", "frail"}
Crashing == {"crash", "frail"}

\* The id of a container that was there before.
Old == "leftover"

\* A canary container, and the container of a service.
Canaries ==
  [id : Deploys \cup {Old}, image : Images, status : {"created", "running", "exited"},
   health : {"none", "starting", "healthy", "unhealthy"}]
Services ==
  [image : Images, by : Deploys \cup {None}, status : {"running", "exited"}, restarts : Nat]

ASSUME ComposeAssumption ==
  /\ Images \subseteq Behaviours /\ OldImage \in Images
  /\ Tag \in [Deploys -> Tags]
  /\ InspectsBare \in BOOLEAN
  /\ MaxRestarts \in Nat /\ U32 \in Nat /\ U32 > MaxRestarts + 2
  /\ Old \notin Deploys
  /\ None \notin Behaviours /\ None \notin BOOLEAN /\ None \notin Nat
  /\ None \notin Canaries /\ None \notin Services

VARIABLES
  registry,   \* the image behind each tag in the registry
  local,      \* the image behind each tag on this host, or None
  live,       \* the container of each tag's service, or None
  published,  \* the tags that somebody else has pushed to, before or since
  leftover,   \* the canary an earlier agent has left: its status, or "none"
  canary,     \* the containers whose name begins with deploy-canary, by name
  sweep,      \* the ids a deployment's background cleanup has still to remove
  gitOk,      \* has git pull ended, and how
  pullOk,     \* has docker pull ended, and how
  logsOk,     \* could the canary's logs be read?  None before
  seen        \* initial_restart_count of the monitor, or None

resultVars == <<gitOk, pullOk, logsOk, seen>>
hostVars == <<published, leftover, registry, local, live, canary, sweep>>
composeVars == <<published, leftover, registry, local, live, canary, sweep,
                 gitOk, pullOk, logsOk, seen>>

Names == { CanaryName[d] : d \in Deploys } \cup {Old}
Container(id, image, status) ==
  [id |-> id, image |-> image, status |-> status,
   health |-> IF image \in Bare THEN "none" ELSE "starting"]

ComposeInit ==
  /\ registry \in [Tags -> Images]
  /\ local \in [Tags -> {OldImage, None}]
  /\ live = [t \in Tags |-> [image |-> OldImage, by |-> None, status |-> "running", restarts |-> 0]]
  /\ published \in SUBSET Tags
  /\ leftover \in {"none", "running", "exited"}
  /\ canary = [n \in Names |->
                 IF n = Old /\ leftover # "none"
                 THEN Container(Old, OldImage, leftover) ELSE None]
  /\ sweep = [d \in Deploys |-> {}]
  /\ gitOk = [d \in Deploys |-> None]
  /\ pullOk = [d \in Deploys |-> None]
  /\ logsOk = [d \in Deploys |-> None]
  /\ seen = [d \in Deploys |-> None]

Containers == { n \in Names : canary[n] # None }

\* The container that answers on 127.0.0.1:19999.
PortHolders == { n \in Containers : canary[n].status = "running" }

Serves(image) == image \in {"good", "bare", "fatal"}

-------------------------------------------------------------------------------
(* Slips, each of the operation it is named after; no definition uses them. *)

\* The containers are listed when they are removed, by name.
SweepCanary_Lists(d) ==
  /\ sweep[d] # {}
  /\ sweep' = [sweep EXCEPT ![d] = {}]
  /\ canary' = [n \in Names |-> None]
  /\ UNCHANGED <<contextVars, published, leftover, registry, local, live, resultVars>>

\* Only the canaries that have stopped are listed.
cleanup_stale_canaries_Stopped(d) ==
  /\ At(d, "docker_compose", "begin")
  /\ \E ok \in BOOLEAN :
       /\ Ends(ok)
       /\ sweep' = [sweep EXCEPT ![d] =
                      IF ok THEN { canary[n].id : n \in Containers \ PortHolders } ELSE {}]
  /\ goes_on(d, "swept", stages[d], 0)
  /\ UNCHANGED <<published, leftover, registry, local, live, canary, resultVars>>

\* The swap goes ahead whatever the canary did.
AbortCanary_Continues(d) ==
  /\ At(d, "docker_compose", "abort")
  /\ canary' = [canary EXCEPT ![CanaryName[d]] = None]
  /\ Faultless
  /\ goes_on(d, "healthy", finish_stage(stages[d], "health_check", FALSE), 0)
  /\ UNCHANGED <<published, leftover, registry, local, live, sweep, resultVars>>

-------------------------------------------------------------------------------
(* Stages 1 and 2                                                          *)

\* The ids are listed now and removed one by one by a task of their own; if
\* docker ps fails nothing is swept.
cleanup_stale_canaries(d) ==
  /\ At(d, "docker_compose", "begin")
  /\ \E ok \in BOOLEAN :
       /\ Ends(ok)
       /\ sweep' = [sweep EXCEPT ![d] =
                      IF ok THEN { canary[n].id : n \in Containers } ELSE {}]
  /\ goes_on(d, "swept", stages[d], 0)
  /\ UNCHANGED <<published, leftover, registry, local, live, canary, resultVars>>

\* docker rm -f by id, its errors ignored.
SweepCanary(d) ==
  /\ \E id \in sweep[d] :
       /\ sweep' = [sweep EXCEPT ![d] = @ \ {id}]
       /\ \E ok \in BOOLEAN :
            /\ Ends(ok)
            /\ canary' = [n \in Names |->
                            IF canary[n] # None /\ canary[n].id = id /\ ok
                            THEN None ELSE canary[n]]
  /\ UNCHANGED <<strategy, pc, stages, exit_code, cancelled, outcome, attempt,
                 center, published, leftover, registry, local, live, resultVars>>

StartPulls(d) ==
  /\ At(d, "docker_compose", "swept")
  /\ \E has_git \in BOOLEAN :
       LET st == new({"git_pull", "docker_pull", "health_check", "compose_up",
                      "post_deploy_monitor"})
           git == IF has_git THEN start(st, "git_pull") ELSE skip(st, "git_pull")
       IN  /\ goes_on(d, "pulling", start(git, "docker_pull"), 0)
           /\ gitOk' = [gitOk EXCEPT ![d] = IF has_git THEN None ELSE TRUE]
  /\ Faultless
  /\ UNCHANGED <<hostVars, pullOk, logsOk, seen>>

\* tokio::join!: the two commands end in either order.
run_git_pull(d) ==
  /\ At(d, "docker_compose", "pulling") /\ gitOk[d] = None
  /\ \E ok \in BOOLEAN : Ends(ok) /\ gitOk' = [gitOk EXCEPT ![d] = ok]
  /\ UNCHANGED <<strategy, pc, stages, exit_code, cancelled, outcome, attempt,
                 center, hostVars, pullOk, logsOk, seen>>

run_docker_pull(d) ==
  /\ At(d, "docker_compose", "pulling") /\ pullOk[d] = None
  /\ \E ok \in BOOLEAN :
       /\ Ends(ok)
       /\ pullOk' = [pullOk EXCEPT ![d] = ok]
       /\ local' = IF ok THEN [local EXCEPT ![Tag[d]] = registry[Tag[d]]] ELSE local
  /\ UNCHANGED <<strategy, pc, stages, exit_code, cancelled, outcome, attempt,
                 center, published, leftover, registry, live, canary, sweep,
                 gitOk, logsOk, seen>>

\* A failed git pull is only a warning, a failed docker pull ends the
\* deployment; the token is looked at once, here.
PullsDone(d) ==
  /\ At(d, "docker_compose", "pulling") /\ gitOk[d] # None /\ pullOk[d] # None
  /\ LET git == IF stages[d]["git_pull"] = "skipped" THEN stages[d]
                ELSE finish_stage(stages[d], "git_pull", gitOk[d])
         st == finish_stage(git, "docker_pull", pullOk[d])
     IN  \/ /\ ~pullOk[d]
            /\ finish(d, "failed", 1, st)
         \/ /\ pullOk[d] /\ cancelled[d]
            /\ finish(d, "failed", -2, st)
         \/ /\ pullOk[d] /\ ~cancelled[d]
            /\ goes_on(d, "clean", start(st, "health_check"), 0)
  /\ Faultless
  /\ UNCHANGED composeVars

-------------------------------------------------------------------------------
(* Stage 3: run_canary_health_check                                        *)

\* The container called name is gone, unless docker failed.
cleanup_canary_strict(name) ==
  \E ok \in BOOLEAN :
    /\ IF canary[name] = None THEN Faultless /\ ok ELSE Ends(ok)
    /\ canary' = IF ok THEN [canary EXCEPT ![name] = None] ELSE canary

EnsureClean(d) ==
  /\ At(d, "docker_compose", "clean")
  /\ cleanup_canary_strict(CanaryName[d])
  /\ goes_on(d, "run", stages[d], 0)
  /\ UNCHANGED <<published, leftover, registry, local, live, sweep, resultVars>>

RunCanary(d) ==
  /\ At(d, "docker_compose", "run")
  /\ LET n == CanaryName[d]
         made(status) == [canary EXCEPT ![n] = Container(d, local[Tag[d]], status)]
     IN  \/ /\ canary[n] = None /\ PortHolders = {}
            /\ canary' = made("running")
            /\ goes_on(d, "waiting", stages[d], 0)
            /\ Faultless
         \/ /\ canary[n] = None /\ PortHolders # {}     \* port is allocated
            /\ canary' = made("created")
            /\ goes_on(d, "abort", stages[d], 0)
            /\ Faultless
         \/ /\ canary[n] # None                         \* name is in use
            /\ canary' = canary
            /\ goes_on(d, "abort", stages[d], 0)
            /\ Faultless
         \/ /\ canary' = canary                         \* compose itself fails
            /\ goes_on(d, "abort", stages[d], 0)
            /\ Fault
  /\ UNCHANGED <<published, leftover, registry, local, live, sweep, resultVars>>

\* A canary's own life.
CanaryRuns(n) ==
  /\ n \in PortHolders
  /\ \/ /\ canary[n].image \in Crashing
        /\ canary' = [canary EXCEPT ![n].status = "exited"]
     \/ /\ canary[n].image \notin Crashing /\ canary[n].health = "starting"
        /\ canary' = [canary EXCEPT ![n].health =
                        IF canary[n].image = "unhealthy" THEN "unhealthy" ELSE "healthy"]
  /\ UNCHANGED <<contextVars, published, leftover, registry, local, live, sweep, resultVars>>

\* wait_for_container_healthy: one inspection that decides, or the timeout of
\* 60 s: a fault, unless the container never starts or no inspection of it
\* succeeds.
PollCanary(d) ==
  /\ At(d, "docker_compose", "waiting")
  /\ LET c == canary[CanaryName[d]]
         hidden == c # None /\ c.health = "none" /\ ~InspectsBare
         dead == ~hidden /\ (c # None => c.status = "exited" \/ c.health = "unhealthy")
         up == /\ ~hidden /\ ~dead
               /\ c.health = "healthy" \/ (c.health = "none" /\ c.status = "running")
     IN  \/ /\ dead
            /\ goes_on(d, "abort", stages[d], 0) /\ Faultless
         \/ up /\ goes_on(d, "curl", stages[d], 0) /\ Faultless
         \/ /\ goes_on(d, "abort", stages[d], 0)
            /\ IF hidden \/ (c # None /\ c.status = "created")
               THEN Faultless ELSE Fault
  /\ UNCHANGED composeVars

\* curl -sf http://127.0.0.1:19999/health: whoever holds the port answers.
CheckHttp(d) ==
  /\ At(d, "docker_compose", "curl")
  /\ \/ /\ \E n \in PortHolders : Serves(canary[n].image)
        /\ goes_on(d, "logs", stages[d], 0)
        /\ Faultless
     \/ /\ goes_on(d, "abort", stages[d], 0)
        /\ IF \E n \in PortHolders : Serves(canary[n].image) THEN Fault ELSE Faultless
  /\ UNCHANGED composeVars

\* The logs of a container that is gone hold no fatal pattern.
check_logs_for_fatal_patterns(name) ==
  canary[name] # None /\ canary[name].image = "fatal"

\* docker logs that cannot be run find nothing either.
CheckLogs(d) ==
  /\ At(d, "docker_compose", "logs")
  /\ \E ok \in BOOLEAN :
       /\ Ends(ok)
       /\ logsOk' = [logsOk EXCEPT ![d] = ok]
       /\ goes_on(d, IF ok /\ check_logs_for_fatal_patterns(CanaryName[d])
                     THEN "abort" ELSE "release", stages[d], 0)
  /\ UNCHANGED <<hostVars, gitOk, pullOk, seen>>

\* The canary failed: it is removed, the service stays as it is.
AbortCanary(d) ==
  /\ At(d, "docker_compose", "abort")
  /\ cleanup_canary_strict(CanaryName[d])
  /\ finish(d, "failed", -1, finish_stage(stages[d], "health_check", FALSE))
  /\ UNCHANGED <<published, leftover, registry, local, live, sweep, resultVars>>

ReleaseCanary(d) ==
  /\ At(d, "docker_compose", "release")
  /\ cleanup_canary_strict(CanaryName[d])
  /\ goes_on(d, "healthy", finish_stage(stages[d], "health_check", TRUE), 0)
  /\ UNCHANGED <<published, leftover, registry, local, live, sweep, resultVars>>

-------------------------------------------------------------------------------
(* Stage 4                                                                 *)

\* compose pull, its result ignored.
ComposePull(d) ==
  /\ At(d, "docker_compose", "healthy")
  /\ \E ok \in BOOLEAN :
       /\ Ends(ok)
       /\ local' = IF ok THEN [local EXCEPT ![Tag[d]] = registry[Tag[d]]] ELSE local
  /\ goes_on(d, "swap", start(stages[d], "compose_up"), 0)
  /\ UNCHANGED <<published, leftover, registry, live, canary, sweep, resultVars>>

\* compose up -d --force-recreate; one that fails may have removed the service.
ComposeUp(d) ==
  /\ At(d, "docker_compose", "swap")
  /\ \/ /\ live' = [live EXCEPT ![Tag[d]] =
                      [image |-> local[Tag[d]], by |-> d, status |-> "running", restarts |-> 0]]
        /\ goes_on(d, "monitor",
                   start(finish_stage(stages[d], "compose_up", TRUE), "post_deploy_monitor"), 0)
        /\ Faultless
     \/ /\ live' \in {live, [live EXCEPT ![Tag[d]] = None]}
        /\ finish(d, "failed", 1, finish_stage(stages[d], "compose_up", FALSE))
        /\ Fault
  /\ UNCHANGED <<published, leftover, registry, local, canary, sweep, resultVars>>

-------------------------------------------------------------------------------
(* Stage 5: run_post_deploy_monitor                                        *)

\* A service that crashes is restarted by Docker, until it is given up.
ServiceRuns(t) ==
  /\ live[t] # None /\ live[t].image \in Crashing /\ live[t].status = "running"
  /\ live' = IF live[t].restarts < MaxRestarts THEN [live EXCEPT ![t].restarts = @ + 1]
             ELSE [live EXCEPT ![t].status = "exited"]
  /\ UNCHANGED <<contextVars, published, leftover, registry, local, canary, sweep, resultVars>>

\* restart_count - initial_restart_count, of u32.
restarts_since_deploy(d, count) ==
  (count - (IF seen[d] = None THEN count ELSE seen[d])) % U32

\* What docker inspect can say of the service's container: unknown stands for
\* an error of its own and for a status such as restarting.
get_container_state(t) ==
  CASE live[t] = None -> {"not_found"}
    [] live[t] # None /\ live[t].image \in Bare /\ ~InspectsBare -> {"unknown"}
    [] OTHER -> {live[t].status}
                  \cup IF live[t].status = "running" /\ live[t].image \in Crashing
                       THEN {"unknown"} ELSE {}

EndMonitor(d, ok) ==
  finish(d, "success", 0, finish_stage(stages[d], "post_deploy_monitor", ok))

\* One look at the service.  An unhealthy service, a fatal line, a first restart
\* and an unknown state are reported and watched further; a docker that cannot
\* be run counts as a container that is gone.  What ends the monitoring does not
\* fail the deployment.
CheckService(d) ==
  /\ At(d, "docker_compose", "monitor") \/ At(d, "docker_compose", "watching")
  /\ \E look \in {"running", "exited", "not_found", "unknown"} :
       /\ \/ look \in get_container_state(Tag[d]) /\ Faultless
          \/ look \in {"not_found", "unknown"} /\ Fault
       /\ \/ /\ look \in {"exited", "not_found"}
             /\ EndMonitor(d, FALSE)
             /\ seen' = seen
          \/ /\ look = "running"
             /\ LET count == live[Tag[d]].restarts
                IN  /\ seen' = [seen EXCEPT ![d] = IF @ = None THEN count ELSE @]
                    /\ IF restarts_since_deploy(d, count) >= 2
                       THEN EndMonitor(d, FALSE)
                       ELSE goes_on(d, "watching", stages[d], 0)
          \/ /\ look = "unknown"
             /\ goes_on(d, "watching", stages[d], 0)
             /\ seen' = seen
  /\ UNCHANGED <<hostVars, gitOk, pullOk, logsOk>>

\* POST_DEPLOY_MONITOR_SECONDS have passed, with one look at least.
MonitorEnds(d) ==
  /\ At(d, "docker_compose", "watching")
  /\ EndMonitor(d, TRUE)
  /\ Faultless
  /\ UNCHANGED composeVars

-------------------------------------------------------------------------------
\* Somebody else pushes to the registry (bound: once for each tag that is not
\* among the published ones to begin with).
Publish(t) ==
  /\ t \notin published
  /\ published' = published \cup {t}
  /\ \E image \in Images \ {registry[t]} : registry' = [registry EXCEPT ![t] = image]
  /\ UNCHANGED <<contextVars, leftover, local, live, canary, sweep, resultVars>>

ComposeStep(d) ==
  \/ cleanup_stale_canaries(d) \/ StartPulls(d)
  \/ run_git_pull(d) \/ run_docker_pull(d) \/ PullsDone(d)
  \/ EnsureClean(d) \/ RunCanary(d) \/ PollCanary(d) \/ CheckHttp(d) \/ CheckLogs(d)
  \/ AbortCanary(d) \/ ReleaseCanary(d)
  \/ ComposePull(d) \/ ComposeUp(d)
  \/ CheckService(d) \/ MonitorEnds(d)
===============================================================================
