----------------------------- MODULE BuildStrategy -----------------------------
(***************************************************************************)
(* services/deploy/docker_build.rs: pull the code, build an image of it,   *)
(* push it under its tag and, if configured, as latest.  Tag[d] is the     *)
(* name image:latest, the one that ComposeStrategy deploys.                *)
(*                                                                         *)
(* A commit is named by the image that a build of it makes.  Deployments   *)
(* that share a working tree share its HEAD, and those of one image name   *)
(* share its tags, here and in the registry.                               *)
(*                                                                         *)
(* The removal of zombie and hung docker processes that precedes the build *)
(* is left out.  What it can do to another deployment, whose build has     *)
(* lost its parent or is an hour old, is a command that fails: a fault.    *)
(***************************************************************************)
EXTENDS ComposeStrategy

CONSTANTS
  Trees,          \* working trees
  Tree,           \* the one of each deployment
  ConfiguredTag   \* config.tag: None, "latest" or "configured", any other name

\* The tags of an image name, other than latest: hashes and a configured name.
TagNames == Images \cup {"configured"}

ASSUME BuildAssumption ==
  /\ Tree \in [Deploys -> Trees]
  /\ ConfiguredTag \in [Deploys -> {"configured", "latest", None}]
  /\ None \notin {"configured", "latest"}

VARIABLES
  head,      \* the commit that is checked out in each working tree
  built,     \* the image a deployment's docker build makes, None before
  tagged,    \* its commit_hash: the tag it builds and pushes
  tagOk,     \* could docker tag name the image latest?  None before
  named,     \* the image behind image:tag on this host, for each tag
  shipped    \* the image behind image:tag in the registry, for each tag

buildVars == <<head, built, tagged, tagOk, named, shipped>>

BuildInit ==
  /\ head = [w \in Trees |-> OldImage]
  /\ built = [d \in Deploys |-> None]
  /\ tagged = [d \in Deploys |-> "latest"]
  /\ tagOk = [d \in Deploys |-> None]
  /\ named = [t \in Tags |-> [n \in TagNames |-> None]]
  /\ shipped = [t \in Tags |-> [n \in TagNames |-> None]]

\* full_image: what the tag of d's image names on this host now.
full_image(d) ==
  IF tagged[d] = "latest" THEN local[Tag[d]] ELSE named[Tag[d]][tagged[d]]

BeginBuild(d) ==
  /\ At(d, "docker_build", "begin")
  /\ \E latest \in SUBSET {"docker_push_latest"} :
       goes_on(d, "git",
               start(new({"git_pull", "docker_build", "docker_push"} \cup latest), "git_pull"), 0)
  /\ Faultless
  /\ UNCHANGED <<composeVars, buildVars>>

\* git pull --ff-only; unlike in the other strategies its failure is final.
BuildGitPull(d) ==
  /\ At(d, "docker_build", "git")
  /\ \E ok \in BOOLEAN, commit \in Images :
       /\ Ends(ok)
       /\ head' = IF ok THEN [head EXCEPT ![Tree[d]] = commit] ELSE head
       /\ goes_on(d, IF ok THEN "hash" ELSE "git_failed",
                  finish_stage(stages[d], "git_pull", ok), IF ok THEN 0 ELSE 1)
  /\ UNCHANGED <<composeVars, built, tagged, tagOk, named, shipped>>

\* A cancelled token counts for more than the failure.
BuildGitFailed(d) ==
  /\ At(d, "docker_build", "git_failed")
  /\ IF cancelled[d] THEN finish_cancelled(d) ELSE finish(d, "failed", exit_code[d], stages[d])
  /\ Faultless
  /\ UNCHANGED <<composeVars, buildVars>>

\* The tag is the configured one or git rev-parse's; if that fails, "latest".
TagOfCommit(d) ==
  /\ At(d, "docker_build", "hash")
  /\ \/ /\ ConfiguredTag[d] # None
        /\ tagged' = [tagged EXCEPT ![d] = ConfiguredTag[d]]
        /\ Faultless
     \/ /\ ConfiguredTag[d] = None
        /\ \E ok \in BOOLEAN :
             /\ Ends(ok)
             /\ tagged' = [tagged EXCEPT ![d] = IF ok THEN head[Tree[d]] ELSE "latest"]
  /\ IF cancelled[d] THEN finish_cancelled(d)
     ELSE goes_on(d, "spawn_build", start(stages[d], "docker_build"), 0)
  /\ UNCHANGED <<composeVars, head, built, tagOk, named, shipped>>

\* docker build, of what is checked out by now.
SpawnBuild(d) ==
  /\ At(d, "docker_build", "spawn_build")
  /\ built' = [built EXCEPT ![d] = head[Tree[d]]]
  /\ \/ goes_on(d, "building", stages[d], 0) /\ Faultless
     \/ /\ finish(d, "failed", -1, finish_stage(stages[d], "docker_build", FALSE))
        /\ Fault
  /\ UNCHANGED <<composeVars, head, tagged, tagOk, named, shipped>>

\* docker names the image that has been built.
NamesBuilt(d) ==
  IF tagged[d] = "latest"
  THEN local' = [local EXCEPT ![Tag[d]] = built[d]] /\ named' = named
  ELSE local' = local /\ named' = [named EXCEPT ![Tag[d]][tagged[d]] = built[d]]

\* child.wait() returns; the tasks that copy the output are then waited for,
\* whatever the token says.
BuildExits(d) ==
  /\ At(d, "docker_build", "building")
  /\ \/ /\ NamesBuilt(d)
        /\ goes_on(d, "output", stages[d], 0)
        /\ Faultless
     \/ /\ UNCHANGED <<local, named>>
        /\ goes_on(d, "output", stages[d], 1)
        /\ Fault
  /\ UNCHANGED <<published, leftover, registry, live, canary, sweep, resultVars,
                 head, built, tagged, tagOk, shipped>>

\* The pipes close when the last process that has inherited them ends.
BuildDrained(d) ==
  /\ At(d, "docker_build", "output")
  /\ LET st == finish_stage(stages[d], "docker_build", exit_code[d] = 0)
     IN  IF exit_code[d] = 0 THEN goes_on(d, "built", st, 0)
         ELSE finish(d, "failed", exit_code[d], st)
  /\ Faultless
  /\ UNCHANGED <<composeVars, buildVars>>

\* (A slip:) the build is not raced against the token.
BuildCancelled_Waits(d) ==
  /\ At(d, "docker_build", "built") /\ cancelled[d]
  /\ Faultless
  /\ finish_cancelled(d)
  /\ UNCHANGED <<composeVars, buildVars>>

\* The other branch of the select: the build is killed, which may come after it
\* has named its image; what has not ended is skipped.
BuildCancelled(d) ==
  /\ At(d, "docker_build", "building") /\ cancelled[d]
  /\ Faultless
  /\ NamesBuilt(d) \/ UNCHANGED <<local, named>>
  /\ finish(d, "failed", -2,
            [n \in DOMAIN stages[d] |->
               IF stages[d][n] \in {"pending", "running"} THEN "skipped" ELSE stages[d][n]])
  /\ UNCHANGED <<published, leftover, registry, live, canary, sweep, resultVars,
                 head, built, tagged, tagOk, shipped>>

BeforePush(d) ==
  /\ At(d, "docker_build", "built")
  /\ IF cancelled[d] THEN finish_cancelled(d)
     ELSE goes_on(d, "push", start(stages[d], "docker_push"), 0)
  /\ Faultless
  /\ UNCHANGED <<composeVars, buildVars>>

\* docker push of whatever the tag names by now; nothing is no image.
Push(d) ==
  /\ At(d, "docker_build", "push")
  /\ \E ok \in BOOLEAN :
       /\ IF full_image(d) = None THEN ~ok /\ Faultless ELSE Ends(ok)
       /\ registry' = IF ok /\ tagged[d] = "latest"
                      THEN [registry EXCEPT ![Tag[d]] = full_image(d)] ELSE registry
       /\ shipped' = IF ok /\ tagged[d] # "latest"
                     THEN [shipped EXCEPT ![Tag[d]][tagged[d]] = full_image(d)] ELSE shipped
       /\ LET st == finish_stage(stages[d], "docker_push", ok)
          IN  IF ok THEN goes_on(d, "pushed", st, 0) ELSE finish(d, "failed", 1, st)
  /\ UNCHANGED <<published, leftover, local, live, canary, sweep, resultVars,
                 head, built, tagged, tagOk, named>>

\* The token is looked at again, with or without a latest to push.
BeforeLatest(d) ==
  /\ At(d, "docker_build", "pushed")
  /\ \/ cancelled[d] /\ finish_cancelled(d)
     \/ /\ ~cancelled[d]
        /\ IF "docker_push_latest" \in DOMAIN stages[d]
           THEN goes_on(d, "tag", start(stages[d], "docker_push_latest"), 0)
           ELSE finish(d, "success", 0, stages[d])
  /\ Faultless
  /\ UNCHANGED <<composeVars, buildVars>>

\* (A slip:) latest is pushed without being tagged.
TagLatest_Skipped(d) ==
  /\ At(d, "docker_build", "tag")
  /\ Faultless
  /\ tagOk' = [tagOk EXCEPT ![d] = TRUE]
  /\ goes_on(d, "push_latest", stages[d], 0)
  /\ UNCHANGED <<composeVars, head, built, tagged, named, shipped>>

\* docker tag; that it failed is only logged.
TagLatest(d) ==
  /\ At(d, "docker_build", "tag")
  /\ \E ok \in BOOLEAN :
       /\ IF full_image(d) = None THEN ~ok /\ Faultless ELSE Ends(ok)
       /\ tagOk' = [tagOk EXCEPT ![d] = ok]
       /\ local' = IF ok THEN [local EXCEPT ![Tag[d]] = full_image(d)] ELSE local
  /\ goes_on(d, "push_latest", stages[d], 0)
  /\ UNCHANGED <<published, leftover, registry, live, canary, sweep, resultVars,
                 head, built, tagged, named, shipped>>

\* docker push of whatever latest names here; its failure fails the stage only.
PushLatest(d) ==
  /\ At(d, "docker_build", "push_latest")
  /\ \E ok \in BOOLEAN :
       /\ IF local[Tag[d]] = None THEN ~ok /\ Faultless ELSE Ends(ok)
       /\ registry' = IF ok THEN [registry EXCEPT ![Tag[d]] = local[Tag[d]]] ELSE registry
       /\ finish(d, "success", 0, finish_stage(stages[d], "docker_push_latest", ok))
  /\ UNCHANGED <<published, leftover, local, live, canary, sweep, resultVars, buildVars>>

BuildStep(d) ==
  \/ BeginBuild(d) \/ BuildGitPull(d) \/ BuildGitFailed(d) \/ TagOfCommit(d)
  \/ SpawnBuild(d) \/ BuildExits(d) \/ BuildDrained(d) \/ BuildCancelled(d)
  \/ BeforePush(d) \/ Push(d)
  \/ BeforeLatest(d) \/ TagLatest(d) \/ PushLatest(d)
===============================================================================
