--------------------------- MODULE AutoUpdateProofs ---------------------------
(***************************************************************************)
(* What an update does to the binary, for any versions, deployments and    *)
(* restart modes, and any number of releases, forced updates and faults.   *)
(***************************************************************************)
EXTENDS AutoUpdate, TLAPS

USE UpdateAssumption

Phases == {"idle", "waiting", "checked", "deferring", "rechecking", "downloading",
           "downloaded", "verified", "canary", "healthy", "backed", "installed",
           "restarting", "exiting", "spawned", "handover"}
Kinds == {"timer", "deferred", "forced"}
Lists == [Tasks -> {"queued", "running", None}]
UpdateRecords == [at : Phases, kind : Kinds, goal : Versions, path : Paths]
ChildRecords == [state : {"none", "canary", "alive", "dead"}, ver : Versions,
                 from : Paths, has : Lists]

-------------------------------------------------------------------------------
(* The inductive invariants                                                *)

UpdateTypeOK ==
  /\ disk \in [Paths -> Files \cup {None}]
  /\ img \in Paths \cup {"gone"}
  /\ temp \in [Versions -> Builds \cup {None}]
  /\ published \in Versions
  /\ version \in Versions
  /\ pending \in Versions \cup {None}
  /\ upd \in [Updaters -> UpdateRecords]
  /\ child \in ChildRecords
  /\ records \in Lists
  /\ proc \in {"up", "down"}
  /\ relaunch \in Paths \cup {None}

\* The hosts on which no update starts before the last one has ended.
OneUpdater == \A u, w \in Updaters : u = w

\* What a finished step of the update has established, and nobody undoes while
\* updates do not overlap.
StepsHold(u) ==
  /\ upd[u].at \in {"verified", "canary"} /\ upd[u].goal \in Checksummed
     => temp[upd[u].goal] \in {"good", "broken"}
  /\ upd[u].at \in {"healthy", "backed"}
     => Sound([ver |-> upd[u].goal, build |-> temp[upd[u].goal]])
  /\ upd[u].at # "idle" => proc = "up"

\* The installed file is there, or the backup is and, unless the process has
\* died, the updater that moved it is still there to put it back.  The image of
\* the process is a file or is gone.  A process that takes over is watched.
DiskInv ==
  /\ \A p \in Paths : disk[p] # None => Sound(disk[p])
  /\ disk["exe"] = None => disk["bak"] # None
  /\ proc = "up" /\ disk["exe"] = None
     => \E u \in Updaters : upd[u].at = "backed" /\ upd[u].path = "exe"
  /\ proc = "up" /\ img # "gone" => disk[img] # None
  /\ proc = "down" /\ relaunch \in {"bak", "odd"} => disk["exe"] # None
  /\ child.state = "alive"
     => /\ disk[child.from] # None
        /\ \E u \in Updaters : upd[u].at \in {"spawned", "handover", "exiting"}

UpdateInv == UpdateTypeOK /\ (\A u \in Updaters : StepsHold(u)) /\ DiskInv

-------------------------------------------------------------------------------
(* Typing                                                                  *)

LEMMA IdleTyped == Idle \in UpdateRecords /\ NoChild \in ChildRecords
BY DEF Idle, NoChild, NoRecords, UpdateRecords, ChildRecords, Lists, Phases, Kinds, Paths

LEMMA UpdateTypeInit == Init => UpdateTypeOK
<1> SUFFICES ASSUME Init
             PROVE  UpdateTypeOK
  OBVIOUS
<1>1. [ver |-> FirstVersion, build |-> "good"] \in Files
  BY DEF Files, Builds
<1>2. disk \in [Paths -> Files \cup {None}]
  BY <1>1 DEF Init
<1>3. child \in ChildRecords /\ upd \in [Updaters -> UpdateRecords] /\ records \in Lists
  BY IdleTyped DEF Init, NoRecords, Lists
<1>4. QED
  BY <1>2, <1>3 DEF Init, UpdateTypeOK, Paths

LEMMA RecordedTyped == \A tasks : Recorded(tasks) \in Lists
BY DEF Recorded, Lists

\* Where the image of the running process may be asked for.
LEMMA ExeTyped == UpdateTypeOK => current_exe \in Paths
BY DEF UpdateTypeOK, current_exe, Paths

\* Two updaters' records differ only where one of them moves.
LEMMA UpdTyped ==
  ASSUME UpdateTypeOK, NEW u \in Updaters,
         \/ \E p, q \in Phases : Goes(u, p, q)
         \/ \E p \in Phases : Ends(u, p)
         \/ \E p \in Phases, k \in Kinds, g \in Versions : Starts(u, p, k, g)
  PROVE  upd' \in [Updaters -> UpdateRecords]
<1>1. upd[u] \in UpdateRecords /\ upd \in [Updaters -> UpdateRecords]
  BY DEF UpdateTypeOK
<1>2. CASE \E p, q \in Phases : Goes(u, p, q)
  BY <1>1, <1>2 DEF Goes, UpdateRecords
<1>3. CASE \E p \in Phases : Ends(u, p)
  BY <1>1, <1>3, IdleTyped DEF Ends
<1>4. CASE \E p \in Phases, k \in Kinds, g \in Versions : Starts(u, p, k, g)
  BY <1>1, <1>4 DEF Starts, UpdateRecords, Idle, Paths
<1>5. QED
  BY <1>2, <1>3, <1>4

LEMMA MoveTyped ==
  ASSUME UpdateTypeOK, NEW from \in Paths, NEW to \in Paths, Move(from, to)
  PROVE  disk' \in [Paths -> Files \cup {None}] /\ img' \in Paths \cup {"gone"}
BY DEF UpdateTypeOK, Move

\* When the process dies or hands over every update ends.
LEMMA ExitsTyped ==
  ASSUME UpdateTypeOK, NEW next \in Paths \cup {None}, Dies(next) \/ Exits(next) \/ HandsOver,
         UNCHANGED <<hostVars, disk, temp>>
  PROVE  UpdateTypeOK'
<1>1. CASE Dies(next)
  BY <1>1, IdleTyped DEF Dies, UpdateTypeOK, taskVars, hostVars
<1>2. CASE HandsOver
  <2>1. child.ver \in Versions /\ child.from \in Paths
    BY DEF UpdateTypeOK, ChildRecords
  <2>2. QED
    BY <1>2, <2>1, IdleTyped DEF HandsOver, UpdateTypeOK, hostVars
<1>3. QED
  BY <1>1, <1>2 DEF Exits

LEMMA UpdateTypeStep ==
  ASSUME UpdateTypeOK, NEW u \in Updaters, UpdateStep(u)
  PROVE  UpdateTypeOK'
<1> DEFINE v == upd[u].goal
           path == upd[u].path
<1>1. upd[u] \in UpdateRecords /\ v \in Versions /\ path \in Paths
  BY DEF UpdateTypeOK, UpdateRecords
<1>2. ASSUME UNCHANGED <<hostVars, procVars, disk, img, records>>,
             pending' \in Versions \cup {None},
             upd' \in [Updaters -> UpdateRecords],
             temp' \in [Versions -> Builds \cup {None}]
      PROVE  UpdateTypeOK'
  BY <1>2 DEF UpdateTypeOK, hostVars, procVars
<1>3. ASSUME UNCHANGED <<hostVars, version, proc, relaunch, records>>,
             pending' \in Versions \cup {None},
             upd' \in [Updaters -> UpdateRecords],
             temp' \in [Versions -> Builds \cup {None}],
             disk' \in [Paths -> Files \cup {None}],
             img' \in Paths \cup {"gone"},
             child' \in ChildRecords
      PROVE  UpdateTypeOK'
  BY <1>3 DEF UpdateTypeOK, hostVars
<1> USE DEF flagVars, fileVars, taskVars, procVars, Fails, reset_flags
<1>4. CASE FindBusy(u) \/ DeferUpdate(u) \/ BeginUpdate(u) \/ RecheckDeploys(u)
  <2>1. upd' \in [Updaters -> UpdateRecords]
    BY <1>4, UpdTyped DEF FindBusy, DeferUpdate, BeginUpdate, RecheckDeploys, Phases
  <2>2. pending' \in Versions \cup {None}
    BY <1>4, <1>1 DEF FindBusy, DeferUpdate, BeginUpdate, RecheckDeploys, UpdateTypeOK
  <2>3. QED
    BY <1>2, <1>4, <2>1, <2>2
       DEF FindBusy, DeferUpdate, BeginUpdate, RecheckDeploys, UpdateTypeOK
<1>5. CASE trigger_pending_update(u)
  <2>1. upd' \in [Updaters -> UpdateRecords]
    <3>1. CASE pending # None
      BY <1>1, <1>5, <3>1 DEF trigger_pending_update, UpdateTypeOK, UpdateRecords, Phases
    <3>2. CASE pending = None
      BY <1>5, <3>2, UpdTyped DEF trigger_pending_update, Phases
    <3>3. QED
      BY <3>1, <3>2
  <2>2. QED
    BY <1>2, <1>5, <2>1 DEF trigger_pending_update, UpdateTypeOK
<1>6. CASE DownloadBinary(u) \/ DownloadFails(u) \/ VerifyChecksum(u)
  <2>1. upd' \in [Updaters -> UpdateRecords]
    BY <1>6, UpdTyped DEF DownloadBinary, DownloadFails, VerifyChecksum, Phases
  <2>2. temp' \in [Versions -> Builds \cup {None}]
    BY <1>1, <1>6 DEF DownloadBinary, DownloadFails, VerifyChecksum, UpdateTypeOK, Builds
  <2>3. pending' \in Versions \cup {None}
    BY <1>6 DEF DownloadBinary, DownloadFails, VerifyChecksum, UpdateTypeOK
  <2>4. UNCHANGED <<hostVars, procVars, disk, img, records>>
    BY <1>6 DEF DownloadBinary, DownloadFails, VerifyChecksum
  <2>5. QED
    BY <1>2, <2>1, <2>2, <2>3, <2>4
<1>7. CASE StartCanary(u) \/ CanaryPasses(u) \/ CanaryFails(u)
  <2>1. upd' \in [Updaters -> UpdateRecords]
    BY <1>7, UpdTyped DEF StartCanary, CanaryPasses, CanaryFails, Phases
  <2>2. child' \in ChildRecords
    BY <1>1, <1>7, IdleTyped
       DEF StartCanary, CanaryPasses, CanaryFails, UpdateTypeOK, ChildRecords, Paths, NoRecords, NoChild
  <2>3. temp' \in [Versions -> Builds \cup {None}] /\ pending' \in Versions \cup {None}
    BY <1>7 DEF StartCanary, CanaryPasses, CanaryFails, UpdateTypeOK
  <2>4. QED
    BY <1>3, <1>7, <2>1, <2>2, <2>3 DEF StartCanary, CanaryPasses, CanaryFails, UpdateTypeOK
<1>8. CASE BackupBinary(u)
  <2>1. current_exe \in Paths
    BY ExeTyped
  <2>2. upd' \in [Updaters -> UpdateRecords]
    BY <1>1, <1>8, <2>1 DEF BackupBinary, UpdateTypeOK, UpdateRecords, Phases
  <2>3. disk' \in [Paths -> Files \cup {None}] /\ img' \in Paths \cup {"gone"}
    <3>1. "bak" \in Paths
      BY DEF Paths
    <3>2. QED
      BY <1>8, <2>1, <3>1, MoveTyped DEF BackupBinary, UpdateTypeOK
  <2>4. QED
    BY <1>3, <1>8, <2>2, <2>3 DEF BackupBinary, UpdateTypeOK
<1>9. CASE BackupFails(u) \/ PermissionFails(u)
  <2>1. upd' \in [Updaters -> UpdateRecords]
    BY <1>9, UpdTyped DEF BackupFails, PermissionFails, Phases
  <2>2. QED
    BY <1>2, <1>9, <2>1 DEF BackupFails, PermissionFails, UpdateTypeOK
<1>10. CASE InstallBinary(u)
  <2>1. upd' \in [Updaters -> UpdateRecords]
    BY <1>10, UpdTyped DEF InstallBinary, Phases
  <2>2. [ver |-> v, build |-> temp[v]] \in Files
    BY <1>1, <1>10 DEF InstallBinary, UpdateTypeOK, Files
  <2>3. disk' \in [Paths -> Files \cup {None}] /\ img' \in Paths \cup {"gone"}
    BY <1>10, <2>2 DEF InstallBinary, UpdateTypeOK
  <2>4. temp' \in [Versions -> Builds \cup {None}]
    BY <1>10 DEF InstallBinary, UpdateTypeOK
  <2>5. QED
    BY <1>3, <1>10, <2>1, <2>3, <2>4 DEF InstallBinary, UpdateTypeOK
<1>11. CASE InstallFails(u)
  <2>1. upd' \in [Updaters -> UpdateRecords]
    BY <1>11, UpdTyped DEF InstallFails, Phases
  <2>2. disk' \in [Paths -> Files \cup {None}] /\ img' \in Paths \cup {"gone"}
    <3>1. "bak" \in Paths
      BY DEF Paths
    <3>2. CASE Move("bak", path)
      BY <1>1, <3>1, <3>2, MoveTyped
    <3>3. CASE UNCHANGED <<disk, img>>
      BY <3>3 DEF UpdateTypeOK
    <3>4. QED
      BY <1>11, <3>2, <3>3 DEF InstallFails, restore
  <2>3. QED
    BY <1>3, <1>11, <2>1, <2>2 DEF InstallFails, UpdateTypeOK
<1>12. CASE CleanBackup(u)
  <2>1. upd' \in [Updaters -> UpdateRecords]
    BY <1>12, UpdTyped DEF CleanBackup, Phases
  <2>2. disk' \in [Paths -> Files \cup {None}] /\ img' \in Paths \cup {"gone"}
    BY <1>12 DEF CleanBackup, UpdateTypeOK
  <2>3. QED
    BY <1>3, <1>12, <2>1, <2>2 DEF CleanBackup, UpdateTypeOK
<1>13. CASE ScheduleRestart(u)
  <2>1. CASE Dies(path)
    BY <1>1, <1>13, <2>1, ExitsTyped DEF ScheduleRestart
  <2>2. CASE /\ \/ Goes(u, "restarting", "exiting") /\ UNCHANGED flagVars
                \/ Fails(u, "restarting")
             /\ UNCHANGED <<procVars, img, taskVars>>
    <3>1. upd' \in [Updaters -> UpdateRecords]
      BY <2>2, UpdTyped DEF Phases
    <3>2. pending' \in Versions \cup {None}
      BY <2>2 DEF UpdateTypeOK
    <3>3. QED
      BY <1>2, <1>13, <2>2, <3>1, <3>2 DEF ScheduleRestart, UpdateTypeOK
  <2>3. QED
    BY <1>13, <2>1, <2>2, Zenon DEF ScheduleRestart
<1>14. CASE ExitForRestart(u)
  <2>1. Scheduled(u) \subseteq Paths \cup {None}
    BY <1>1 DEF Scheduled, Paths
  <2>2. QED
    BY <1>14, <2>1, ExitsTyped DEF ExitForRestart
<1>15. CASE SpawnTakeover(u)
  <2>1. upd' \in [Updaters -> UpdateRecords]
    BY <1>15, UpdTyped DEF SpawnTakeover, Phases
  <2>2. child' \in ChildRecords
    BY <1>1, <1>15 DEF SpawnTakeover, UpdateTypeOK, ChildRecords, Files
  <2>3. QED
    BY <1>3, <1>15, <2>1, <2>2 DEF SpawnTakeover, UpdateTypeOK
<1>16. CASE CheckTakeover(u)
  <2>1. upd' \in [Updaters -> UpdateRecords]
    BY <1>16, UpdTyped DEF CheckTakeover, Phases
  <2>2. child' \in ChildRecords
    BY <1>16, IdleTyped DEF CheckTakeover, UpdateTypeOK
  <2>3. pending' \in Versions \cup {None}
    BY <1>16 DEF CheckTakeover, UpdateTypeOK
  <2>4. QED
    BY <1>3, <1>16, <2>1, <2>2, <2>3 DEF CheckTakeover, UpdateTypeOK
<1>17. QED
  BY <1>4, <1>5, <1>6, <1>7, <1>8, <1>9, <1>10, <1>11, <1>12, <1>13, <1>14, <1>15, <1>16
     DEF UpdateStep

\* A deployment leaves the binary, the process and the updaters alone, but for
\* the updater that the end of the last one may start.
LEMMA DeploymentSteps ==
  ASSUME UpdateTypeOK, NEW t \in Tasks, AcceptTask(t) \/ FinishTask(t) \/ DriverStep(t)
  PROVE  /\ UNCHANGED <<hostVars, procVars, fileVars, flagVars>>
         /\ records' \in Lists
         /\ \/ UNCHANGED upd
            \/ /\ proc = "up"
               /\ \E u \in Updaters : Starts(u, "waiting", "deferred", FirstVersion)
<1> USE DEF UpdateTypeOK
<1>1. CASE AcceptTask(t) \/ FinishTask(t)
  BY <1>1, RecordedTyped DEF AcceptTask, FinishTask, save
<1>2. CASE RemoveRecord(t) \/ Unregister(t) \/ PromoteTask(t) \/ RegisterTask(t) \/ ExpireTask(t)
  BY <1>2, RecordedTyped
     DEF RemoveRecord, Unregister, PromoteTask, RegisterTask, ExpireTask, save
<1>3. CASE DrainTask(t)
  BY <1>3, Zenon DEF DrainTask
<1>4. CASE \E q \in Tasks : PopTask(t, q)
  BY <1>4 DEF PopTask
<1>5. QED
  BY <1>1, <1>2, <1>3, <1>4 DEF DriverStep

\* So does a task of the second process, which writes records of its own.
LEMMA ChildSteps ==
  ASSUME UpdateTypeOK, NEW t \in Tasks, ChildEnds(t)
  PROVE  /\ UNCHANGED <<hostVars, version, proc, relaunch, fileVars, upd, flagVars>>
         /\ records' \in Lists
         /\ child' \in ChildRecords
         /\ child'.state = child.state /\ child'.from = child.from
<1> DEFINE left == [child.has EXCEPT ![t] = None]
<1>1. child \in ChildRecords /\ child.has \in Lists
  BY DEF UpdateTypeOK, ChildRecords
<1>2. left \in Lists /\ \A q \in Tasks : [left EXCEPT ![q] = "running"] \in Lists
  BY <1>1 DEF Lists
<1>3. PICK list \in Lists : child' = [child EXCEPT !.has = list] /\ records' = list
  BY <1>2 DEF ChildEnds
<1>4. QED
  BY <1>1, <1>3 DEF ChildEnds, ChildRecords

LEMMA UpdateTypeNext == UpdateTypeOK /\ [Next]_vars => UpdateTypeOK'
<1> SUFFICES ASSUME UpdateTypeOK, [Next]_vars
             PROVE  UpdateTypeOK'
  OBVIOUS
<1>1. ASSUME NEW u \in Updaters, UpdateStep(u)
      PROVE  UpdateTypeOK'
  BY <1>1, UpdateTypeStep
<1>2. ASSUME NEW u \in Updaters, CheckUpdate(u) \/ force_update(u)
      PROVE  UpdateTypeOK'
  <2>1. published \in Versions
    BY DEF UpdateTypeOK
  <2>2. upd' \in [Updaters -> UpdateRecords]
    BY <1>2, <2>1, UpdTyped DEF CheckUpdate, force_update, Phases, Kinds
  <2>3. QED
    BY <1>2, <2>2 DEF CheckUpdate, force_update, UpdateTypeOK, hostVars, procVars, fileVars,
                      flagVars, taskVars
<1>3. ASSUME NEW t \in Tasks, AcceptTask(t) \/ FinishTask(t) \/ DriverStep(t)
      PROVE  UpdateTypeOK'
  <2>1. upd' \in [Updaters -> UpdateRecords]
    BY <1>3, DeploymentSteps, UpdTyped DEF UpdateTypeOK, Phases, Kinds
  <2>2. QED
    BY <1>3, <2>1, DeploymentSteps DEF UpdateTypeOK, hostVars, procVars, fileVars, flagVars
<1>4. ASSUME NEW t \in Tasks, ChildEnds(t)
      PROVE  UpdateTypeOK'
  BY <1>4, ChildSteps DEF UpdateTypeOK, hostVars, fileVars, flagVars
<1>5. ASSUME NEW v \in Versions, Publish(v)
      PROVE  UpdateTypeOK'
  BY <1>5 DEF Publish, UpdateTypeOK, procVars, fileVars, flagVars, taskVars
<1>6. CASE BindFails
  BY <1>6, IdleTyped DEF BindFails, UpdateTypeOK, ChildRecords, NoChild, hostVars, fileVars,
                         flagVars, taskVars
<1>7. CASE TakeoverComplete
  BY <1>7, ExitsTyped DEF TakeoverComplete
<1>8. CASE StartProcess
  <2>1. relaunch # None => disk[relaunch] \in Files \cup {None}
    BY DEF UpdateTypeOK
  <2>2. disk["exe"] \in Files \cup {None}
    BY DEF UpdateTypeOK, Paths
  <2>3. version' \in Versions /\ img' \in Paths
    BY <1>8, <2>1, <2>2 DEF StartProcess, UpdateTypeOK, Files, Paths
  <2>4. QED
    BY <1>8, <2>3 DEF StartProcess, UpdateTypeOK, hostVars, flagVars
<1>9. CASE Crash
  <2>1. Supervised \subseteq Paths \cup {None}
    BY DEF Supervised, UpdateTypeOK, UpdateRecords, Paths
  <2>2. QED
    BY <1>9, <2>1, ExitsTyped DEF Crash
<1>10. CASE UNCHANGED vars
  BY <1>10 DEF vars, UpdateTypeOK
<1>11. QED
  BY <1>1, <1>2, <1>3, <1>4, <1>5, <1>6, <1>7, <1>8, <1>9, <1>10 DEF Next

-------------------------------------------------------------------------------
(* The binary                                                              *)

LEMMA UpdateInvInit == Init => UpdateInv
<1> SUFFICES ASSUME Init
             PROVE  UpdateInv
  OBVIOUS
<1>1. UpdateTypeOK
  BY UpdateTypeInit
<1>2. [ver |-> FirstVersion, build |-> "good"] # None
  BY DEF Files, Builds
<1>3. disk["exe"] = [ver |-> FirstVersion, build |-> "good"]
      /\ \A p \in Paths : p # "exe" => disk[p] = None
  BY DEF Init, Paths
<1>4. DiskInv
  BY <1>2, <1>3 DEF Init, DiskInv, Sound, Startable, NoChild
<1>5. \A u \in Updaters : StepsHold(u)
  BY DEF Init, StepsHold, Idle
<1>6. QED
  BY <1>1, <1>4, <1>5 DEF UpdateInv

\* A step that touches no file, and that begins and ends outside of the part of
\* an update from the verified download to the installed binary.
LEMMA FilesRest ==
  ASSUME UpdateInv, NEW u \in Updaters, \A w \in Updaters : w = u,
         UNCHANGED <<disk, img>>, proc = "up", UNCHANGED <<proc, relaunch>>,
         upd[u].at # "backed",
         upd'[u].at \notin {"verified", "canary", "healthy", "backed"},
         child'.state # "alive" \/ (upd'[u].at \in {"spawned", "handover", "exiting"}
                                    /\ disk[child'.from] # None)
  PROVE  StepsHold(u)' /\ DiskInv'
BY DEF UpdateInv, StepsHold, DiskInv

\* When the process dies or hands over, the files stay, and its successor is the
\* process that takes over or starts from the installed file or its backup.
LEMMA FilesOutlive ==
  ASSUME UpdateInv, NEW u \in Updaters, \A w \in Updaters : w = u, proc = "up",
         NEW next \in Paths \cup {None},
         next \in {"bak", "odd"} => upd[u].at # "backed",
         Dies(next) \/ Exits(next) \/ (child.state = "alive" /\ HandsOver),
         UNCHANGED disk
  PROVE  StepsHold(u)' /\ DiskInv'
<1>1. StepsHold(u) /\ DiskInv /\ UpdateTypeOK
  BY DEF UpdateInv
<1>2. upd'[u].at = "idle" /\ child'.state = "none"
  BY DEF Exits, Dies, HandsOver, Idle, NoChild
<1>3. StepsHold(u)'
  BY <1>2 DEF StepsHold
<1>4. CASE Dies(next)
  <2>1. next \in {"bak", "odd"} => disk["exe"] # None
    BY <1>1 DEF DiskInv
  <2>2. proc' = "down" /\ relaunch' = next /\ UNCHANGED disk
    BY <1>4 DEF Dies
  <2>3. QED
    BY <1>1, <1>2, <1>3, <2>1, <2>2 DEF DiskInv
<1>5. CASE child.state = "alive" /\ HandsOver
  <2>1. disk[child.from] # None /\ upd[u].at # "backed"
    BY <1>1, <1>5 DEF DiskInv
  <2>2. disk["exe"] # None
    BY <1>1, <2>1 DEF DiskInv
  <2>3. proc' = "up" /\ img' = child.from /\ UNCHANGED disk
    BY <1>5 DEF HandsOver
  <2>4. QED
    BY <1>1, <1>2, <1>3, <2>1, <2>2, <2>3 DEF DiskInv
<1>6. QED
  BY <1>3, <1>4, <1>5 DEF Exits

LEMMA UpdateInvStep ==
  ASSUME UpdateInv, NEW u \in Updaters, \A w \in Updaters : w = u, UpdateStep(u)
  PROVE  StepsHold(u)' /\ DiskInv'
<1> DEFINE v == upd[u].goal
           path == upd[u].path
           file == [ver |-> v, build |-> temp[v]]
<1>1. StepsHold(u) /\ DiskInv /\ UpdateTypeOK
  BY DEF UpdateInv
<1>2. upd \in [Updaters -> UpdateRecords] /\ upd[u] \in UpdateRecords
      /\ v \in Versions /\ path \in Paths
  BY <1>1 DEF UpdateTypeOK, UpdateRecords
<1>3. proc = "up"
  <2>1. upd[u].at # "idle"
    BY <1>2 DEF UpdateStep, FindBusy, DeferUpdate, BeginUpdate, trigger_pending_update,
      RecheckDeploys, DownloadBinary, DownloadFails, VerifyChecksum, StartCanary, CanaryPasses,
      CanaryFails, BackupBinary, BackupFails, InstallBinary, InstallFails, CleanBackup,
      PermissionFails, ScheduleRestart, ExitForRestart, SpawnTakeover, CheckTakeover,
      Goes, Ends, Fails
  <2>2. QED
    BY <1>1, <2>1 DEF StepsHold
<1>4. child.state = "alive" => upd[u].at \in {"spawned", "handover", "exiting"}
                               /\ disk[child.from] # None
  BY <1>1 DEF DiskInv
<1>5. upd[u].at # "backed" => disk["exe"] # None
  BY <1>1, <1>3 DEF DiskInv
<1>6. /\ \A p, q \in Phases : Goes(u, p, q) =>
           /\ upd[u].at = p /\ upd'[u].at = q
           /\ upd'[u].goal = v /\ upd'[u].path = path
      /\ \A p \in Phases : Ends(u, p) => upd[u].at = p /\ upd'[u].at = "idle"
  BY <1>2 DEF Goes, Ends, UpdateRecords, Idle
<1> USE DEF flagVars, fileVars, procVars
<1>7. CASE \/ FindBusy(u) \/ DeferUpdate(u) \/ BeginUpdate(u) \/ RecheckDeploys(u)
           \/ trigger_pending_update(u)
  <2>1. /\ upd[u].at \in {"checked", "deferring", "rechecking", "waiting"}
        /\ upd'[u].at \in {"deferring", "downloading", "rechecking", "idle"}
        /\ UNCHANGED <<disk, img, proc, relaunch, child>>
    BY <1>2, <1>7
       DEF FindBusy, DeferUpdate, BeginUpdate, RecheckDeploys, trigger_pending_update,
           Goes, Ends, UpdateRecords, Idle
  <2>2. QED
    BY <1>3, <1>4, <2>1, FilesRest
<1>8. CASE DownloadBinary(u) \/ DownloadFails(u)
  <2>1. /\ upd[u].at = "downloading" /\ upd'[u].at \in {"downloaded", "idle"}
        /\ UNCHANGED <<disk, img, proc, relaunch, child>>
    BY <1>6, <1>8 DEF DownloadBinary, DownloadFails, Fails, Phases
  <2>2. QED
    BY <1>3, <1>4, <2>1, FilesRest
<1>9. CASE VerifyChecksum(u)
  <2>1. CASE upd'[u].at # "verified"
    <3>1. /\ upd[u].at = "downloaded" /\ upd'[u].at = "idle"
          /\ UNCHANGED <<disk, img, proc, relaunch, child>>
      BY <1>6, <1>9, <2>1 DEF VerifyChecksum, Fails, Phases
    <3>2. QED
      BY <1>3, <1>4, <3>1, FilesRest
  <2>2. CASE upd'[u].at = "verified"
    <3>1. /\ upd[u].at = "downloaded" /\ upd'[u].goal = v
          /\ v \in Checksummed => temp[v] \in {"good", "broken"}
          /\ UNCHANGED <<temp, disk, img, proc, relaunch, child>>
      BY <1>6, <1>9, <2>2 DEF VerifyChecksum, Fails, Phases
    <3>2. StepsHold(u)'
      BY <1>3, <2>2, <3>1 DEF StepsHold
    <3>3. DiskInv'
      BY <1>1, <1>4, <1>5, <3>1 DEF DiskInv
    <3>4. QED
      BY <3>2, <3>3
  <2>3. QED
    BY <2>1, <2>2
<1>10. CASE StartCanary(u) \/ CanaryPasses(u)
  <2>1. /\ upd[u].at \in {"verified", "canary"} /\ upd'[u].goal = v
        /\ upd'[u].at \in {"canary", "healthy"}
        /\ upd'[u].at = "healthy" => temp[v] \in Startable
        /\ child'.state # "alive"
        /\ UNCHANGED <<temp, disk, img, proc, relaunch>>
    BY <1>6, <1>10 DEF StartCanary, CanaryPasses, Phases, NoChild
  <2>2. StepsHold(u)'
    BY <1>1, <1>3, <2>1 DEF StepsHold, Sound, Startable
  <2>3. DiskInv'
    BY <1>1, <1>5, <2>1 DEF DiskInv
  <2>4. QED
    BY <2>2, <2>3
<1>11. CASE CanaryFails(u)
  <2>1. /\ upd[u].at = "canary" /\ upd'[u].at = "idle" /\ child'.state = "none"
        /\ UNCHANGED <<disk, img, proc, relaunch>>
    BY <1>6, <1>11 DEF CanaryFails, Fails, Phases, NoChild
  <2>2. QED
    BY <1>3, <2>1, FilesRest
<1>12. CASE BackupBinary(u)
  <2>1. /\ upd[u].at = "healthy" /\ upd'[u].at = "backed" /\ upd'[u].goal = v
        /\ upd'[u].path = current_exe /\ UNCHANGED <<temp, proc, relaunch, child>>
    BY <1>2, <1>12 DEF BackupBinary, UpdateRecords
  <2>2. StepsHold(u)'
    BY <1>1, <1>3, <2>1 DEF StepsHold
  <2>3. child'.state # "alive"
    BY <1>4, <2>1
  <2>4. current_exe \in Paths /\ disk["exe"] # None
    BY <1>1, <1>5, <2>1, ExeTyped
  <2>5. CASE UNCHANGED <<disk, img>>
    <3>1. UNCHANGED <<disk, img, proc, relaunch>>
      BY <2>1, <2>5
    <3>2. DiskInv'
      BY <1>1, <1>3, <2>3, <2>4, <3>1 DEF DiskInv
    <3>3. QED
      BY <2>2, <3>2
  <2>6. CASE disk[current_exe] # None /\ current_exe # "bak" /\ Move(current_exe, "bak")
    <3>1. disk' = [disk EXCEPT !["bak"] = disk[current_exe], ![current_exe] = None]
      BY <2>6 DEF Move
    <3>2. /\ disk'["bak"] = disk[current_exe] /\ disk'[current_exe] = None
          /\ \A p \in Paths \ {"bak", current_exe} : disk'[p] = disk[p]
      BY <1>1, <2>4, <2>6, <3>1 DEF UpdateTypeOK, Paths
    <3>3. img' # "gone" => disk'[img'] # None
      BY <1>1, <1>3, <2>6, <3>2 DEF DiskInv, Move, UpdateTypeOK
    <3>4. disk'["exe"] = None => current_exe = "exe"
      BY <2>4, <3>2 DEF Paths
    <3>5. \A p \in Paths : disk'[p] # None => Sound(disk'[p])
      BY <1>1, <2>4, <3>2 DEF DiskInv
    <3>6. QED
      BY <1>3, <2>1, <2>2, <2>3, <2>6, <3>2, <3>3, <3>4, <3>5 DEF DiskInv
  <2>7. QED
    BY <1>12, <2>2, <2>5, <2>6 DEF BackupBinary, Move
<1>13. CASE BackupFails(u) \/ PermissionFails(u)
  <2>1. /\ upd[u].at \in {"healthy", "installed"} /\ upd'[u].at = "idle"
        /\ UNCHANGED <<disk, img, proc, relaunch, child>>
    BY <1>6, <1>13 DEF BackupFails, PermissionFails, Fails, Phases
  <2>2. QED
    BY <1>3, <1>4, <2>1, FilesRest
<1>14. CASE InstallBinary(u)
  <2>1. /\ upd[u].at = "backed" /\ upd'[u].at = "installed"
        /\ disk' = [disk EXCEPT ![path] = file]
        /\ img' = IF img = path THEN "gone" ELSE img
        /\ UNCHANGED <<proc, relaunch, child>>
    BY <1>6, <1>14 DEF InstallBinary, Phases
  <2>2. Sound(file) /\ file # None
    <3>1. temp[v] # None /\ temp[v] \in Builds \cup {None}
      BY <1>1, <1>2, <1>14 DEF InstallBinary, UpdateTypeOK
    <3>2. file \in Files
      BY <1>2, <3>1 DEF Files
    <3>3. QED
      BY <1>1, <2>1, <3>2 DEF StepsHold
  <2>3. disk'[path] = file /\ \A p \in Paths \ {path} : disk'[p] = disk[p]
    BY <1>1, <1>2, <2>1 DEF UpdateTypeOK
  <2>4. disk'["exe"] # None
    <3>1. CASE path = "exe"
      BY <2>2, <2>3, <3>1
    <3>2. CASE path # "exe"
      <4>1. disk["exe"] # None
        BY <1>1, <1>3, <3>2 DEF DiskInv
      <4>2. QED
        BY <2>3, <3>2, <4>1 DEF Paths
    <3>3. QED
      BY <3>1, <3>2
  <2>5. \A p \in Paths : disk'[p] # None => Sound(disk'[p])
    BY <1>1, <2>2, <2>3 DEF DiskInv
  <2>6. img' # "gone" => disk'[img'] # None
    BY <1>1, <1>3, <2>1, <2>3 DEF DiskInv, UpdateTypeOK
  <2>7. child'.state # "alive"
    BY <1>4, <2>1
  <2>8. StepsHold(u)'
    BY <1>3, <2>1 DEF StepsHold
  <2>9. QED
    BY <1>3, <2>1, <2>4, <2>5, <2>6, <2>7, <2>8 DEF DiskInv
<1>15. CASE InstallFails(u)
  <2>1. /\ upd[u].at = "backed" /\ upd'[u].at = "idle"
        /\ restore(u) /\ UNCHANGED <<proc, relaunch, child>>
    BY <1>6, <1>15 DEF InstallFails, Fails, Phases
  <2>2. child'.state # "alive" /\ StepsHold(u)'
    BY <1>3, <1>4, <2>1 DEF StepsHold
  <2>3. "bak" \in Paths /\ "exe" \in Paths
    BY DEF Paths
  <2>4. CASE UNCHANGED <<disk, img>> /\ disk["exe"] # None
    BY <1>1, <2>1, <2>2, <2>4 DEF DiskInv
  <2>5. CASE disk["bak"] # None /\ path # "bak" /\ Move("bak", path)
    <3>1. /\ disk' = [disk EXCEPT ![path] = disk["bak"], !["bak"] = None]
          /\ img' = IF img = "bak" THEN path ELSE IF img = path THEN "gone" ELSE img
      BY <2>5 DEF Move
    <3>2. /\ disk'[path] = disk["bak"] /\ disk'["bak"] = None
          /\ \A p \in Paths \ {"bak", path} : disk'[p] = disk[p]
      BY <1>1, <1>2, <2>3, <2>5, <3>1 DEF UpdateTypeOK
    <3>3. img' # "gone" => disk'[img'] # None
      BY <1>1, <1>3, <2>5, <3>1, <3>2 DEF DiskInv, UpdateTypeOK
    <3>4. disk'["exe"] # None
      BY <1>1, <1>3, <2>3, <2>5, <3>2 DEF DiskInv
    <3>5. \A p \in Paths : disk'[p] # None => Sound(disk'[p])
      BY <1>1, <2>3, <3>2 DEF DiskInv
    <3>6. QED
      BY <1>3, <2>1, <2>2, <3>3, <3>4, <3>5 DEF DiskInv
  <2>6. disk["exe"] = None => disk["bak"] # None /\ path = "exe" /\ ~InUse(path)
    BY <1>1, <1>3, <2>3 DEF DiskInv, InUse
  <2>7. QED
    BY <2>1, <2>2, <2>4, <2>5, <2>6 DEF restore, Move
<1>16. CASE CleanBackup(u)
  <2>1. /\ upd[u].at = "installed" /\ upd'[u].at = "restarting"
        /\ UNCHANGED <<proc, relaunch, child>>
    BY <1>6, <1>16 DEF CleanBackup, Phases
  <2>2. CASE UNCHANGED <<disk, img>>
    BY <1>3, <1>4, <2>1, <2>2, FilesRest
  <2>3. CASE /\ disk' = [disk EXCEPT !["bak"] = None]
             /\ img' = IF img = "bak" THEN "gone" ELSE img
    <3>1. disk["exe"] # None
      BY <1>5, <2>1
    <3>2. disk'["exe"] = disk["exe"] /\ \A p \in Paths : disk'[p] \in {disk[p], None}
      BY <1>1, <2>3 DEF UpdateTypeOK, Paths
    <3>3. img' # "gone" => disk'[img'] # None
      BY <1>1, <1>3, <2>3 DEF DiskInv, UpdateTypeOK
    <3>4. child'.state # "alive" /\ StepsHold(u)'
      BY <1>3, <1>4, <2>1 DEF StepsHold
    <3>5. QED
      BY <1>1, <1>3, <2>1, <3>1, <3>2, <3>3, <3>4 DEF DiskInv
  <2>4. QED
    BY <1>16, <2>2, <2>3 DEF CleanBackup
<1>17. CASE ScheduleRestart(u)
  <2>1. upd[u].at = "restarting" /\ UNCHANGED disk
    BY <1>17 DEF ScheduleRestart
  <2>2. CASE Dies(path)
    BY <1>2, <1>3, <2>1, <2>2, FilesOutlive
  <2>3. CASE /\ \/ Goes(u, "restarting", "exiting")
                \/ Fails(u, "restarting")
             /\ UNCHANGED <<procVars, img, taskVars>>
    <3>1. upd'[u].at \in {"exiting", "idle"} /\ UNCHANGED <<img, proc, relaunch, child>>
      BY <1>6, <2>3 DEF Fails, Phases
    <3>2. QED
      BY <1>3, <1>4, <2>1, <3>1, FilesRest
  <2>4. QED
    BY <1>17, <2>2, <2>3, Zenon DEF ScheduleRestart
<1>18. CASE ExitForRestart(u)
  <2>1. Scheduled(u) \subseteq Paths \cup {None}
    BY <1>2 DEF Scheduled, Paths
  <2>2. upd[u].at = "exiting" /\ UNCHANGED disk
    BY <1>18 DEF ExitForRestart
  <2>3. PICK next \in Scheduled(u) : Exits(next)
    BY <1>18 DEF ExitForRestart
  <2>4. QED
    BY <1>3, <2>1, <2>2, <2>3, FilesOutlive
<1>19. CASE SpawnTakeover(u)
  <2>1. /\ upd[u].at = "restarting" /\ upd'[u].at \in {"idle", "spawned"}
        /\ UNCHANGED <<disk, img, proc, relaunch>>
    BY <1>6, <1>19 DEF SpawnTakeover, Fails, Phases
  <2>2. upd'[u].at = "idle" => child' = child
    BY <1>6, <1>19 DEF SpawnTakeover, Fails, Phases
  <2>3. upd'[u].at = "spawned" => child'.from = path /\ disk[path] # None
    BY <1>6, <1>19 DEF SpawnTakeover, Fails, Phases
  <2>4. QED
    BY <1>3, <1>4, <2>1, <2>2, <2>3, FilesRest
<1>20. CASE CheckTakeover(u)
  <2>1. /\ upd[u].at \in {"spawned", "handover"}
        /\ upd'[u].at \in {"handover", "idle", "exiting"}
        /\ UNCHANGED <<disk, img, proc, relaunch>>
        /\ child' = NoChild \/ (child' = child /\ upd'[u].at # "idle")
    BY <1>6, <1>20 DEF CheckTakeover, Fails, Phases
  <2>2. QED
    BY <1>3, <1>4, <2>1, FilesRest DEF NoChild
<1>21. QED
  BY <1>7, <1>8, <1>9, <1>10, <1>11, <1>12, <1>13, <1>14, <1>15, <1>16, <1>17, <1>18, <1>19,
     <1>20 DEF UpdateStep

\* The steps that touch the binary keep the order download, check, canary, backup,
\* install; the process that dies in between takes its updater with it.
LEMMA UpdateInvNext ==
  ASSUME OneUpdater, UpdateInv, [Next]_vars
  PROVE  UpdateInv'
<1>1. UpdateTypeOK /\ UpdateTypeOK'
  BY UpdateTypeNext DEF UpdateInv
<1>2. ASSUME NEW u \in Updaters, StepsHold(u)' /\ DiskInv'
      PROVE  UpdateInv'
  <2>1. \A w \in Updaters : w = u
    BY DEF OneUpdater
  <2>2. \A w \in Updaters : StepsHold(w)'
    BY <1>2, <2>1
  <2>3. QED
    BY <1>1, <1>2, <2>2 DEF UpdateInv
<1>3. ASSUME UNCHANGED <<disk, img, temp, proc, relaunch, upd>>,
             child'.state = "alive" => child.state = "alive" /\ child'.from = child.from
      PROVE  UpdateInv'
  <2>1. \A u \in Updaters : StepsHold(u)'
    BY <1>3 DEF UpdateInv, StepsHold
  <2>2. DiskInv'
    BY <1>3 DEF UpdateInv, DiskInv
  <2>3. QED
    BY <1>1, <2>1, <2>2 DEF UpdateInv
<1> USE DEF fileVars, procVars
<1>4. ASSUME NEW u \in Updaters, UpdateStep(u)
      PROVE  UpdateInv'
  BY <1>2, <1>4, UpdateInvStep DEF OneUpdater
<1>5. ASSUME NEW u \in Updaters, NEW at \in {"waiting", "checked", "downloading"}, NEW kind, NEW v,
             Starts(u, at, kind, v), proc = "up", UNCHANGED <<disk, img, proc, relaunch, child>>
      PROVE  UpdateInv'
  <2>1. upd[u].at = "idle" /\ upd'[u].at = at
    BY <1>1, <1>5 DEF Starts, UpdateTypeOK, Idle
  <2>2. child'.state # "alive"
    BY <1>5, <2>1 DEF UpdateInv, DiskInv, OneUpdater
  <2>3. QED
    BY <1>2, <1>5, <2>1, <2>2, FilesRest DEF OneUpdater
<1>6. ASSUME NEW u \in Updaters, CheckUpdate(u) \/ force_update(u)
      PROVE  UpdateInv'
  BY <1>5, <1>6 DEF CheckUpdate, force_update
<1>7. ASSUME NEW t \in Tasks, AcceptTask(t) \/ FinishTask(t) \/ DriverStep(t)
      PROVE  UpdateInv'
  <2>1. /\ UNCHANGED <<disk, img, temp, proc, relaunch, child>>
        /\ \/ UNCHANGED upd
           \/ /\ proc = "up"
              /\ \E u \in Updaters : Starts(u, "waiting", "deferred", FirstVersion)
    BY <1>1, <1>7, DeploymentSteps
  <2>2. QED
    BY <1>3, <1>5, <2>1
<1>8. ASSUME NEW t \in Tasks, ChildEnds(t)
      PROVE  UpdateInv'
  BY <1>1, <1>3, <1>8, ChildSteps
<1>9. ASSUME NEW v \in Versions, Publish(v)
      PROVE  UpdateInv'
  BY <1>3, <1>9 DEF Publish
<1>10. CASE BindFails
  BY <1>3, <1>10, IdleTyped DEF BindFails, ChildRecords
<1>11. CASE TakeoverComplete
  <2>1. PICK u \in Updaters : upd[u].at \in {"spawned", "handover", "exiting"}
    BY <1>11 DEF TakeoverComplete, UpdateInv, DiskInv
  <2>2. QED
    BY <1>2, <1>11, <2>1, FilesOutlive DEF TakeoverComplete, OneUpdater
<1>12. CASE StartProcess
  <2>1. \A u \in Updaters : upd[u].at = "idle"
    BY <1>12 DEF StartProcess, UpdateInv, StepsHold
  <2>2. disk["exe"] # None /\ disk[img'] # None /\ UNCHANGED <<disk, temp, upd, child>>
    BY <1>1, <1>12 DEF StartProcess, UpdateInv, DiskInv, UpdateTypeOK, Paths
  <2>3. child.state # "alive"
    BY <2>1 DEF UpdateInv, DiskInv
  <2>4. (\A u \in Updaters : StepsHold(u)') /\ DiskInv'
    BY <1>12, <2>1, <2>2, <2>3 DEF UpdateInv, StepsHold, DiskInv, StartProcess
  <2>5. QED
    BY <1>1, <2>4 DEF UpdateInv
<1>13. CASE Crash
  <2>1. PICK next \in Supervised : Exits(next)
    BY <1>13 DEF Crash
  <2>2. CASE \E u \in Updaters : TRUE
    <3>1. PICK u \in Updaters : \A w \in Updaters : w = u
      BY <2>2 DEF OneUpdater
    <3>2. next \in Paths \cup {None} /\ (next \in {"bak", "odd"} => upd[u].at # "backed")
      BY <1>1, <2>1, <3>1 DEF Supervised, UpdateTypeOK, UpdateRecords, Paths
    <3>3. QED
      BY <1>2, <1>13, <2>1, <3>1, <3>2, FilesOutlive DEF Crash
  <2>3. CASE ~\E u \in Updaters : TRUE
    <3>1. disk["exe"] # None /\ child.state # "alive" /\ UNCHANGED disk /\ proc = "up"
      BY <1>13, <2>3 DEF Crash, UpdateInv, DiskInv
    <3>2. Dies(next)
      BY <2>1, <3>1 DEF Exits
    <3>3. DiskInv'
      BY <3>1, <3>2 DEF UpdateInv, DiskInv, Dies, NoChild
    <3>4. QED
      BY <1>1, <2>3, <3>3 DEF UpdateInv
  <2>4. QED
    BY <2>2, <2>3
<1>14. CASE UNCHANGED vars
  BY <1>3, <1>14 DEF vars
<1>15. QED
  BY <1>4, <1>6, <1>7, <1>8, <1>9, <1>10, <1>11, <1>12, <1>13, <1>14 DEF Next

\* Without overlap, every step leaves what the next one of the update relies on.
LEMMA UpdateInvariant ==
  ASSUME OneUpdater
  PROVE  Spec => []UpdateInv
<1>1. UpdateInv /\ [Next]_vars => UpdateInv'
  BY UpdateInvNext
<1>2. QED
  BY <1>1, UpdateInvInit, PTL DEF Spec

\* autoupdate.rs leaves the host a binary that comes up at every moment of an
\* update, whichever of its steps fails, wherever it dies, however it restarts and
\* whatever name the running image has by then.
THEOREM AgentStarts ==
  ASSUME OneUpdater
  PROVE  Spec => []AgentCanStart
<1>1. UpdateInv => AgentCanStart
  BY DEF UpdateInv, DiskInv, Sound, AgentCanStart, Paths
<1>2. QED
  BY <1>1, UpdateInvariant, PTL

\* Whatever ended an update (an error of a step, the death of the canary or of
\* the process that takes over), the running agent's binary is in its place.
THEOREM BinaryIsKept ==
  ASSUME OneUpdater
  PROVE  Spec => []FailedUpdateKeepsBinary
<1>1. UpdateInv => FailedUpdateKeepsBinary
  BY DEF UpdateInv, DiskInv, FailedUpdateKeepsBinary
<1>2. QED
  BY <1>1, UpdateInvariant, PTL

\* Nothing is installed that verify_checksum or run_canary_health_check would
\* have refused, however long the file lay in the temporary directory.
THEOREM OnlyVerifiedIsInstalled ==
  ASSUME OneUpdater
  PROVE  Spec => []InstalledIsVerified
<1>1. UpdateInv => InstalledIsVerified
  BY DEF UpdateInv, DiskInv, InstalledIsVerified
<1>2. QED
  BY <1>1, UpdateInvariant, PTL

-------------------------------------------------------------------------------
(* No downgrade                                                            *)

\* Releases: every part of a version is a number, so parse_version drops none.
Releases == \A v \in Versions : v \in Seq(Nat) /\ parse_version(v) = v

\* is_newer_version never prefers the older of two releases.
LEMMA NewerIsNotOlder ==
  ASSUME Releases, NEW l \in Versions, NEW c \in Versions, is_newer_version(l, c)
  PROVE  ~Older(l, c)
<1> DEFINE part(v, i) == IF i <= Len(v) THEN v[i] ELSE 0
           n == IF Len(l) > Len(c) THEN Len(l) ELSE Len(c)
           differs == { i \in { k \in 1..Len(l) : k <= Len(c) } : l[i] # c[i] }
<1>1. l \in Seq(Nat) /\ c \in Seq(Nat) /\ parse_version(l) = l /\ parse_version(c) = c
  BY DEF Releases
<1>2. IF differs = {} THEN Len(l) > Len(c)
      ELSE \E i \in differs : (\A j \in differs : i <= j) /\ l[i] > c[i]
  BY <1>1, Zenon DEF is_newer_version
<1>3. SUFFICES ASSUME NEW i \in 1..n, part(l, i) < part(c, i),
                      \A j \in 1..(i - 1) : part(l, j) = part(c, j)
               PROVE  FALSE
  BY Zenon DEF Older
<1>4. Len(l) \in Nat /\ Len(c) \in Nat /\ i \in Nat /\ i >= 1
  BY <1>1
<1>5. i <= Len(c)
  <2>1. CASE i <= Len(l)
    BY <1>1, <1>3, <1>4, <2>1
  <2>2. CASE ~(i <= Len(l))
    BY <1>1, <1>3, <1>4, <2>2
  <2>3. QED
    BY <2>1, <2>2
<1>6. CASE differs = {}
  <2>1. i <= Len(l)
    BY <1>2, <1>4, <1>5, <1>6
  <2>2. l[i] = c[i]
    BY <1>4, <1>5, <1>6, <2>1
  <2>3. QED
    BY <1>1, <1>3, <1>4, <1>5, <2>1, <2>2
<1>7. ASSUME NEW k \in differs, \A j \in differs : k <= j, l[k] > c[k]
      PROVE  FALSE
  <2>1. k \in 1..Len(l) /\ k <= Len(c) /\ part(l, k) = l[k] /\ part(c, k) = c[k]
    BY <1>1
  <2>2. l[k] \in Nat /\ c[k] \in Nat
    BY <1>1, <1>4, <2>1
  <2>3. CASE i < k
    <3>1. i \in 1..Len(l) /\ i \notin differs
      BY <1>4, <1>7, <2>1, <2>3
    <3>2. l[i] = c[i]
      BY <1>5, <3>1
    <3>3. part(l, i) = l[i] /\ part(c, i) = c[i] /\ l[i] \in Nat
      BY <1>1, <1>5, <3>1
    <3>4. QED
      BY <1>3, <3>2, <3>3
  <2>4. CASE i = k
    BY <1>3, <1>7, <2>1, <2>2, <2>4
  <2>5. CASE i > k
    <3>1. part(l, k) = part(c, k)
      BY <1>3, <1>4, <2>1, <2>5
    <3>2. QED
      BY <1>7, <2>1, <2>2, <3>1
  <2>6. QED
    BY <1>4, <2>1, <2>3, <2>4, <2>5
<1>8. QED
  BY <1>2, <1>6, <1>7

\* The version that an updater, or pending_update, holds as newer than the running
\* one still is: while it is held the process, and with it the version, stays.
FoundNewer ==
  /\ \A u \in Updaters :
       /\ upd[u].at \in {"checked", "deferring", "rechecking"}
          => is_newer_version(upd[u].goal, version)
       /\ upd[u].at # "idle" => proc = "up"
  /\ pending # None => is_newer_version(pending, version) /\ proc = "up"

\* A step in which the running version stays, and at most one updater moves: to a
\* phase that holds no result, or to one with the result it or pending_update had.
LEMMA ResultKept ==
  ASSUME FoundNewer, UpdateTypeOK, NEW u \in Updaters, proc = "up", UNCHANGED <<version, proc>>,
         \A w \in Updaters \ {u} : upd'[w] = upd[w],
         upd'[u].at \in {"checked", "deferring", "rechecking"}
           => is_newer_version(upd'[u].goal, version),
         pending' \in {pending, None}
           \/ (pending' = upd[u].goal /\ upd[u].at \in {"checked", "deferring", "rechecking"})
  PROVE  FoundNewer'
BY DEF FoundNewer

LEMMA FoundNewerStep ==
  ASSUME UpdateTypeOK, FoundNewer, NEW u \in Updaters, UpdateStep(u)
  PROVE  FoundNewer'
<1>1. upd \in [Updaters -> UpdateRecords] /\ upd[u] \in UpdateRecords
  BY DEF UpdateTypeOK
<1>2. /\ \A p, q \in Phases : Goes(u, p, q) =>
           /\ upd[u].at = p /\ upd'[u].at = q /\ upd'[u].goal = upd[u].goal
           /\ \A w \in Updaters \ {u} : upd'[w] = upd[w]
      /\ \A p \in Phases : Ends(u, p) =>
           /\ upd[u].at = p /\ upd'[u].at = "idle"
           /\ \A w \in Updaters \ {u} : upd'[w] = upd[w]
  BY <1>1 DEF Goes, Ends, UpdateRecords, Idle
<1>3. proc = "up"
  <2>1. upd[u].at # "idle"
    BY <1>1 DEF UpdateStep, FindBusy, DeferUpdate, BeginUpdate, trigger_pending_update,
      RecheckDeploys, DownloadBinary, DownloadFails, VerifyChecksum, StartCanary, CanaryPasses,
      CanaryFails, BackupBinary, BackupFails, InstallBinary, InstallFails, CleanBackup,
      PermissionFails, ScheduleRestart, ExitForRestart, SpawnTakeover, CheckTakeover,
      Goes, Ends, Fails
  <2>2. QED
    BY <2>1 DEF FoundNewer
<1>4. ASSUME NEW p \in Phases, NEW q \in Phases \ {"checked", "deferring", "rechecking"},
             Goes(u, p, q), UNCHANGED <<version, proc>>, pending' \in {pending, None}
      PROVE  FoundNewer'
  BY <1>2, <1>3, <1>4, ResultKept
<1>5. ASSUME NEW p \in Phases, Ends(u, p), UNCHANGED <<version, proc>>,
             pending' \in {pending, None}
      PROVE  FoundNewer'
  BY <1>2, <1>3, <1>5, ResultKept
<1>6. ASSUME NEW next, Dies(next) \/ Exits(next)
      PROVE  FoundNewer'
  BY <1>6 DEF Exits, Dies, HandsOver, FoundNewer, Idle
<1> USE DEF flagVars, procVars, fileVars, Fails, reset_flags
<1>7. CASE FindBusy(u)
  <2>1. /\ upd[u].at = "checked" /\ upd'[u].goal = upd[u].goal
        /\ \A w \in Updaters \ {u} : upd'[w] = upd[w]
        /\ UNCHANGED <<version, proc, pending>>
    BY <1>2, <1>7 DEF FindBusy, Phases
  <2>2. QED
    BY <1>3, <2>1, ResultKept DEF FoundNewer
<1>8. CASE DeferUpdate(u)
  <2>1. /\ upd[u].at = "deferring" /\ upd'[u].at = "idle" /\ pending' = upd[u].goal
        /\ \A w \in Updaters \ {u} : upd'[w] = upd[w]
        /\ UNCHANGED <<version, proc>>
    BY <1>2, <1>8 DEF DeferUpdate, Phases
  <2>2. QED
    BY <1>3, <2>1, ResultKept
<1>9. CASE trigger_pending_update(u)
  <2>1. CASE pending # None
    <3>1. /\ upd'[u].goal = pending
          /\ \A w \in Updaters \ {u} : upd'[w] = upd[w]
          /\ UNCHANGED <<version, proc, pending>>
      BY <1>1, <1>9, <2>1 DEF trigger_pending_update, UpdateRecords
    <3>2. QED
      BY <1>3, <2>1, <3>1, ResultKept DEF FoundNewer
  <2>2. CASE pending = None
    BY <1>5, <1>9, <2>2 DEF trigger_pending_update, Phases
  <2>3. QED
    BY <2>1, <2>2
<1>10. CASE BeginUpdate(u) \/ RecheckDeploys(u)
  BY <1>4, <1>5, <1>10 DEF BeginUpdate, RecheckDeploys, Phases
<1>11. CASE DownloadBinary(u) \/ DownloadFails(u) \/ VerifyChecksum(u)
  BY <1>4, <1>5, <1>11 DEF DownloadBinary, DownloadFails, VerifyChecksum, Phases
<1>12. CASE StartCanary(u) \/ CanaryPasses(u) \/ CanaryFails(u)
  BY <1>4, <1>5, <1>12 DEF StartCanary, CanaryPasses, CanaryFails, Phases
<1>13. CASE BackupBinary(u)
  <2>1. /\ upd'[u].at = "backed" /\ \A w \in Updaters \ {u} : upd'[w] = upd[w]
        /\ UNCHANGED <<version, proc, pending>>
    BY <1>1, <1>13 DEF BackupBinary, UpdateRecords
  <2>2. QED
    BY <1>3, <2>1, ResultKept
<1>14. CASE BackupFails(u) \/ InstallBinary(u) \/ InstallFails(u)
  BY <1>4, <1>5, <1>14 DEF BackupFails, InstallBinary, InstallFails, Phases
<1>15. CASE CleanBackup(u) \/ PermissionFails(u)
  BY <1>4, <1>5, <1>15 DEF CleanBackup, PermissionFails, Phases
<1>16. CASE ScheduleRestart(u)
  <2>1. CASE Dies(upd[u].path)
    BY <1>6, <2>1
  <2>2. CASE /\ \/ Goes(u, "restarting", "exiting") /\ UNCHANGED flagVars
                \/ Fails(u, "restarting")
             /\ UNCHANGED <<procVars, img, taskVars>>
    BY <1>4, <1>5, <2>2 DEF Phases
  <2>3. QED
    BY <1>16, <2>1, <2>2, Zenon DEF ScheduleRestart
<1>17. CASE ExitForRestart(u)
  BY <1>6, <1>17 DEF ExitForRestart
<1>18. CASE SpawnTakeover(u) \/ CheckTakeover(u)
  BY <1>4, <1>5, <1>18 DEF SpawnTakeover, CheckTakeover, Phases
<1>19. QED
  BY <1>7, <1>8, <1>9, <1>10, <1>11, <1>12, <1>13, <1>14, <1>15, <1>16, <1>17, <1>18
     DEF UpdateStep

\* What an update goes for was newer when it was found, at once or before it was
\* deferred, and the running version has not changed since.
LEMMA FoundNewerNext ==
  ASSUME UpdateTypeOK, FoundNewer, [Next]_vars
  PROVE  FoundNewer'
<1> USE DEF flagVars, procVars, fileVars
<1>1. ASSUME NEW u \in Updaters, UpdateStep(u)
      PROVE  FoundNewer'
  BY <1>1, FoundNewerStep
<1>2. ASSUME NEW u \in Updaters, NEW at, NEW kind, NEW v, Starts(u, at, kind, v), proc = "up",
             at = "checked" => is_newer_version(v, version),
             at \notin {"deferring", "rechecking"},
             UNCHANGED <<version, proc, pending>>
      PROVE  FoundNewer'
  <2>1. /\ upd'[u].at = at /\ upd'[u].goal = v
        /\ \A w \in Updaters \ {u} : upd'[w] = upd[w]
    BY <1>2 DEF Starts, UpdateTypeOK
  <2>2. QED
    BY <1>2, <2>1, ResultKept
<1>3. ASSUME NEW u \in Updaters, CheckUpdate(u) \/ force_update(u)
      PROVE  FoundNewer'
  BY <1>2, <1>3 DEF CheckUpdate, force_update
<1>4. ASSUME UNCHANGED <<version, proc, pending, upd>>
      PROVE  FoundNewer'
  BY <1>4 DEF FoundNewer
<1>5. ASSUME NEW t \in Tasks, AcceptTask(t) \/ FinishTask(t) \/ DriverStep(t)
      PROVE  FoundNewer'
  <2>1. /\ UNCHANGED <<version, proc, pending>>
        /\ \/ UNCHANGED upd
           \/ /\ proc = "up"
              /\ \E u \in Updaters : Starts(u, "waiting", "deferred", FirstVersion)
    BY <1>5, DeploymentSteps
  <2>2. QED
    BY <1>2, <1>4, <2>1
<1>6. ASSUME NEW t \in Tasks, ChildEnds(t)
      PROVE  FoundNewer'
  BY <1>4, <1>6, ChildSteps
<1>7. ASSUME NEW v \in Versions, Publish(v)
      PROVE  FoundNewer'
  BY <1>4, <1>7 DEF Publish
<1>8. CASE BindFails
  BY <1>4, <1>8 DEF BindFails
<1>9. CASE TakeoverComplete
  BY <1>9 DEF TakeoverComplete, HandsOver, FoundNewer, Idle
<1>10. CASE StartProcess
  BY <1>10 DEF StartProcess, FoundNewer
<1>11. CASE Crash
  BY <1>11 DEF Crash, Exits, Dies, HandsOver, FoundNewer, Idle
<1>12. CASE UNCHANGED vars
  BY <1>4, <1>12 DEF vars
<1>13. QED
  BY <1>1, <1>3, <1>5, <1>6, <1>7, <1>8, <1>9, <1>10, <1>11, <1>12 DEF Next

\* An update that begins and is not forced was checked, or rechecked after its
\* deferral, by the process that runs.
LEMMA BeginsChecked ==
  ASSUME UpdateTypeOK, [Next]_vars, NEW u \in Updaters,
         upd[u].at # "downloading", upd'[u].at = "downloading", upd'[u].kind # "forced"
  PROVE  upd[u].at \in {"checked", "rechecking"} /\ upd'[u].goal = upd[u].goal
<1>1. upd \in [Updaters -> UpdateRecords] /\ upd[u] \in UpdateRecords
  BY DEF UpdateTypeOK
<1>2. ASSUME NEW w \in Updaters, NEW p \in Phases, NEW q \in Phases, Goes(w, p, q)
      PROVE  w = u /\ p = upd[u].at /\ q = "downloading" /\ upd'[u].goal = upd[u].goal
  BY <1>1, <1>2 DEF Goes, UpdateTypeOK, UpdateRecords
<1>3. ASSUME NEW w \in Updaters, NEW p \in Phases, Ends(w, p)
      PROVE  FALSE
  BY <1>1, <1>3 DEF Ends, UpdateTypeOK, Idle
<1>4. ASSUME NEW w \in Updaters, NEW p, NEW k, NEW g, Starts(w, p, k, g),
             p # "downloading" \/ k = "forced"
      PROVE  FALSE
  BY <1>1, <1>4 DEF Starts, UpdateTypeOK
<1>5. ASSUME NEW next, Dies(next) \/ Exits(next) \/ HandsOver
      PROVE  FALSE
  BY <1>5 DEF Exits, Dies, HandsOver, Idle
<1>6. upd' # upd
  OBVIOUS
<1> USE DEF Fails
<1>7. ASSUME NEW w \in Updaters, UpdateStep(w)
      PROVE  upd[u].at \in {"checked", "rechecking"} /\ upd'[u].goal = upd[u].goal
  <2>1. CASE FindBusy(w) \/ DeferUpdate(w)
    BY <1>2, <1>3, <2>1 DEF FindBusy, DeferUpdate, Phases
  <2>2. CASE BeginUpdate(w) \/ RecheckDeploys(w)
    <3>1. CASE Goes(w, "checked", "downloading") \/ Goes(w, "rechecking", "downloading")
      BY <1>2, <3>1 DEF Phases
    <3>2. CASE Ends(w, "rechecking")
      BY <1>3, <3>2 DEF Phases
    <3>3. QED
      BY <2>2, <3>1, <3>2 DEF BeginUpdate, RecheckDeploys
  <2>3. CASE trigger_pending_update(w)
    <3>1. CASE pending = None
      BY <1>3, <2>3, <3>1 DEF trigger_pending_update, Phases
    <3>2. CASE pending # None
      BY <1>1, <2>3, <3>2 DEF trigger_pending_update, UpdateTypeOK, UpdateRecords
    <3>3. QED
      BY <3>1, <3>2
  <2>4. CASE DownloadBinary(w) \/ DownloadFails(w) \/ VerifyChecksum(w)
    BY <1>2, <1>3, <2>4 DEF DownloadBinary, DownloadFails, VerifyChecksum, Phases
  <2>5. CASE StartCanary(w) \/ CanaryPasses(w) \/ CanaryFails(w)
    BY <1>2, <1>3, <2>5 DEF StartCanary, CanaryPasses, CanaryFails, Phases
  <2>6. CASE BackupBinary(w)
    BY <1>1, <2>6 DEF BackupBinary, UpdateTypeOK, UpdateRecords
  <2>7. CASE BackupFails(w) \/ InstallBinary(w) \/ InstallFails(w)
    BY <1>2, <1>3, <2>7 DEF BackupFails, InstallBinary, InstallFails, Phases
  <2>8. CASE CleanBackup(w) \/ PermissionFails(w)
    BY <1>2, <1>3, <2>8 DEF CleanBackup, PermissionFails, Phases
  <2>9. CASE ScheduleRestart(w)
    <3>1. \/ Goes(w, "restarting", "exiting") \/ Ends(w, "restarting") \/ Dies(upd[w].path)
      BY <2>9, Zenon DEF ScheduleRestart
    <3>2. QED
      BY <1>2, <1>3, <1>5, <3>1 DEF Phases
  <2>10. CASE ExitForRestart(w)
    BY <1>5, <2>10 DEF ExitForRestart
  <2>11. CASE SpawnTakeover(w) \/ CheckTakeover(w)
    BY <1>2, <1>3, <2>11 DEF SpawnTakeover, CheckTakeover, Phases
  <2>12. QED
    BY <1>7, <2>1, <2>2, <2>3, <2>4, <2>5, <2>6, <2>7, <2>8, <2>9, <2>10, <2>11
       DEF UpdateStep
<1>8. ASSUME NEW w \in Updaters, CheckUpdate(w) \/ force_update(w)
      PROVE  FALSE
  BY <1>4, <1>8 DEF CheckUpdate, force_update
<1>9. ASSUME NEW t \in Tasks, AcceptTask(t) \/ FinishTask(t) \/ DriverStep(t)
      PROVE  FALSE
  <2>1. \/ UNCHANGED upd
        \/ \E w \in Updaters : Starts(w, "waiting", "deferred", FirstVersion)
    BY <1>9, DeploymentSteps
  <2>2. QED
    BY <1>4, <1>6, <2>1
<1>10. ASSUME NEW t \in Tasks, ChildEnds(t)
      PROVE  FALSE
  BY <1>6, <1>10, ChildSteps
<1>11. ASSUME NEW v \in Versions, Publish(v)
      PROVE  FALSE
  BY <1>6, <1>11 DEF Publish
<1>12. ASSUME BindFails \/ StartProcess \/ UNCHANGED vars
      PROVE  FALSE
  BY <1>6, <1>12 DEF BindFails, StartProcess, vars
<1>13. ASSUME TakeoverComplete \/ Crash
      PROVE  FALSE
  BY <1>5, <1>13 DEF TakeoverComplete, Crash
<1>14. QED
  BY <1>7, <1>8, <1>9, <1>10, <1>11, <1>12, <1>13 DEF Next

\* No update that autoupdate.rs starts by itself installs an older release than
\* the one that runs: neither one that begins when it is found, nor one that was
\* deferred, with any number of updates at a time, restarts and publishes.
THEOREM NeverDowngrades ==
  ASSUME Releases
  PROVE  Spec => NoDowngrade
<1> DEFINE Down == \A u \in Updaters :
                     /\ upd[u].at # "downloading" /\ upd'[u].at = "downloading"
                     /\ upd'[u].kind # "forced"
                     => ~Older(upd'[u].goal, version)
           Inv == UpdateTypeOK /\ FoundNewer
<1>1. Init => Inv
  BY UpdateTypeInit DEF Init, FoundNewer, Idle
<1>2. Inv /\ [Next]_vars => Inv'
  BY UpdateTypeNext, FoundNewerNext
<1>3. Inv /\ [Next]_vars => Down
  <2> SUFFICES ASSUME Inv, [Next]_vars, NEW u \in Updaters,
                      upd[u].at # "downloading", upd'[u].at = "downloading",
                      upd'[u].kind # "forced"
               PROVE  ~Older(upd'[u].goal, version)
    OBVIOUS
  <2>1. upd[u].at \in {"checked", "rechecking"} /\ upd'[u].goal = upd[u].goal
    BY BeginsChecked
  <2>2. upd[u].goal \in Versions /\ version \in Versions
    BY DEF UpdateTypeOK, UpdateRecords
  <2>3. is_newer_version(upd[u].goal, version)
    BY <2>1 DEF FoundNewer
  <2>4. QED
    BY <2>1, <2>2, <2>3, NewerIsNotOlder
<1> HIDE DEF Inv, Down
<1>4. Inv /\ [Next]_vars => [Down]_vars
  BY <1>3
<1>5. Spec => [][Down]_vars
  BY <1>1, <1>2, <1>4, PTL DEF Spec
<1>6. QED
  BY <1>5, PTL DEF NoDowngrade, Down
===============================================================================
