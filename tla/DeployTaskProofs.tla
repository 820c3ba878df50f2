--------------------------- MODULE DeployTaskProofs ----------------------------
(***************************************************************************)
(* What becomes of one task of DeployEngine, for every set of requests and *)
(* projects.  It is in one place (OnePlace); an acknowledged one is never  *)
(* lost (NoTaskIsLost); a held one has a record (HeldIsRecorded), which    *)
(* says what the task is doing (StoreAgrees); it settles once              *)
(* (SettlesOnce); and nothing of it is left behind (NothingLeftBehind).    *)
(* The invariants are those of DeployEngineInv.                            *)
(***************************************************************************)
EXTENDS DeployEngineProofs

-------------------------------------------------------------------------------
(* Sequences without repetition                                            *)

\* push_back of a new element.
LEMMA AppendDistinct ==
  ASSUME NEW S, NEW s \in Seq(S), NEW e \in S, Distinct(s), e \notin Elements(s)
  PROVE  /\ Distinct(Append(s, e))
         /\ Elements(Append(s, e)) = Elements(s) \cup {e}
<1> DEFINE a == Append(s, e)
<1>1. /\ Len(s) \in Nat /\ DOMAIN s = 1 .. Len(s) /\ DOMAIN a = 1 .. Len(s) + 1
      /\ a[Len(s) + 1] = e /\ \A i \in 1 .. Len(s) : a[i] = s[i]
  OBVIOUS
<1> HIDE DEF a
<1>2. \A i \in DOMAIN a : i \in DOMAIN s \/ i = Len(s) + 1
  BY <1>1
<1>3. Distinct(a)
  BY <1>1, <1>2 DEF Distinct, Elements
<1>4. Elements(a) = Elements(s) \cup {e}
  <2>1. \A x \in Elements(a) : x \in Elements(s) \cup {e}
    BY <1>1, <1>2 DEF Elements
  <2>2. Len(s) + 1 \in DOMAIN a /\ \A i \in DOMAIN s : i \in DOMAIN a
    BY <1>1
  <2>3. \A x \in Elements(s) \cup {e} : x \in Elements(a)
    BY <1>1, <2>2 DEF Elements
  <2> QED BY <2>1, <2>3
<1> QED BY <1>3, <1>4 DEF a

\* pop_front.
LEMMA TailDistinct ==
  ASSUME NEW S, NEW s \in Seq(S), s # << >>, Distinct(s)
  PROVE  /\ Head(s) \in Elements(s)
         /\ Distinct(Tail(s))
         /\ Elements(Tail(s)) = Elements(s) \ {Head(s)}
<1> DEFINE t == Tail(s)
<1>1. /\ Len(s) \in Nat \ {0} /\ DOMAIN s = 1 .. Len(s)
      /\ DOMAIN t = 1 .. Len(s) - 1 /\ Head(s) = s[1]
      /\ \A i \in 1 .. Len(s) - 1 : t[i] = s[i + 1]
  OBVIOUS
<1> HIDE DEF t
<1>2. \A i \in DOMAIN t : i + 1 \in DOMAIN s /\ i + 1 # 1 /\ t[i] = s[i + 1]
  BY <1>1
<1>3. 1 \in DOMAIN s
  BY <1>1
<1>4. Head(s) \in Elements(s)
  BY <1>1, <1>3 DEF Elements
<1>5. Distinct(t)
  <2> SUFFICES ASSUME NEW i \in DOMAIN t, NEW j \in DOMAIN t, t[i] = t[j]
               PROVE  i = j
    BY DEF Distinct
  <2>1. i + 1 = j + 1
    BY <1>2 DEF Distinct
  <2> QED BY <1>1, <2>1
<1>6. \A x \in Elements(t) : x \in Elements(s) \ {Head(s)}
  BY <1>1, <1>2, <1>3 DEF Elements, Distinct
<1>7. ASSUME NEW x \in Elements(s) \ {Head(s)} PROVE x \in Elements(t)
  <2>1. PICK i \in DOMAIN s : s[i] = x
    BY DEF Elements
  <2>2. i - 1 \in DOMAIN t /\ (i - 1) + 1 = i
    BY <1>1, <2>1
  <2>3. t[i - 1] = x
    BY <1>2, <2>1, <2>2
  <2> QED BY <2>2, <2>3 DEF Elements
<1> QED BY <1>4, <1>5, <1>6, <1>7 DEF t

-------------------------------------------------------------------------------
(* Where a request is                                                      *)

\* A queue of the engine is a sequence of requests.
LEMMA QueueType ==
  ASSUME TypeInv, NEW p \in Projects
  PROVE  queue[p] \in Seq(Requests) /\ Elements(queue[p]) \subseteq Requests
<1>1. queue[p] \in Seq(Requests)
  BY DEF TypeInv, TypeOK
<1> QED BY <1>1 DEF Elements

\* enqueue_deploy of a request that is nowhere.
LEMMA PlaceEnqueue ==
  ASSUME TypeInv, TaskHasOnePlace, NEW r \in Requests, Unplaced(r),
         enqueue_deploy(ProjectOf[r], r), UNCHANGED cur
  PROVE  /\ TaskHasOnePlace'
         /\ Queued' = Queued \cup {r}
         /\ \A s \in Requests \ {r} : Unplaced(s) => Unplaced(s)'
<1> DEFINE p == ProjectOf[r]
<1>1. p \in Projects /\ queue \in [Projects -> Seq(Requests)]
  BY EngineAssumption DEF TypeInv, TypeOK
<1>2. queue[p] \in Seq(Requests) /\ Distinct(queue[p]) /\ r \notin Elements(queue[p])
  BY <1>1 DEF TaskHasOnePlace, Unplaced, Queued
<1>3. /\ queue'[p] = Append(queue[p], r)
      /\ \A q \in Projects \ {p} : queue'[q] = queue[q]
  BY <1>1 DEF enqueue_deploy
<1>4. Distinct(queue'[p]) /\ Elements(queue'[p]) = Elements(queue[p]) \cup {r}
  BY <1>2, <1>3, AppendDistinct
<1>5. Queued' = Queued \cup {r}
  <2>1. \A s : s \in Queued' <=> \E q \in Projects : s \in Elements(queue'[q])
    BY DEF Queued, Elements
  <2>2. \A s : s \in Queued <=> \E q \in Projects : s \in Elements(queue[q])
    BY DEF Queued
  <2>3. \A s : s \in Queued' => s \in Queued \cup {r}
    BY <1>3, <1>4, <2>1, <2>2
  <2>4. \A s : s \in Queued \cup {r} => s \in Queued'
    BY <1>1, <1>3, <1>4, <2>1, <2>2
  <2> QED BY <2>3, <2>4
<1>6. \A q \in Projects : /\ Distinct(queue'[q])
                          /\ \A s \in Elements(queue'[q]) : ProjectOf[s] = q
  BY <1>3, <1>4 DEF TaskHasOnePlace
<1>7. \A d \in Requests : cur'[d] \notin Queued'
  BY <1>5 DEF TaskHasOnePlace, Unplaced
<1>8. TaskHasOnePlace'
  BY <1>6, <1>7 DEF TaskHasOnePlace, Distinct, Elements
<1> QED BY <1>5, <1>8 DEF Unplaced

\* A driver takes a request that is nowhere.
LEMMA PlaceTake ==
  ASSUME TypeInv, TaskHasOnePlace, NEW r \in Requests, Unplaced(r),
         NEW d \in Requests, cur' = [cur EXCEPT ![d] = r], UNCHANGED queue
  PROVE  /\ TaskHasOnePlace'
         /\ \A s \in Requests \ {r} : Unplaced(s) => Unplaced(s)'
<1>1. Queued' = Queued
  BY DEF Queued, Elements
<1>2. cur'[d] = r /\ \A e \in Requests \ {d} : cur'[e] = cur[e]
  BY DEF TypeInv, TypeOK
<1>3. \A e \in Requests : cur'[e] \notin Queued'
  BY <1>1, <1>2 DEF TaskHasOnePlace, Unplaced
<1>4. \A e, f \in Requests : cur'[e] = cur'[f] /\ cur'[e] # NoRequest => e = f
  BY <1>2 DEF TaskHasOnePlace, Unplaced
<1>5. TaskHasOnePlace'
  BY <1>3, <1>4 DEF TaskHasOnePlace, Distinct, Elements
<1> QED BY <1>1, <1>2, <1>5 DEF Unplaced

\* A driver takes the head of its project's queue.
LEMMA PlaceDequeue ==
  ASSUME TypeInv, TaskHasOnePlace, NEW d \in Requests,
         queue[ProjectOf[d]] # << >>,
         cur' = [cur EXCEPT ![d] = Head(queue[ProjectOf[d]])],
         dequeue_deploy(ProjectOf[d])
  PROVE  /\ TaskHasOnePlace'
         /\ Head(queue[ProjectOf[d]]) \in Queued
         /\ Queued' = Queued \ {Head(queue[ProjectOf[d]])}
         /\ \A s \in Requests : Unplaced(s) => Unplaced(s)'
<1> DEFINE p == ProjectOf[d]
           h == Head(queue[p])
<1>1. p \in Projects /\ queue \in [Projects -> Seq(Requests)]
  BY EngineAssumption DEF TypeInv, TypeOK
<1>2. queue[p] \in Seq(Requests) /\ Distinct(queue[p]) /\ queue[p] # << >>
  BY <1>1 DEF TaskHasOnePlace
<1>3. /\ queue'[p] = Tail(queue[p])
      /\ \A q \in Projects \ {p} : queue'[q] = queue[q]
  BY <1>1 DEF dequeue_deploy
<1>4. /\ h \in Elements(queue[p]) /\ Distinct(queue'[p])
      /\ Elements(queue'[p]) = Elements(queue[p]) \ {h}
  BY <1>2, <1>3, TailDistinct
<1>5. cur'[d] = h /\ \A e \in Requests \ {d} : cur'[e] = cur[e]
  BY DEF TypeInv, TypeOK
<1>6. \A q \in Projects : /\ Distinct(queue'[q])
                          /\ \A s \in Elements(queue'[q]) : ProjectOf[s] = q
  BY <1>3, <1>4 DEF TaskHasOnePlace
<1> HIDE DEF h
<1>7. h \in Queued /\ Queued' = Queued \ {h}
  <2>1. \A s : s \in Queued' <=> \E q \in Projects : s \in Elements(queue'[q])
    BY DEF Queued, Elements
  <2>2. \A s : s \in Queued <=> \E q \in Projects : s \in Elements(queue[q])
    BY DEF Queued
  <2>3. \A q \in Projects \ {p} : h \notin Elements(queue[q])
    BY <1>1, <1>4 DEF TaskHasOnePlace
  <2>4. h \notin Queued'
    BY <1>3, <1>4, <2>1, <2>3
  <2>5. \A s : s \in Queued' => s \in Queued
    BY <1>1, <1>3, <1>4, <2>1, <2>2
  <2>6. \A s : s \in Queued /\ s # h => s \in Queued'
    BY <1>1, <1>3, <1>4, <2>1, <2>2
  <2> QED BY <1>1, <1>4, <2>2, <2>4, <2>5, <2>6
<1>8. \A e \in Requests : cur'[e] \notin Queued'
  BY <1>5, <1>7 DEF TaskHasOnePlace
<1>9. \A e, f \in Requests : cur'[e] = cur'[f] /\ cur'[e] # NoRequest => e = f
  BY <1>5, <1>7 DEF TaskHasOnePlace
<1>10. TaskHasOnePlace'
  BY <1>6, <1>8, <1>9 DEF TaskHasOnePlace, Distinct, Elements
<1> QED BY <1>5, <1>7, <1>10 DEF Unplaced, h

\* Queues keep or lose items, in their order, and drivers keep or drop theirs.
LEMMA PlaceShrinks ==
  ASSUME TypeInv, TaskHasOnePlace, NEW K,
         \/ UNCHANGED queue
         \/ queue' = [p \in Projects |-> Retained(queue[p], K)],
         \A d \in Requests : cur'[d] \in {cur[d], NoRequest}
  PROVE  /\ TaskHasOnePlace'
         /\ \A s \in Requests : Unplaced(s) => Unplaced(s)'
<1>1. ASSUME NEW p \in Projects
      PROVE  Distinct(queue'[p]) /\ Elements(queue'[p]) \subseteq Elements(queue[p])
  <2>1. queue[p] \in Seq(Requests) /\ Distinct(queue[p])
    BY DEF TypeInv, TypeOK, TaskHasOnePlace
  <2>2. CASE queue'[p] = queue[p]
    BY <2>1, <2>2
  <2>3. CASE queue'[p] = Retained(queue[p], K)
    BY <2>1, <2>3, RetainedDistinct, RetainedElements
  <2> QED BY <2>2, <2>3
<1>2. Queued' \subseteq Queued /\ Queued \subseteq Requests
  <2>1. \A s : s \in Queued' <=> \E q \in Projects : s \in Elements(queue'[q])
    BY DEF Queued, Elements
  <2>2. \A s : s \in Queued <=> \E q \in Projects : s \in Elements(queue[q])
    BY DEF Queued
  <2>3. \A s : s \in Queued => s \in Requests
    BY <2>2, QueueType
  <2> QED BY <1>1, <2>1, <2>2, <2>3
<1>3. \A p \in Projects : /\ Distinct(queue'[p])
                          /\ \A s \in Elements(queue'[p]) : ProjectOf[s] = p
  BY <1>1 DEF TaskHasOnePlace
<1>4. \A d \in Requests : cur'[d] \notin Queued'
  BY <1>2, EngineAssumption DEF TaskHasOnePlace
<1>5. \A d, e \in Requests : cur'[d] = cur'[e] /\ cur'[d] # NoRequest => d = e
  BY DEF TaskHasOnePlace
<1>6. TaskHasOnePlace'
  BY <1>3, <1>4, <1>5 DEF TaskHasOnePlace, Distinct, Elements
<1>7. \A s \in Requests : Unplaced(s) => Unplaced(s)'
  BY <1>2, EngineAssumption DEF Unplaced
<1> QED BY <1>6, <1>7

-------------------------------------------------------------------------------
(* Which requests have records                                             *)

\* add_task of a record for r.
LEMMA RecordAdd ==
  ASSUME NEW q \in Seq(PersistedTask), NEW r \in Requests,
         NEW st \in PersistedStatus, DistinctRequests(q)
  PROVE  LET a == add_task(q, [req |-> r, status |-> st])
         IN  /\ DistinctRequests(a)
             /\ RecordedRequests(a) \subseteq RecordedRequests(q) \cup {r}
<1> DEFINE t == [req |-> r, status |-> st]
<1>1. CASE HasTask(q, TaskOf[r])
  BY <1>1 DEF add_task
<1>2. CASE ~ HasTask(q, TaskOf[r])
  <2> DEFINE a == Append(q, t)
  <2>1. add_task(q, t) = a
    BY <1>2 DEF add_task
  <2>2. t \in PersistedTask
    BY DEF PersistedTask
  <2>3. /\ Len(q) \in Nat /\ DOMAIN q = 1 .. Len(q) /\ DOMAIN a = 1 .. Len(q) + 1
        /\ a[Len(q) + 1] = t /\ \A i \in 1 .. Len(q) : a[i] = q[i]
    BY <2>2
  <2>4. t.req = r
    OBVIOUS
  <2> HIDE DEF a, t
  <2>5. \A i \in DOMAIN a : i \in DOMAIN q \/ i = Len(q) + 1
    BY <2>3
  <2>6. \A i \in DOMAIN q : q[i].req # r
    BY <1>2 DEF HasTask
  <2>7. DistinctRequests(a)
    BY <2>3, <2>4, <2>5, <2>6 DEF DistinctRequests
  <2>8. RecordedRequests(a) \subseteq RecordedRequests(q) \cup {r}
    BY <2>3, <2>4, <2>5 DEF RecordedRequests
  <2> QED BY <2>1, <2>7, <2>8 DEF t
<1> QED BY <1>1, <1>2

\* remove_task.
LEMMA RecordRemove ==
  ASSUME NEW q \in Seq(PersistedTask), NEW id, DistinctRequests(q)
  PROVE  /\ DistinctRequests(remove_task(q, id))
         /\ RecordedRequests(remove_task(q, id)) \subseteq RecordedRequests(q)
<1> DEFINE K == { task \in PersistedTask : TaskOf[task.req] # id }
           u == Retained(q, K)
<1>1. Distinct(q)
  BY DEF Distinct, DistinctRequests
<1>2. Distinct(u) /\ Elements(u) \subseteq Elements(q)
  BY <1>1, RetainedDistinct, RetainedElements
<1> HIDE DEF K, u
<1>3. \A i \in DOMAIN u : \E j \in DOMAIN q : u[i] = q[j]
  BY <1>2 DEF Elements
<1>4. DistinctRequests(u)
  BY <1>2, <1>3 DEF DistinctRequests, Distinct
<1>5. RecordedRequests(u) \subseteq RecordedRequests(q)
  BY <1>3 DEF RecordedRequests
<1> QED BY <1>4, <1>5 DEF remove_task, u, K

\* update_task_status.
LEMMA RecordUpdate ==
  ASSUME NEW q \in Seq(PersistedTask), NEW id, DistinctRequests(q)
  PROVE  LET u == update_task_status(q, id, "running")
         IN  /\ DistinctRequests(u)
             /\ RecordedRequests(u) \subseteq RecordedRequests(q)
<1>1. "running" \in PersistedStatus
  BY DEF PersistedStatus
<1> QED BY <1>1, UpdateTaskStatusType DEF DistinctRequests, RecordedRequests

-------------------------------------------------------------------------------
(* Every step keeps every task in one place                                *)

\* Fresh requests stay nowhere and unrecorded when no step places or records a
\* request that is still fresh afterwards.
LEMMA FreshStep ==
  ASSUME PlaceInv,
         \A s \in Requests : pc'[s] \in Fresh => pc[s] \in Fresh,
         \A s \in Requests : pc'[s] \in Fresh \ {"launching"} =>
                               pc[s] \in Fresh \ {"launching"},
         \A s \in Requests : pc'[s] \in Fresh /\ Unplaced(s) => Unplaced(s)',
         \A s \in Requests :
           /\ pc'[s] \in Fresh \ {"launching"}
           /\ s \in RecordedRequests(mem') \cup RecordedRequests(disk')
           => s \in RecordedRequests(mem) \cup RecordedRequests(disk)
  PROVE  FreshIsUnplaced' /\ FreshIsUnrecorded'
<1>1. FreshIsUnplaced'
  <2> SUFFICES ASSUME NEW s \in Requests, pc'[s] \in Fresh PROVE Unplaced(s)'
    BY DEF FreshIsUnplaced, Fresh
  <2> QED BY DEF PlaceInv, FreshIsUnplaced
<1>2. FreshIsUnrecorded'
  <2> SUFFICES ASSUME NEW s \in Requests, pc'[s] \in Fresh \ {"launching"}
               PROVE  s \notin RecordedRequests(mem') \cup RecordedRequests(disk')
    BY DEF FreshIsUnrecorded, Fresh, RecordedRequests
  <2> QED BY DEF PlaceInv, FreshIsUnrecorded
<1> QED BY <1>1, <1>2

\* A handler hands its own task, once, to a queue or to the driver it spawns.
LEMMA HandlerPlace ==
  ASSUME PlaceInv, TypeInv', NEW r \in Requests,
         \/ TriggerCheckRunning(r)
         \/ TriggerUnknownProject(r)
         \/ Handler(r)
         \/ Hangup(r)
  PROVE  PlaceInv'
<1> USE DEF PlaceInv
<1>1. boot = "up" /\ UNCHANGED <<boot, todo>>
  <2>1. UNCHANGED <<boot, todo>>
    BY DEF TriggerCheckRunning, TriggerUnknownProject, Handler, TriggerCheckQueue,
       TriggerEnqueue, TriggerPersistQueued, TriggerRespondQueued,
       TriggerRegister, TriggerPersistRunning, TriggerSpawn, Hangup,
       TriggerDropped, TriggerDroppedCreated, TriggerDroppedSaving, serverVars
  <2>2. boot = "up" \/ pc[r] \in InFlight
    BY DEF TriggerCheckRunning, TriggerUnknownProject, Handler, TriggerCheckQueue,
       TriggerEnqueue, TriggerPersistQueued, TriggerRespondQueued,
       TriggerRegister, TriggerPersistRunning, TriggerSpawn, Hangup,
       TriggerDropped, TriggerDroppedCreated, TriggerDroppedSaving, At, InFlight
  <2> QED BY <2>1, <2>2 DEF HandlersNeedServer
<1>2. todo = << >>
  BY <1>1 DEF BootPhases
<1>3. HandlersNeedServer' /\ TodoIsUnplaced' /\ BootPhases' /\ DistinctRequests(todo)'
  BY <1>1, <1>2 DEF HandlersNeedServer, TodoIsUnplaced, BootPhases, DistinctRequests
<1>4. /\ \A s \in Requests : pc'[s] \in Fresh => pc[s] \in Fresh
      /\ \A s \in Requests : pc'[s] \in Fresh \ {"launching"} =>
                               pc[s] \in Fresh \ {"launching"}
  BY DEF TriggerCheckRunning, TriggerUnknownProject, Handler, TriggerCheckQueue,
     TriggerEnqueue, TriggerPersistQueued, TriggerRespondQueued, TriggerRegister,
     TriggerPersistRunning, TriggerSpawn, Hangup, TriggerDropped,
     TriggerDroppedCreated, TriggerDroppedSaving, At, Fresh, TypeInv, TypeOK
<1>5. /\ TaskHasOnePlace'
      /\ \A s \in Requests : pc'[s] \in Fresh /\ Unplaced(s) => Unplaced(s)'
  <2>1. CASE TriggerEnqueue(r)
    <3>1. pc[r] \in Fresh /\ pc'[r] \notin Fresh
      BY <2>1 DEF TriggerEnqueue, At, Fresh, TypeInv, TypeOK
    <3>2. Unplaced(r)
      BY <3>1 DEF FreshIsUnplaced
    <3>3. enqueue_deploy(ProjectOf[r], r) /\ UNCHANGED cur
      BY <2>1 DEF TriggerEnqueue, driverVars
    <3> QED BY <3>1, <3>2, <3>3, PlaceEnqueue
  <2>2. CASE TriggerSpawn(r)
    <3>1. pc[r] \in Fresh /\ pc'[r] \notin Fresh
      BY <2>2 DEF TriggerSpawn, At, Fresh, TypeInv, TypeOK
    <3>2. Unplaced(r)
      BY <3>1 DEF FreshIsUnplaced
    <3>3. cur' = [cur EXCEPT ![r] = r] /\ UNCHANGED queue
      BY <2>2 DEF TriggerSpawn
    <3> QED BY <3>1, <3>2, <3>3, PlaceTake
  <2>3. CASE ~ TriggerEnqueue(r) /\ ~ TriggerSpawn(r)
    <3>1. UNCHANGED <<queue, cur>>
      BY <2>3 DEF TriggerCheckRunning, TriggerUnknownProject, Handler,
         TriggerCheckQueue, TriggerPersistQueued, TriggerRespondQueued,
         TriggerRegister, TriggerPersistRunning, Hangup, TriggerDropped,
         TriggerDroppedCreated, TriggerDroppedSaving, driverVars
    <3> QED BY <3>1, PlaceShrinks
  <2> QED BY <2>1, <2>2, <2>3
<1>6. /\ DistinctRequests(mem') /\ DistinctRequests(disk')
      /\ \A s \in Requests :
           /\ pc'[s] \in Fresh \ {"launching"}
           /\ s \in RecordedRequests(mem') \cup RecordedRequests(disk')
           => s \in RecordedRequests(mem) \cup RecordedRequests(disk)
  <2>1. CASE TriggerPersistQueued(r) \/ TriggerPersistRunning(r)
             \/ TriggerDroppedSaving(r)
    <3>1. PICK st \in PersistedStatus :
            /\ mem' = add_task(mem, [req |-> r, status |-> st])
            /\ disk' \in {disk, mem'}
      BY <2>1 DEF TriggerPersistQueued, TriggerPersistRunning,
         TriggerDroppedSaving, save, PersistedStatus
    <3>2. pc'[r] \notin Fresh \ {"launching"}
      BY <2>1 DEF TriggerPersistQueued, TriggerPersistRunning,
         TriggerDroppedSaving, At, Fresh, TypeInv, TypeOK
    <3>3. /\ DistinctRequests(mem')
          /\ RecordedRequests(mem') \subseteq RecordedRequests(mem) \cup {r}
      <4>1. mem \in Seq(PersistedTask) /\ DistinctRequests(mem)
        BY DEF TypeInv, TypeOK, RecordsAreDistinct
      <4> QED BY <3>1, <4>1, RecordAdd
    <3>4. DistinctRequests(disk)
      BY DEF RecordsAreDistinct
    <3> QED BY <3>1, <3>2, <3>3, <3>4
  <2>2. CASE ~ (TriggerPersistQueued(r) \/ TriggerPersistRunning(r)
                \/ TriggerDroppedSaving(r))
    <3>1. mem' = mem /\ disk' = disk
      BY <2>2 DEF TriggerCheckRunning, TriggerUnknownProject, Handler,
         TriggerCheckQueue, TriggerEnqueue, TriggerRespondQueued, TriggerRegister,
         TriggerSpawn, Hangup, TriggerDropped, TriggerDroppedCreated, queueFile
    <3> QED BY <3>1 DEF RecordsAreDistinct
  <2> QED BY <2>1, <2>2
<1>7. FreshIsUnplaced' /\ FreshIsUnrecorded'
  BY <1>4, <1>5, <1>6, FreshStep
<1>8. RecordsAreDistinct'
  BY <1>3, <1>6 DEF RecordsAreDistinct, DistinctRequests
<1> QED BY <1>3, <1>5, <1>7, <1>8

\* The records still to be looked at, in the next state.
LEMMA TodoStep ==
  ASSUME \A i \in DOMAIN todo' :
           \E s \in Requests : /\ s = todo'[i].req
                               /\ Unplaced(s)'
                               /\ pc'[s] \notin Fresh
  PROVE  TodoIsUnplaced'
BY DEF TodoIsUnplaced, Unplaced, Fresh

\* A step that places nothing new and records nothing new.
LEMMA PlaceKept ==
  ASSUME PlaceInv, TypeInv', TaskHasOnePlace', UNCHANGED <<pc, boot, todo>>,
         \A s \in Requests : Unplaced(s) => Unplaced(s)',
         DistinctRequests(mem'), DistinctRequests(disk'),
         RecordedRequests(mem') \cup RecordedRequests(disk')
           \subseteq RecordedRequests(mem) \cup RecordedRequests(disk)
  PROVE  PlaceInv'
<1> USE DEF PlaceInv
<1>1. FreshIsUnplaced' /\ FreshIsUnrecorded'
  BY FreshStep
<1>2. \A i \in DOMAIN todo : todo[i].req \in Requests
  <2>1. \A i \in DOMAIN todo : todo[i] \in PersistedTask
    BY DEF TypeInv, TypeOK
  <2> QED BY <2>1 DEF PersistedTask
<1>3. TodoIsUnplaced'
  <2>1. \A i \in DOMAIN todo' :
          \E s \in Requests : s = todo'[i].req /\ Unplaced(s) /\ pc'[s] \notin Fresh
    BY <1>2 DEF TodoIsUnplaced
  <2> QED BY <2>1, TodoStep
<1>4. HandlersNeedServer' /\ BootPhases'
  BY DEF HandlersNeedServer, BootPhases
<1>5. RecordsAreDistinct'
  BY DEF RecordsAreDistinct, DistinctRequests
<1> QED BY <1>1, <1>3, <1>4, <1>5

\* A driver moves a task from its queue to its own hands and then lets it go.
LEMMA DriverPlace ==
  ASSUME PlaceInv, TypeInv', NEW d \in Requests, Driver(d)
  PROVE  PlaceInv'
<1> USE DEF PlaceInv
<1>1. UNCHANGED <<pc, boot, todo>>
  BY DEF Driver, DriverGoesOn, FinishTask, FinishHistory, FinishRelease, ExecuteUnpersist,
     ExecuteUnregister, QueueTake, QueueEmpty, QueuePromote, QueueRegister,
     serverVars
<1>2. TaskHasOnePlace' /\ \A s \in Requests : Unplaced(s) => Unplaced(s)'
  <2>1. CASE QueueTake(d)
    BY <2>1, PlaceDequeue DEF QueueTake
  <2>2. CASE ~ QueueTake(d)
    <3>1. UNCHANGED queue /\ \A e \in Requests : cur'[e] \in {cur[e], NoRequest}
      BY <2>2 DEF Driver, DriverGoesOn, FinishTask, FinishHistory, FinishRelease,
         ExecuteUnpersist, ExecuteUnregister, QueueEmpty, QueuePromote,
         QueueRegister, TypeInv, TypeOK
    <3> QED BY <3>1, PlaceShrinks
  <2> QED BY <2>1, <2>2
<1>3. /\ DistinctRequests(mem') /\ RecordedRequests(mem') \subseteq RecordedRequests(mem)
      /\ disk' \in {disk, mem'}
  <2>1. mem \in Seq(PersistedTask) /\ DistinctRequests(mem)
    BY DEF TypeInv, TypeOK, RecordsAreDistinct
  <2>2. CASE ExecuteUnpersist(d)
    BY <2>1, <2>2, RecordRemove DEF ExecuteUnpersist, save, queueFile
  <2>3. CASE QueuePromote(d)
    BY <2>1, <2>3, RecordUpdate DEF QueuePromote, save
  <2>4. CASE ~ ExecuteUnpersist(d) /\ ~ QueuePromote(d)
    <3>1. mem' = mem /\ disk' = disk
      BY <2>4 DEF Driver, DriverGoesOn, FinishTask, FinishHistory, FinishRelease,
         ExecuteUnregister, QueueTake, QueueEmpty, QueueRegister, queueFile
    <3> QED BY <2>1, <3>1
  <2> QED BY <2>2, <2>3, <2>4
<1>4. DistinctRequests(disk)
  BY DEF RecordsAreDistinct
<1> QED BY <1>1, <1>2, <1>3, <1>4, PlaceKept

\* The first record that recovery has not looked at.
LEMMA TodoHead ==
  ASSUME PlaceInv, todo # << >>
  PROVE  /\ Head(todo).req \in Requests
         /\ Unplaced(Head(todo).req)
         /\ pc[Head(todo).req] \notin Fresh
         /\ DistinctRequests(Tail(todo))
         /\ \A i \in DOMAIN Tail(todo) :
              /\ Tail(todo)[i].req \in Requests
              /\ Tail(todo)[i].req # Head(todo).req
              /\ Unplaced(Tail(todo)[i].req)
              /\ pc[Tail(todo)[i].req] \notin Fresh
<1> DEFINE t == Tail(todo)
<1>1. /\ Len(todo) \in Nat \ {0} /\ DOMAIN todo = 1 .. Len(todo)
      /\ DOMAIN t = 1 .. Len(todo) - 1 /\ Head(todo) = todo[1]
      /\ \A i \in 1 .. Len(todo) - 1 : t[i] = todo[i + 1]
  BY DEF PlaceInv, TypeInv, TypeOK
<1>2. \A i \in DOMAIN todo : todo[i].req \in Requests
  <2>1. \A i \in DOMAIN todo : todo[i] \in PersistedTask
    BY DEF PlaceInv, TypeInv, TypeOK
  <2> QED BY <2>1 DEF PersistedTask
<1> HIDE DEF t
<1>3. 1 \in DOMAIN todo
  BY <1>1
<1>4. \A i \in DOMAIN t : i + 1 \in DOMAIN todo /\ i + 1 # 1 /\ t[i] = todo[i + 1]
  BY <1>1
<1>5. /\ Head(todo).req \in Requests /\ Unplaced(Head(todo).req)
      /\ pc[Head(todo).req] \notin Fresh
  BY <1>1, <1>2, <1>3 DEF PlaceInv, TodoIsUnplaced
<1>6. \A i \in DOMAIN t : /\ t[i].req \in Requests /\ Unplaced(t[i].req)
                          /\ pc[t[i].req] \notin Fresh
  BY <1>2, <1>4 DEF PlaceInv, TodoIsUnplaced
<1>7. \A i \in DOMAIN t : t[i].req # Head(todo).req
  BY <1>1, <1>3, <1>4 DEF PlaceInv, RecordsAreDistinct, DistinctRequests
<1>8. DistinctRequests(t)
  <2> SUFFICES ASSUME NEW i \in DOMAIN t, NEW j \in DOMAIN t, t[i].req = t[j].req
               PROVE  i = j
    BY DEF DistinctRequests
  <2>1. i + 1 = j + 1
    BY <1>4 DEF PlaceInv, RecordsAreDistinct, DistinctRequests
  <2> QED BY <1>1, <2>1
<1> QED BY <1>5, <1>6, <1>7, <1>8 DEF t

\* Recovery puts each record's request in one place.
LEMMA RecoveryPlace ==
  ASSUME PlaceInv, DeadRunsNothing, TypeInv', Recovery
  PROVE  PlaceInv'
<1> USE DEF PlaceInv
<1>1. CASE Restart
  <2>1. /\ boot = "down" /\ boot' = "recovering"
        /\ mem' \in {disk, << >>} /\ todo' = mem'
        /\ UNCHANGED <<pc, queue, cur, disk>>
    BY <1>1 DEF Restart, driverVars
  <2>2. TaskHasOnePlace' /\ \A s \in Requests : Unplaced(s) => Unplaced(s)'
    BY <2>1, PlaceShrinks
  <2>3. FreshIsUnplaced' /\ FreshIsUnrecorded'
    <3>1. RecordedRequests(mem)' \subseteq RecordedRequests(disk)
      BY <2>1 DEF RecordedRequests
    <3>2. RecordedRequests(disk)' = RecordedRequests(disk)
      BY <2>1 DEF RecordedRequests
    <3> QED BY <2>1, <2>2, <3>1, <3>2, FreshStep
  <2>4. HandlersNeedServer' /\ BootPhases'
    BY <2>1 DEF HandlersNeedServer, BootPhases
  <2>5. RecordsAreDistinct'
    BY <2>1 DEF RecordsAreDistinct, DistinctRequests
  <2>6. \A i \in DOMAIN disk : disk[i].req \in Requests
    <3>1. \A i \in DOMAIN disk : disk[i] \in PersistedTask
      BY DEF TypeInv, TypeOK
    <3> QED BY <3>1 DEF PersistedTask
  <2>7. \A r \in Requests : Unplaced(r)'
    BY <2>1, <2>2 DEF BootPhases
  <2>8. \A i \in DOMAIN disk : pc[disk[i].req] \notin Fresh
    BY <2>1, <2>6 DEF FreshIsUnrecorded, RecordedRequests, HandlersNeedServer, InFlight
  <2>9. TodoIsUnplaced'
    <3>1. \A i \in DOMAIN todo' :
            \E s \in Requests : s = todo'[i].req /\ pc'[s] \notin Fresh
      BY <2>1, <2>6, <2>8
    <3> QED BY <2>7, <3>1, TodoStep
  <2> QED BY <2>2, <2>3, <2>4, <2>5, <2>9
<1>2. CASE Serve
  <2>1. /\ todo = << >> /\ boot' = "up"
        /\ UNCHANGED <<pc, queue, cur, mem, disk, todo>>
    BY <1>2 DEF Serve, driverVars, queueFile
  <2>2. TaskHasOnePlace' /\ \A s \in Requests : Unplaced(s) => Unplaced(s)'
    BY <2>1, PlaceShrinks
  <2>3. FreshIsUnplaced' /\ FreshIsUnrecorded'
    BY <2>1, <2>2, FreshStep
  <2> QED BY <2>1, <2>2, <2>3 DEF HandlersNeedServer, BootPhases,
             RecordsAreDistinct, DistinctRequests, TodoIsUnplaced
<1>3. CASE RecoverSkip \/ RecoverRunning \/ RecoverQueued
  <2>1. /\ boot = "recovering" /\ todo # << >> /\ todo' = Tail(todo)
        /\ UNCHANGED <<pc, boot, mem, disk>>
    BY <1>3 DEF RecoverSkip, RecoverRunning, RecoverQueued, queueFile
  <2>2. PICK r \in Requests : r = Head(todo).req
    BY <2>1, TodoHead
  <2>3. Unplaced(r) /\ pc[r] \notin Fresh
    BY <2>1, <2>2, TodoHead
  <2>4. TaskHasOnePlace' /\ \A s \in Requests \ {r} : Unplaced(s) => Unplaced(s)'
    <3>1. CASE RecoverSkip
      <4>1. UNCHANGED <<queue, cur>>
        BY <3>1 DEF RecoverSkip, driverVars
      <4> QED BY <4>1, PlaceShrinks
    <3>2. CASE RecoverRunning
      <4>1. cur' = [cur EXCEPT ![r] = r] /\ UNCHANGED queue
        BY <2>2, <3>2 DEF RecoverRunning
      <4> QED BY <2>3, <4>1, PlaceTake
    <3>3. CASE RecoverQueued
      <4>1. enqueue_deploy(ProjectOf[r], r) /\ UNCHANGED cur
        BY <2>2, <3>3 DEF RecoverQueued, driverVars
      <4> QED BY <2>3, <4>1, PlaceEnqueue
    <3> QED BY <1>3, <3>1, <3>2, <3>3
  <2>5. FreshIsUnplaced' /\ FreshIsUnrecorded'
    BY <2>1, <2>3, <2>4, FreshStep
  <2>6. TodoIsUnplaced'
    <3>1. \A i \in DOMAIN todo' :
            \E s \in Requests \ {r} : /\ s = todo'[i].req /\ Unplaced(s)
                                      /\ pc'[s] \notin Fresh
      BY <2>1, <2>2, TodoHead
    <3> QED BY <2>4, <3>1, TodoStep
  <2>7. RecordsAreDistinct'
    <3>1. DistinctRequests(todo') /\ DistinctRequests(mem') /\ DistinctRequests(disk')
      BY <2>1, TodoHead DEF RecordsAreDistinct
    <3> QED BY <3>1 DEF RecordsAreDistinct, DistinctRequests
  <2>8. HandlersNeedServer' /\ BootPhases'
    BY <2>1 DEF HandlersNeedServer, BootPhases
  <2> QED BY <2>4, <2>5, <2>6, <2>7, <2>8
<1> QED BY <1>1, <1>2, <1>3 DEF Recovery

\* Every step keeps PlaceInv.
LEMMA PlaceStep ==
  ASSUME PlaceInv, DeadRunsNothing, [Next]_vars
  PROVE  PlaceInv'
<1>1. TypeInv'
  BY TypeStep DEF PlaceInv
<1>2. ASSUME NEW r \in Requests,
             \/ TriggerCheckRunning(r)
             \/ TriggerUnknownProject(r)
             \/ Handler(r)
             \/ Hangup(r)
      PROVE  PlaceInv'
  BY <1>1, <1>2, HandlerPlace
<1>3. ASSUME NEW d \in Requests, Driver(d) PROVE PlaceInv'
  BY <1>1, <1>3, DriverPlace
<1>4. CASE CleanupQueue \/ CleanupStale \/ UNCHANGED vars
  <2>1. UNCHANGED <<pc, boot, todo, mem, disk, cur>>
    BY <1>4 DEF CleanupQueue, CleanupStale, vars, serverVars, driverVars, queueFile
  <2>2. PICK K : \/ UNCHANGED queue
                 \/ queue' = [p \in Projects |-> Retained(queue[p], K)]
    BY <1>4 DEF CleanupQueue, CleanupStale, vars
  <2>3. TaskHasOnePlace' /\ \A s \in Requests : Unplaced(s) => Unplaced(s)'
    BY <2>1, <2>2, PlaceShrinks DEF PlaceInv
  <2>4. DistinctRequests(mem) /\ DistinctRequests(disk)
    BY DEF PlaceInv, RecordsAreDistinct
  <2> QED BY <1>1, <2>1, <2>3, <2>4, PlaceKept
<1>5. CASE Crash
  <2>1. /\ boot' = "down" /\ mem' = << >> /\ todo' = << >> /\ UNCHANGED disk
        /\ cur' = [d \in Requests |-> NoRequest]
        /\ queue' = [p \in Projects |-> << >>]
        /\ pc' = [r \in Requests |-> IF pc[r] \in InFlight THEN "lost" ELSE pc[r]]
    BY <1>5 DEF Crash
  <2>2. Queued' = {} /\ \A p \in Projects : queue'[p] = << >>
    BY <2>1 DEF Queued, Elements
  <2>3. \A r \in Requests : Unplaced(r)'
    BY <2>1, <2>2, EngineAssumption DEF Unplaced
  <2>4. TaskHasOnePlace'
    BY <2>1, <2>2 DEF TaskHasOnePlace, Distinct, Elements
  <2>5. \A r \in Requests : pc'[r] \notin InFlight
    BY <2>1 DEF InFlight
  <2>6. RecordedRequests(mem') = {} /\ RecordedRequests(disk') = RecordedRequests(disk)
    BY <2>1 DEF RecordedRequests
  <2>7. \A r \in Requests : pc'[r] \in Fresh => pc[r] = pc'[r]
    BY <2>1 DEF Fresh
  <2>8. FreshIsUnplaced' /\ FreshIsUnrecorded'
    BY <2>3, <2>6, <2>7, FreshStep
  <2>9. HandlersNeedServer' /\ BootPhases' /\ TodoIsUnplaced'
    BY <2>1, <2>3, <2>5 DEF HandlersNeedServer, BootPhases, TodoIsUnplaced, InFlight
  <2>10. RecordsAreDistinct'
    BY <2>1 DEF PlaceInv, RecordsAreDistinct, DistinctRequests
  <2> QED BY <1>1, <2>4, <2>8, <2>9, <2>10 DEF PlaceInv
<1>6. CASE Recovery
  BY <1>1, <1>6, RecoveryPlace
<1> QED BY <1>2, <1>3, <1>4, <1>5, <1>6 DEF Next

\* The engine starts with every task nowhere.
LEMMA PlaceInit == Init => PlaceInv /\ DeadRunsNothing
<1> SUFFICES ASSUME Init PROVE PlaceInv /\ DeadRunsNothing
  OBVIOUS
<1>1. TypeInv /\ DeadRunsNothing
  BY TypeInit DEF Init, DeadRunsNothing
<1>2. Queued = {}
  BY DEF Init, Queued, Elements
<1>3. \A r \in Requests : Unplaced(r)
  BY <1>2, EngineAssumption DEF Init, Unplaced
<1>4. TaskHasOnePlace
  BY <1>2 DEF Init, TaskHasOnePlace, Distinct, Elements
<1>5. FreshIsUnplaced /\ FreshIsUnrecorded
  BY <1>3 DEF Init, FreshIsUnplaced, FreshIsUnrecorded, RecordedRequests
<1>6. HandlersNeedServer /\ RecordsAreDistinct /\ TodoIsUnplaced /\ BootPhases
  BY DEF Init, HandlersNeedServer, RecordsAreDistinct, DistinctRequests,
     TodoIsUnplaced, BootPhases
<1> QED BY <1>1, <1>4, <1>5, <1>6 DEF PlaceInv

\* Whatever handlers, hang-ups, drivers, cleanup, crashes and recoveries do, no
\* task is queued twice, queued while a driver has it, or driven twice.
THEOREM OnePlace == Spec => []TaskHasOnePlace
<1>1. Init => PlaceInv /\ DeadRunsNothing
  BY PlaceInit
<1>2. PlaceInv /\ DeadRunsNothing /\ [Next]_vars => PlaceInv' /\ DeadRunsNothing'
  <2>1. PlaceInv => TypeInv
    BY DEF PlaceInv
  <2> QED BY <2>1, PlaceStep, DeadStep
<1>3. PlaceInv => TaskHasOnePlace
  BY DEF PlaceInv
<1> QED BY <1>1, <1>2, <1>3, PTL DEF Spec
-------------------------------------------------------------------------------
(* Following one task                                                      *)

\* A request that is nowhere is in no driver's hands.
LEMMA UnplacedHands ==
  ASSUME NEW r \in Requests
  PROVE  Unplaced(r) <=> r \notin Queued /\ Hands(r) = {}
BY DEF Unplaced, Hands

\* ... and stays nowhere if no queue and no driver takes it.
LEMMA UnplacedKept ==
  ASSUME NEW r \in Requests, r \in Queued' <=> r \in Queued, Hands(r)' = Hands(r)
  PROVE  Unplaced(r)' <=> Unplaced(r)
<1>1. Unplaced(r)' <=> r \notin Queued' /\ Hands(r)' = {}
  BY DEF Unplaced, Hands
<1> QED BY <1>1, UnplacedHands

\* One driver at most has a request, and no queue has it then.
LEMMA HandsOfDriver ==
  ASSUME TypeInv, TaskHasOnePlace, NEW d \in Requests, NEW r \in Requests, cur[d] = r
  PROVE  Hands(r) = {drv[d]} /\ r \notin Queued
<1>1. r # NoRequest
  BY EngineAssumption
<1>2. { e \in Requests : cur[e] = r } = {d}
  BY <1>1 DEF TaskHasOnePlace
<1> QED BY <1>2 DEF Hands, TaskHasOnePlace

\* No driver moves.
LEMMA HandsKept ==
  ASSUME UNCHANGED <<drv, cur>>
  PROVE  \A s \in Requests : Hands(s)' = Hands(s)
BY DEF Hands

\* A driver takes a request that no driver has.
LEMMA HandsTake ==
  ASSUME TypeInv, NEW d \in Requests, NEW r \in Requests, NEW ph \in DriverStates,
         cur[d] = NoRequest, Hands(r) = {},
         drv' = [drv EXCEPT ![d] = ph], cur' = [cur EXCEPT ![d] = r]
  PROVE  /\ Hands(r)' = {ph}
         /\ \A s \in Requests \ {r} : Hands(s)' = Hands(s)
<1>1. /\ drv'[d] = ph /\ cur'[d] = r
      /\ \A e \in Requests \ {d} : drv'[e] = drv[e] /\ cur'[e] = cur[e]
  BY DEF TypeInv, TypeOK
<1>2. \A s \in Requests : s # NoRequest
  BY EngineAssumption
<1>3. \A e \in Requests : cur[e] # r
  BY DEF Hands
<1>4. { e \in Requests : cur'[e] = r } = {d}
  BY <1>1, <1>3
<1>5. Hands(r)' = {ph}
  BY <1>1, <1>4 DEF Hands
<1>6. ASSUME NEW s \in Requests \ {r} PROVE Hands(s)' = Hands(s)
  <2>1. \A e \in Requests : cur'[e] = s <=> cur[e] = s
    BY <1>1, <1>2
  <2>2. \A e \in Requests : cur[e] = s => drv'[e] = drv[e]
    BY <1>1, <1>2
  <2> QED BY <2>1, <2>2 DEF Hands
<1> QED BY <1>5, <1>6

\* A driver goes on with the request it has.
LEMMA HandsMove ==
  ASSUME TypeInv, TaskHasOnePlace, NEW d \in Requests, NEW ph \in DriverStates,
         NEW r \in Requests, cur[d] = r, drv' = [drv EXCEPT ![d] = ph],
         UNCHANGED cur
  PROVE  /\ Hands(r)' = {ph}
         /\ \A s \in Requests \ {r} : Hands(s)' = Hands(s)
<1>1. drv'[d] = ph /\ \A e \in Requests \ {d} : drv'[e] = drv[e]
  BY DEF TypeInv, TypeOK
<1>2. r # NoRequest
  BY EngineAssumption
<1>3. { e \in Requests : cur'[e] = r } = {d}
  BY <1>2 DEF TaskHasOnePlace
<1>4. Hands(r)' = {ph}
  BY <1>1, <1>3 DEF Hands
<1>5. ASSUME NEW s \in Requests \ {r} PROVE Hands(s)' = Hands(s)
  <2>1. \A e \in Requests : cur[e] = s => drv'[e] = drv[e]
    BY <1>1
  <2> QED BY <2>1 DEF Hands
<1> QED BY <1>4, <1>5

\* A driver lets its request go, or has none and goes on.
LEMMA HandsDrop ==
  ASSUME TypeInv, TaskHasOnePlace, NEW d \in Requests, NEW ph \in DriverStates,
         drv' = [drv EXCEPT ![d] = ph],
         \/ cur' = [cur EXCEPT ![d] = NoRequest]
         \/ cur[d] = NoRequest /\ UNCHANGED cur
  PROVE  \A s \in Requests :
           Hands(s)' = IF s = cur[d] THEN {} ELSE Hands(s)
<1>1. /\ \A e \in Requests \ {d} : drv'[e] = drv[e] /\ cur'[e] = cur[e]
      /\ cur'[d] = NoRequest
  BY DEF TypeInv, TypeOK
<1>2. \A s \in Requests : s # NoRequest
  BY EngineAssumption
<1> TAKE s \in Requests
<1>3. CASE s = cur[d]
  <2>1. \A e \in Requests : cur[e] = cur[d] => e = d
    BY <1>2, <1>3 DEF TaskHasOnePlace
  <2>2. \A e \in Requests : cur'[e] # s
    BY <1>1, <1>2, <1>3, <2>1
  <2> QED BY <1>3, <2>2 DEF Hands
<1>4. CASE s # cur[d]
  <2>1. \A e \in Requests : cur'[e] = s <=> cur[e] = s
    BY <1>1, <1>2, <1>4
  <2>2. \A e \in Requests : cur[e] = s => drv'[e] = drv[e]
    BY <1>1, <1>2, <1>4
  <2>3. Hands(s)' = Hands(s)
    BY <2>1, <2>2 DEF Hands
  <2> QED BY <1>4, <2>3
<1> QED BY <1>3, <1>4

\* cleanup_expired_queue_items takes the old requests out, and no other.
LEMMA QueuedShrinks ==
  ASSUME TypeInv, NEW old,
         queue' = [p \in Projects |-> Retained(queue[p], Requests \ old)]
  PROVE  Queued' = Queued \ old
<1>1. ASSUME NEW p \in Projects
      PROVE  Elements(queue'[p]) = Elements(queue[p]) \ old
  <2>1. queue[p] \in Seq(Requests) /\ Elements(queue[p]) \subseteq Requests
    BY QueueType
  <2>2. Elements(queue'[p]) = Elements(queue[p]) \cap (Requests \ old)
    BY <2>1, RetainedElements
  <2> QED BY <2>1, <2>2
<1>2. \A s : s \in Queued' <=> \E p \in Projects : s \in Elements(queue'[p])
  BY DEF Queued, Elements
<1>3. \A s : s \in Queued <=> \E p \in Projects : s \in Elements(queue[p])
  BY DEF Queued
<1>4. \A p \in Projects : \A s : s \in Elements(queue'[p])
                               <=> s \in Elements(queue[p]) /\ s \notin old
  BY <1>1
<1>5. \A s : s \in Queued' <=> s \in Queued /\ s \notin old
  BY <1>2, <1>3, <1>4
<1> QED BY <1>5

\* A step of a handler concerns its own request only.
LEMMA HandlerHands ==
  ASSUME HandsInv, NEW r \in Requests,
         \/ TriggerCheckRunning(r)
         \/ TriggerUnknownProject(r)
         \/ Handler(r)
         \/ Hangup(r)
  PROVE  /\ boot = "up" /\ todo = << >>
         /\ UNCHANGED <<boot, todo, finished, expired, skipped, history>>
         /\ \A s \in Requests \ {r} : /\ pc'[s] = pc[s]
                                      /\ s \in Queued' <=> s \in Queued
                                      /\ Hands(s)' = Hands(s)
         /\ TriggerEnqueue(r) =>
              Unplaced(r) /\ r \in Queued' /\ Hands(r)' = {}
         /\ TriggerSpawn(r) =>
              Unplaced(r) /\ r \notin Queued' /\ Hands(r)' = {"deploying"}
         /\ ~ TriggerEnqueue(r) /\ ~ TriggerSpawn(r) =>
              (r \in Queued' <=> r \in Queued) /\ Hands(r)' = Hands(r)
<1> USE DEF HandsInv, PlaceInv
<1>1. UNCHANGED <<boot, todo, finished, expired, skipped, history>>
  BY DEF TriggerCheckRunning, TriggerUnknownProject, Handler, TriggerCheckQueue,
     TriggerEnqueue, TriggerPersistQueued, TriggerRespondQueued, TriggerRegister,
     TriggerPersistRunning, TriggerSpawn, Hangup, TriggerDropped,
     TriggerDroppedCreated, TriggerDroppedSaving, serverVars, ghostVars, storeVars
<1>2. \A s \in Requests \ {r} : pc'[s] = pc[s]
  BY DEF TriggerCheckRunning, TriggerUnknownProject, Handler, TriggerCheckQueue,
     TriggerEnqueue, TriggerPersistQueued, TriggerRespondQueued, TriggerRegister,
     TriggerPersistRunning, TriggerSpawn, Hangup, TriggerDropped,
     TriggerDroppedCreated, TriggerDroppedSaving, At, TypeInv, TypeOK
<1>3. boot = "up" \/ pc[r] \in InFlight
  BY DEF TriggerCheckRunning, TriggerUnknownProject, Handler, TriggerCheckQueue,
     TriggerEnqueue, TriggerPersistQueued, TriggerRespondQueued,
     TriggerRegister, TriggerPersistRunning, TriggerSpawn, Hangup,
     TriggerDropped, TriggerDroppedCreated, TriggerDroppedSaving, At, InFlight
<1>4. boot = "up" /\ todo = << >>
  BY <1>3 DEF HandlersNeedServer, BootPhases
<1>5. CASE TriggerEnqueue(r)
  <2>1. pc[r] \in Fresh
    BY <1>5 DEF TriggerEnqueue, At, Fresh
  <2>2. Unplaced(r)
    BY <2>1 DEF FreshIsUnplaced
  <2>3. enqueue_deploy(ProjectOf[r], r) /\ UNCHANGED <<drv, cur>>
    BY <1>5 DEF TriggerEnqueue, driverVars
  <2>4. Queued' = Queued \cup {r}
    BY <2>2, <2>3, PlaceEnqueue
  <2>5. \A s \in Requests : Hands(s)' = Hands(s)
    BY <2>3, HandsKept
  <2>6. ~ TriggerSpawn(r)
    BY <1>5 DEF TriggerEnqueue, TriggerSpawn, At
  <2> QED BY <1>1, <1>2, <1>4, <1>5, <2>2, <2>4, <2>5, <2>6, UnplacedHands
<1>6. CASE TriggerSpawn(r)
  <2>1. pc[r] \in Fresh
    BY <1>6 DEF TriggerSpawn, At, Fresh
  <2>2. Unplaced(r)
    BY <2>1 DEF FreshIsUnplaced
  <2>3. cur[r] = NoRequest
    BY <2>1 DEF SpawnedOnce, IdleHasNoRequest, Holding
  <2>4. /\ drv' = [drv EXCEPT ![r] = "deploying"] /\ cur' = [cur EXCEPT ![r] = r]
        /\ UNCHANGED queue
    BY <1>6 DEF TriggerSpawn
  <2>5. Queued' = Queued
    BY <2>4 DEF Queued, Elements
  <2>6. Hands(r) = {} /\ "deploying" \in DriverStates
    BY <2>2, UnplacedHands DEF DriverStates
  <2>7. Hands(r)' = {"deploying"} /\ \A s \in Requests \ {r} : Hands(s)' = Hands(s)
    BY <2>3, <2>4, <2>6, HandsTake
  <2>8. ~ TriggerEnqueue(r)
    BY <1>6 DEF TriggerEnqueue, TriggerSpawn, At
  <2> QED BY <1>1, <1>2, <1>4, <1>6, <2>2, <2>5, <2>7, <2>8, UnplacedHands
<1>7. CASE ~ TriggerEnqueue(r) /\ ~ TriggerSpawn(r)
  <2>1. UNCHANGED <<queue, drv, cur>>
    BY <1>7 DEF TriggerCheckRunning, TriggerUnknownProject, Handler,
       TriggerCheckQueue, TriggerPersistQueued, TriggerRespondQueued,
       TriggerRegister, TriggerPersistRunning, Hangup, TriggerDropped,
       TriggerDroppedCreated, TriggerDroppedSaving, driverVars
  <2>2. Queued' = Queued
    BY <2>1 DEF Queued, Elements
  <2> QED BY <1>1, <1>2, <1>4, <1>7, <2>1, <2>2, HandsKept
<1> QED BY <1>5, <1>6, <1>7

\* A step of a driver that works on a task concerns that task only.
LEMMA HolderHands ==
  ASSUME HandsInv, NEW d \in Requests,
         \/ FinishTask(d) \/ FinishHistory(d) \/ FinishRelease(d)
         \/ ExecuteUnpersist(d) \/ ExecuteUnregister(d)
         \/ QueuePromote(d) \/ QueueRegister(d)
  PROVE  \E r \in Requests :
           /\ cur[d] = r /\ r \notin Queued /\ Queued' = Queued
           /\ Hands(r) = {drv[d]}
           /\ Hands(r)' = IF ExecuteUnregister(d) THEN {} ELSE {drv'[d]}
           /\ \A s \in Requests \ {r} : Hands(s)' = Hands(s)
<1> USE DEF HandsInv, PlaceInv
<1>1. drv[d] \in Holding /\ UNCHANGED queue
  BY DEF FinishTask, FinishHistory, FinishRelease, ExecuteUnpersist,
     ExecuteUnregister, QueuePromote, QueueRegister, DriverAt, Holding
<1>2. PICK r \in Requests : cur[d] = r
  BY <1>1 DEF TypeInv, HolderHasRequest
<1>3. Hands(r) = {drv[d]} /\ r \notin Queued
  BY <1>2, HandsOfDriver
<1>4. Queued' = Queued
  BY <1>1 DEF Queued, Elements
<1>5. CASE ExecuteUnregister(d)
  <2>1. /\ drv' = [drv EXCEPT ![d] = "draining"] /\ "draining" \in DriverStates
        /\ cur' = [cur EXCEPT ![d] = NoRequest]
    BY <1>5 DEF ExecuteUnregister, DriverAt, DriverStates
  <2>2. \A s \in Requests : Hands(s)' = IF s = cur[d] THEN {} ELSE Hands(s)
    BY <2>1, HandsDrop
  <2> QED BY <1>2, <1>3, <1>4, <1>5, <2>2
<1>6. CASE ~ ExecuteUnregister(d)
  <2>1. PICK ph \in DriverStates : drv' = [drv EXCEPT ![d] = ph]
    BY <1>6 DEF FinishTask, FinishHistory, FinishRelease, ExecuteUnpersist,
       QueuePromote, QueueRegister, DriverAt, DriverStates
  <2>2. UNCHANGED cur
    BY <1>6 DEF FinishTask, FinishHistory, FinishRelease, ExecuteUnpersist,
       QueuePromote, QueueRegister, driverVars
  <2>3. Hands(r)' = {ph} /\ \A s \in Requests \ {r} : Hands(s)' = Hands(s)
    BY <1>2, <2>1, <2>2, HandsMove
  <2>4. drv'[d] = ph
    BY <2>1 DEF TypeInv, TypeOK
  <2> QED BY <1>2, <1>3, <1>4, <1>6, <2>3, <2>4
<1> QED BY <1>5, <1>6

\* Taking from the queue concerns the queue's head only.
LEMMA TakeHands ==
  ASSUME HandsInv, NEW d \in Requests, QueueTake(d)
  PROVE  \E h \in Requests :
           /\ h \in Queued /\ Queued' = Queued \ {h}
           /\ cur'[d] = h /\ Hands(h) = {} /\ Hands(h)' = {"dequeued"}
           /\ \A s \in Requests \ {h} : Hands(s)' = Hands(s)
<1> USE DEF HandsInv, PlaceInv
<1>1. /\ queue[ProjectOf[d]] # << >> /\ drv[d] = "draining"
      /\ drv' = [drv EXCEPT ![d] = "dequeued"] /\ "dequeued" \in DriverStates
      /\ cur' = [cur EXCEPT ![d] = Head(queue[ProjectOf[d]])]
      /\ dequeue_deploy(ProjectOf[d])
  BY DEF QueueTake, DriverAt, DriverStates
<1>2. PICK h \in Requests : h = Head(queue[ProjectOf[d]])
  <2>1. ProjectOf[d] \in Projects
    BY EngineAssumption
  <2>2. queue[ProjectOf[d]] \in Seq(Requests)
    BY <2>1 DEF TypeInv, TypeOK
  <2> QED BY <1>1, <2>2
<1>3. h \in Queued /\ Queued' = Queued \ {h}
  BY <1>1, <1>2, PlaceDequeue
<1>4. Hands(h) = {}
  BY <1>3 DEF TaskHasOnePlace, Hands
<1>5. cur[d] = NoRequest
  BY <1>1 DEF IdleHasNoRequest, Holding
<1>6. Hands(h)' = {"dequeued"} /\ \A s \in Requests \ {h} : Hands(s)' = Hands(s)
  BY <1>1, <1>2, <1>4, <1>5, HandsTake
<1>7. cur'[d] = h
  BY <1>1, <1>2 DEF TypeInv, TypeOK
<1> QED BY <1>3, <1>4, <1>6, <1>7

\* A driver that finds its queue empty has no task.
LEMMA EmptyHands ==
  ASSUME HandsInv, NEW d \in Requests, QueueEmpty(d)
  PROVE  Queued' = Queued /\ \A s \in Requests : Hands(s)' = Hands(s)
<1> USE DEF HandsInv, PlaceInv
<1>1. /\ drv[d] = "draining" /\ drv' = [drv EXCEPT ![d] = "done"]
      /\ "done" \in DriverStates /\ UNCHANGED <<cur, queue>>
  BY DEF QueueEmpty, DriverAt, DriverStates
<1>2. cur[d] = NoRequest
  BY <1>1 DEF IdleHasNoRequest, Holding
<1>3. \A s \in Requests : s # cur[d]
  BY <1>2, EngineAssumption
<1>4. \A s \in Requests : Hands(s)' = Hands(s)
  BY <1>1, <1>2, <1>3, HandsDrop
<1>5. Queued' = Queued
  BY <1>1 DEF Queued, Elements
<1> QED BY <1>4, <1>5

\* The requests of the records that recovery has still to look at.
LEMMA TodoRequests ==
  ASSUME PlaceInv, todo # << >>, todo' = Tail(todo)
  PROVE  /\ Head(todo).req \in Requests
         /\ Head(todo).req \in RecordedRequests(todo)
         /\ RecordedRequests(todo') = RecordedRequests(todo) \ {Head(todo).req}
<1> DEFINE t == Tail(todo)
<1>1. /\ Len(todo) \in Nat \ {0} /\ DOMAIN todo = 1 .. Len(todo)
      /\ DOMAIN t = 1 .. Len(todo) - 1 /\ Head(todo) = todo[1]
      /\ \A i \in 1 .. Len(todo) - 1 : t[i] = todo[i + 1]
  BY DEF PlaceInv, TypeInv, TypeOK
<1> HIDE DEF t
<1>2. 1 \in DOMAIN todo
  BY <1>1
<1>3. \A i \in DOMAIN t : i + 1 \in DOMAIN todo /\ t[i] = todo[i + 1]
  BY <1>1
<1>4. \A i \in DOMAIN todo : i = 1 \/ (i - 1 \in DOMAIN t /\ todo[i] = t[i - 1])
  BY <1>1
<1>5. \A i \in DOMAIN t : t[i].req # Head(todo).req
  BY TodoHead DEF t
<1>6. \A x \in RecordedRequests(t) : x \in RecordedRequests(todo) \ {Head(todo).req}
  BY <1>3, <1>5 DEF RecordedRequests
<1>7. \A x \in RecordedRequests(todo) : x = Head(todo).req \/ x \in RecordedRequests(t)
  BY <1>1, <1>4 DEF RecordedRequests
<1>8. Head(todo).req \in RecordedRequests(todo)
  BY <1>1, <1>2 DEF RecordedRequests
<1> QED BY <1>6, <1>7, <1>8, TodoHead DEF t

\* What recovery has still to look at is a request that is nowhere.
LEMMA TodoIsNowhere ==
  ASSUME PlaceInv
  PROVE  \A s \in RecordedRequests(todo) :
           s \in Requests /\ Unplaced(s) /\ pc[s] \notin Fresh
<1>1. \A i \in DOMAIN todo : todo[i].req \in Requests
  <2>1. \A i \in DOMAIN todo : todo[i] \in PersistedTask
    BY DEF PlaceInv, TypeInv, TypeOK
  <2> QED BY <2>1 DEF PersistedTask
<1> QED BY <1>1 DEF RecordedRequests, PlaceInv, TodoIsUnplaced

\* A step of recovery concerns the request of the next record only.
LEMMA RecoverHands ==
  ASSUME HandsInv, RecoverSkip \/ RecoverRunning \/ RecoverQueued
  PROVE  \E r \in Requests :
           /\ r = Head(todo).req /\ r \in RecordedRequests(todo)
           /\ RecordedRequests(todo') = RecordedRequests(todo) \ {r}
           /\ Unplaced(r) /\ pc[r] \notin Fresh /\ drv[r] = "none"
           /\ \A s \in Requests \ {r} : /\ s \in Queued' <=> s \in Queued
                                        /\ Hands(s)' = Hands(s)
           /\ RecoverSkip => r \notin Queued' /\ Hands(r)' = {}
           /\ RecoverRunning => r \notin Queued' /\ Hands(r)' = {"deploying"}
           /\ RecoverQueued => r \in Queued' /\ Hands(r)' = {}
<1> USE DEF HandsInv, PlaceInv
<1>1. todo # << >> /\ todo' = Tail(todo)
  BY DEF RecoverSkip, RecoverRunning, RecoverQueued
<1>2. PICK r \in Requests : r = Head(todo).req
  BY <1>1, TodoRequests
<1>3. /\ r \in RecordedRequests(todo)
      /\ RecordedRequests(todo') = RecordedRequests(todo) \ {r}
  BY <1>1, <1>2, TodoRequests
<1>4. Unplaced(r) /\ pc[r] \notin Fresh
  BY <1>1, <1>2, TodoHead
<1>5. drv[r] = "none" /\ cur[r] = NoRequest
  BY <1>3 DEF SpawnedOnce, IdleHasNoRequest, Holding
<1>6. r \notin Queued /\ Hands(r) = {}
  BY <1>4, UnplacedHands
<1>7. ASSUME RecoverSkip
      PROVE  Queued' = Queued /\ \A s \in Requests : Hands(s)' = Hands(s)
  <2>1. UNCHANGED <<queue, drv, cur>>
    BY <1>7 DEF RecoverSkip, driverVars
  <2>2. Queued' = Queued
    BY <2>1 DEF Queued, Elements
  <2> QED BY <2>1, <2>2, HandsKept
<1>8. ASSUME RecoverRunning
      PROVE  /\ Queued' = Queued /\ Hands(r)' = {"deploying"}
             /\ \A s \in Requests \ {r} : Hands(s)' = Hands(s)
  <2>1. /\ UNCHANGED queue /\ drv' = [drv EXCEPT ![r] = "deploying"]
        /\ cur' = [cur EXCEPT ![r] = r] /\ "deploying" \in DriverStates
    BY <1>2, <1>8 DEF RecoverRunning, DriverStates
  <2>2. Queued' = Queued
    BY <2>1 DEF Queued, Elements
  <2> QED BY <1>5, <1>6, <2>1, <2>2, HandsTake
<1>9. ASSUME RecoverQueued
      PROVE  /\ Queued' = Queued \cup {r}
             /\ \A s \in Requests : Hands(s)' = Hands(s)
  <2>1. enqueue_deploy(ProjectOf[r], r) /\ UNCHANGED <<drv, cur>>
    BY <1>2, <1>9 DEF RecoverQueued, driverVars
  <2>2. Queued' = Queued \cup {r}
    BY <1>4, <2>1, PlaceEnqueue
  <2> QED BY <2>1, <2>2, HandsKept
<1>10. \A s \in Requests \ {r} : (s \in Queued' <=> s \in Queued) /\ Hands(s)' = Hands(s)
  BY <1>7, <1>8, <1>9
<1>11. /\ RecoverSkip => r \notin Queued' /\ Hands(r)' = {}
       /\ RecoverRunning => r \notin Queued' /\ Hands(r)' = {"deploying"}
       /\ RecoverQueued => r \in Queued' /\ Hands(r)' = {}
  BY <1>6, <1>7, <1>8, <1>9
<1> QED BY <1>2, <1>3, <1>4, <1>5, <1>10, <1>11

\* A driver's step lets go only of a task that has run to its end.
LEMMA DriverFinished ==
  ASSUME TypeInv, RemovesOnlyFinished, NEW d \in Requests, Driver(d)
  PROVE  RemovesOnlyFinished'
<1>1. CASE FinishTask(d)
  BY <1>1 DEF FinishTask, DriverAt, RemovesOnlyFinished, TypeInv, TypeOK
<1>2. CASE FinishHistory(d) \/ FinishRelease(d) \/ QueueEmpty(d)
           \/ ExecuteUnpersist(d) \/ QueuePromote(d)
  BY <1>2 DEF FinishHistory, FinishRelease, QueueEmpty, ExecuteUnpersist,
     QueuePromote, DriverAt, ghostVars, RemovesOnlyFinished, TypeInv, TypeOK
<1>3. CASE ExecuteUnregister(d) \/ QueueTake(d) \/ QueueRegister(d)
  BY <1>3 DEF ExecuteUnregister, QueueTake, QueueRegister, DriverAt, ghostVars,
     RemovesOnlyFinished, TypeInv, TypeOK
<1> QED BY <1>1, <1>2, <1>3 DEF Driver, DriverGoesOn

\* A driver's step leaves it with a task exactly as long as it works on one.
LEMMA DriverIdle ==
  ASSUME TypeInv, IdleHasNoRequest, NEW d \in Requests, Driver(d)
  PROVE  IdleHasNoRequest'
<1>1. CASE ExecuteUnregister(d)
  BY <1>1 DEF ExecuteUnregister, DriverAt, IdleHasNoRequest, TypeInv, TypeOK
<1>2. CASE QueueTake(d)
  BY <1>2 DEF QueueTake, DriverAt, IdleHasNoRequest, Holding, TypeInv, TypeOK
<1>3. CASE ~ ExecuteUnregister(d) /\ ~ QueueTake(d)
  <2>1. UNCHANGED cur
    BY <1>3 DEF Driver, DriverGoesOn, FinishTask, FinishHistory, FinishRelease, ExecuteUnpersist,
       QueueEmpty, QueuePromote, QueueRegister, driverVars
  <2>2. /\ \A e \in Requests \ {d} : drv'[e] = drv[e]
        /\ drv[d] \in Holding \/ drv[d] = "draining"
        /\ drv'[d] \in Holding \/ drv[d] = "draining"
    BY <1>3 DEF Driver, DriverGoesOn, FinishTask, FinishHistory, FinishRelease, ExecuteUnpersist,
       QueueEmpty, QueuePromote, QueueRegister, DriverAt, Holding, TypeInv, TypeOK
  <2>3. "draining" \notin Holding
    BY DEF Holding
  <2> QED BY <2>1, <2>2, <2>3 DEF IdleHasNoRequest
<1> QED BY <1>1, <1>2, <1>3

\* Every step keeps HandsInv.
LEMMA HandsStep ==
  ASSUME HandsInv, [Next]_vars
  PROVE  HandsInv'
<1> USE DEF HandsInv
<1>1. TypeInv /\ TypeInv'
  BY TypeStep DEF PlaceInv
<1>2. PlaceInv' /\ DeadRunsNothing'
  BY <1>1, PlaceStep, DeadStep
<1>3. ASSUME NEW r \in Requests,
             \/ TriggerCheckRunning(r)
             \/ TriggerUnknownProject(r)
             \/ Handler(r)
             \/ Hangup(r)
      PROVE  RemovesOnlyFinished' /\ IdleHasNoRequest' /\ SpawnedOnce'
  <2>1. /\ todo' = << >> /\ finished' = finished
        /\ \A s \in Requests \ {r} : pc'[s] = pc[s]
    BY <1>3, HandlerHands
  <2>2. RecordedRequests(todo') = {}
    BY <2>1 DEF RecordedRequests
  <2>3. CASE TriggerSpawn(r)
    <3>1. /\ drv'[r] = "deploying" /\ cur'[r] = r /\ pc'[r] \notin Fresh
          /\ \A s \in Requests \ {r} : drv'[s] = drv[s] /\ cur'[s] = cur[s]
      BY <1>1, <2>3 DEF TriggerSpawn, At, TypeInv, TypeOK, Fresh
    <3> QED BY <2>1, <2>2, <3>1
            DEF RemovesOnlyFinished, IdleHasNoRequest, SpawnedOnce, Holding,
                RecordedRequests
  <2>4. CASE ~ TriggerSpawn(r)
    <3>1. UNCHANGED <<drv, cur>>
      BY <1>3, <2>4 DEF TriggerCheckRunning, TriggerUnknownProject, Handler,
         TriggerCheckQueue, TriggerEnqueue, TriggerPersistQueued,
         TriggerRespondQueued, TriggerRegister, TriggerPersistRunning, Hangup,
         TriggerDropped, TriggerDroppedCreated, TriggerDroppedSaving, driverVars
    <3>2. pc'[r] \in Fresh => pc[r] \in Fresh
      BY <1>1, <1>3 DEF TriggerCheckRunning, TriggerUnknownProject, Handler,
         TriggerCheckQueue, TriggerEnqueue, TriggerPersistQueued,
         TriggerRespondQueued, TriggerRegister, TriggerPersistRunning, TriggerSpawn,
         Hangup, TriggerDropped, TriggerDroppedCreated, TriggerDroppedSaving, At,
         Fresh, TypeInv, TypeOK
    <3>3. \A s \in Requests : pc'[s] \in Fresh => pc[s] \in Fresh
      BY <2>1, <3>2
    <3>4. SpawnedOnce'
      <4> SUFFICES ASSUME NEW s \in Requests,
                          pc'[s] \in Fresh \/ s \in RecordedRequests(todo')
                   PROVE  drv'[s] = "none"
        BY DEF SpawnedOnce, Fresh, RecordedRequests
      <4> QED BY <2>2, <3>1, <3>3 DEF SpawnedOnce
    <3> QED BY <2>1, <3>1, <3>4 DEF RemovesOnlyFinished, IdleHasNoRequest
  <2> QED BY <2>3, <2>4
<1>4. ASSUME NEW d \in Requests, Driver(d)
      PROVE  RemovesOnlyFinished' /\ IdleHasNoRequest' /\ SpawnedOnce'
  <2>1. drv[d] # "none" /\ \A e \in Requests \ {d} : drv'[e] = drv[e]
    BY <1>1, <1>4 DEF Driver, DriverGoesOn, FinishTask, FinishHistory, FinishRelease,
       ExecuteUnpersist, ExecuteUnregister, QueueTake, QueueEmpty, QueuePromote,
       QueueRegister, DriverAt, TypeInv, TypeOK
  <2>2. UNCHANGED <<pc, todo>>
    BY <1>4 DEF Driver, DriverGoesOn, FinishTask, FinishHistory, FinishRelease,
       ExecuteUnpersist, ExecuteUnregister, QueueTake, QueueEmpty, QueuePromote,
       QueueRegister, serverVars
  <2>3. SpawnedOnce'
    BY <2>1, <2>2 DEF SpawnedOnce, RecordedRequests, Fresh
  <2> QED BY <1>1, <1>4, <2>3, DriverFinished, DriverIdle
<1>5. CASE CleanupQueue \/ CleanupStale \/ Serve \/ UNCHANGED vars
  <2>1. UNCHANGED <<pc, todo, drv, cur, finished>>
    BY <1>5 DEF CleanupQueue, CleanupStale, Serve, vars, serverVars, driverVars,
       ghostVars
  <2> QED BY <1>2, <2>1 DEF RemovesOnlyFinished, IdleHasNoRequest, SpawnedOnce,
             RecordedRequests, Fresh
<1>6. CASE Crash
  <2>1. /\ drv' = [d \in Requests |-> "none"] /\ cur' = [d \in Requests |-> NoRequest]
    BY <1>6 DEF Crash
  <2> QED BY <1>2, <2>1 DEF RemovesOnlyFinished, IdleHasNoRequest, SpawnedOnce
<1>7. CASE Restart
  <2>1. UNCHANGED <<drv, cur, finished>> /\ \A r \in Requests : drv[r] = "none"
    BY <1>7 DEF Restart, driverVars, DeadRunsNothing
  <2> QED BY <1>2, <2>1 DEF RemovesOnlyFinished, IdleHasNoRequest, SpawnedOnce
<1>8. CASE RecoverSkip \/ RecoverRunning \/ RecoverQueued
  <2>1. PICK r \in Requests :
          /\ r = Head(todo).req /\ pc[r] \notin Fresh
          /\ RecordedRequests(todo') = RecordedRequests(todo) \ {r}
    BY <1>8, RecoverHands
  <2>2. UNCHANGED <<pc, finished>>
    BY <1>8 DEF RecoverSkip, RecoverRunning, RecoverQueued, ghostVars
  <2>3. CASE RecoverRunning
    <3>1. /\ drv'[r] = "deploying" /\ cur'[r] = r
          /\ \A s \in Requests \ {r} : drv'[s] = drv[s] /\ cur'[s] = cur[s]
      BY <1>1, <2>1, <2>3 DEF RecoverRunning, TypeInv, TypeOK
    <3>2. RemovesOnlyFinished' /\ IdleHasNoRequest'
      BY <2>2, <3>1 DEF RemovesOnlyFinished, IdleHasNoRequest, Holding
    <3>3. SpawnedOnce'
      <4> SUFFICES ASSUME NEW s \in Requests,
                          pc'[s] \in Fresh \/ s \in RecordedRequests(todo')
                   PROVE  drv'[s] = "none"
        BY DEF SpawnedOnce, Fresh, RecordedRequests
      <4>1. s # r /\ (pc[s] \in Fresh \/ s \in RecordedRequests(todo))
        BY <2>1, <2>2
      <4>2. drv[s] = "none"
        BY <4>1 DEF SpawnedOnce
      <4> QED BY <3>1, <4>1, <4>2
    <3> QED BY <1>2, <3>2, <3>3
  <2>4. CASE RecoverSkip \/ RecoverQueued
    <3>1. UNCHANGED <<drv, cur>>
      BY <2>4 DEF RecoverSkip, RecoverQueued, driverVars
    <3>2. RemovesOnlyFinished' /\ IdleHasNoRequest'
      BY <2>2, <3>1 DEF RemovesOnlyFinished, IdleHasNoRequest
    <3>3. SpawnedOnce'
      <4> SUFFICES ASSUME NEW s \in Requests,
                          pc'[s] \in Fresh \/ s \in RecordedRequests(todo')
                   PROVE  drv'[s] = "none"
        BY DEF SpawnedOnce, Fresh, RecordedRequests
      <4>1. s # r /\ (pc[s] \in Fresh \/ s \in RecordedRequests(todo))
        BY <2>1, <2>2
      <4>2. drv[s] = "none"
        BY <4>1 DEF SpawnedOnce
      <4> QED BY <3>1, <4>1, <4>2
    <3> QED BY <1>2, <3>2, <3>3
  <2> QED BY <1>8, <2>3, <2>4
<1> QED BY <1>2, <1>3, <1>4, <1>5, <1>6, <1>7, <1>8 DEF Next, Recovery

\* The agent starts with empty hands.
LEMMA HandsInit == Init => HandsInv
<1> SUFFICES ASSUME Init PROVE HandsInv
  OBVIOUS
<1>1. PlaceInv /\ DeadRunsNothing
  BY PlaceInit
<1>2. RemovesOnlyFinished /\ IdleHasNoRequest /\ SpawnedOnce
  BY DEF Init, RemovesOnlyFinished, IdleHasNoRequest, SpawnedOnce
<1> QED BY <1>1, <1>2 DEF HandsInv

-------------------------------------------------------------------------------
(* An accepted task is held                                                *)

\* A task that is held, ended or still to be recovered.
Accounted(r) ==
  \/ r \in Queued \cup RecordedRequests(todo)
  \/ Hands(r) # {}
  \/ r \in finished \cup expired \cup skipped

\* The unique id of a task leads back to its request.
LEMMA RecordOfRequest ==
  ASSUME UniqueTaskIds, NEW q \in Seq(PersistedTask), NEW r \in Requests,
         HasTask(q, TaskOf[r])
  PROVE  r \in RecordedRequests(q)
<1>1. PICK i \in DOMAIN q : TaskOf[q[i].req] = TaskOf[r]
  BY DEF HasTask
<1>2. q[i].req \in Requests
  <2>1. q[i] \in PersistedTask
    OBVIOUS
  <2> QED BY <2>1 DEF PersistedTask
<1>3. q[i].req = r
  BY <1>1, <1>2 DEF UniqueTaskIds
<1> QED BY <1>3 DEF RecordedRequests

\* Every step keeps accepted tasks accounted for.
LEMMA HeldStep ==
  ASSUME ~ LoadMayFail, UniqueTaskIds, HandsInv, RecordedUntilFinished, EnqueuedIsHeld,
         [Next]_vars
  PROVE  EnqueuedIsHeld'
<1> USE DEF HandsInv, PlaceInv
<1> SUFFICES ASSUME NEW s \in Requests, boot' # "down",
                    pc'[s] \in {"enqueued", "recorded", "acked"}
             PROVE  Accounted(s)'
  BY DEF EnqueuedIsHeld, Accounted
<1>1. ASSUME NEW r \in Requests,
             \/ TriggerCheckRunning(r)
             \/ TriggerUnknownProject(r)
             \/ Handler(r)
             \/ Hangup(r)
      PROVE  Accounted(s)'
  <2>1. /\ boot = "up" /\ UNCHANGED <<boot, todo, finished, expired, skipped>>
        /\ \A t \in Requests \ {r} : /\ pc'[t] = pc[t]
                                     /\ t \in Queued' <=> t \in Queued
                                     /\ Hands(t)' = Hands(t)
        /\ TriggerEnqueue(r) => r \in Queued'
        /\ TriggerSpawn(r) => Hands(r)' = {"deploying"}
        /\ ~ TriggerEnqueue(r) /\ ~ TriggerSpawn(r) =>
             (r \in Queued' <=> r \in Queued) /\ Hands(r)' = Hands(r)
    BY <1>1, HandlerHands
  <2>2. RecordedRequests(todo)' = RecordedRequests(todo)
    BY <2>1 DEF RecordedRequests
  <2>3. CASE s # r
    <3>1. Accounted(s)
      BY <2>1, <2>3 DEF EnqueuedIsHeld, Accounted
    <3> QED BY <2>1, <2>2, <2>3, <3>1 DEF Accounted
  <2>4. CASE s = r /\ (TriggerEnqueue(r) \/ TriggerSpawn(r))
    BY <2>1, <2>4 DEF Accounted
  <2>5. CASE s = r /\ ~ TriggerEnqueue(r) /\ ~ TriggerSpawn(r)
    <3>1. pc[s] \in {"enqueued", "recorded", "acked"}
      BY <1>1, <2>5 DEF TriggerCheckRunning, TriggerUnknownProject, Handler,
         TriggerCheckQueue, TriggerPersistQueued, TriggerRespondQueued,
         TriggerRegister, TriggerPersistRunning, Hangup, TriggerDropped,
         TriggerDroppedCreated, TriggerDroppedSaving, At, TypeInv, TypeOK
    <3>2. Accounted(s)
      BY <2>1, <3>1 DEF EnqueuedIsHeld, Accounted
    <3> QED BY <2>1, <2>2, <2>5, <3>2 DEF Accounted
  <2> QED BY <2>3, <2>4, <2>5
<1>2. ASSUME UNCHANGED <<boot, pc, todo>>
      PROVE  Accounted(s) /\ RecordedRequests(todo)' = RecordedRequests(todo)
  BY <1>2 DEF EnqueuedIsHeld, Accounted, RecordedRequests
<1>3. ASSUME NEW d \in Requests, Driver(d) PROVE Accounted(s)'
  <2>1. /\ UNCHANGED <<boot, pc, todo, expired, skipped>>
        /\ finished \subseteq finished'
    BY <1>3 DEF Driver, DriverGoesOn, FinishTask, FinishHistory, FinishRelease,
       ExecuteUnpersist, ExecuteUnregister, QueueTake, QueueEmpty, QueuePromote,
       QueueRegister, serverVars, ghostVars
  <2>2. Accounted(s) /\ RecordedRequests(todo)' = RecordedRequests(todo)
    BY <1>2, <2>1
  <2>3. CASE QueueTake(d)
    <3>1. PICK h \in Requests :
            /\ Queued' = Queued \ {h} /\ Hands(h)' = {"dequeued"}
            /\ \A t \in Requests \ {h} : Hands(t)' = Hands(t)
      BY <2>3, TakeHands
    <3>2. Hands(h)' # {}
      BY <3>1
    <3> QED BY <2>1, <2>2, <3>1, <3>2 DEF Accounted
  <2>4. CASE QueueEmpty(d)
    BY <2>1, <2>2, <2>4, EmptyHands DEF Accounted
  <2>5. CASE ~ QueueTake(d) /\ ~ QueueEmpty(d)
    <3>1. PICK r \in Requests :
            /\ cur[d] = r /\ Queued' = Queued
            /\ Hands(r)' = IF ExecuteUnregister(d) THEN {} ELSE {drv'[d]}
            /\ \A t \in Requests \ {r} : Hands(t)' = Hands(t)
      BY <1>3, <2>5, HolderHands DEF Driver, DriverGoesOn
    <3>2. ExecuteUnregister(d) => r \in finished
      BY <3>1 DEF ExecuteUnregister, DriverAt, RemovesOnlyFinished
    <3>3. CASE s = r /\ ExecuteUnregister(d)
      BY <2>1, <3>2, <3>3 DEF Accounted
    <3>4. CASE s = r /\ ~ ExecuteUnregister(d)
      <4>1. Hands(s)' # {}
        BY <3>1, <3>4
      <4> QED BY <4>1 DEF Accounted
    <3>5. CASE s # r
      BY <2>1, <2>2, <3>1, <3>5 DEF Accounted
    <3> QED BY <3>3, <3>4, <3>5
  <2> QED BY <2>3, <2>4, <2>5
<1>4. CASE CleanupQueue
  <2>1. PICK old \in SUBSET Queued :
          /\ queue' = [p \in Projects |-> Retained(queue[p], Requests \ old)]
          /\ expired' = expired \cup old
    BY <1>4 DEF CleanupQueue
  <2>2. UNCHANGED <<boot, pc, todo, drv, cur, finished, skipped>>
    BY <1>4 DEF CleanupQueue, serverVars, driverVars
  <2>3. Queued' = Queued \ old
    BY <2>1, QueuedShrinks
  <2> QED BY <1>2, <2>1, <2>2, <2>3, HandsKept DEF Accounted
<1>5. CASE CleanupStale \/ Serve \/ UNCHANGED vars
  <2>1. /\ UNCHANGED <<pc, todo, queue, drv, cur, finished, expired, skipped>>
        /\ boot # "down"
    BY <1>5 DEF CleanupStale, Serve, vars, serverVars, driverVars, ghostVars
  <2>2. Queued' = Queued /\ RecordedRequests(todo)' = RecordedRequests(todo)
    BY <2>1 DEF Queued, Elements, RecordedRequests
  <2>3. Accounted(s)
    BY <2>1 DEF EnqueuedIsHeld, Accounted
  <2> QED BY <2>1, <2>2, <2>3, HandsKept DEF Accounted
<1>6. CASE Crash
  BY <1>6 DEF Crash
<1>7. CASE Restart
  <2>1. /\ boot = "down" /\ todo' = disk /\ pc' = pc /\ finished' = finished
        /\ disk \in Seq(PersistedTask)
    BY <1>7 DEF Restart, TypeInv, TypeOK
  <2>2. pc[s] = "acked"
    BY <2>1 DEF HandlersNeedServer, InFlight
  <2>3. CASE s \in finished
    BY <2>1, <2>3 DEF Accounted
  <2>4. CASE s \notin finished
    <3>1. HasTask(disk, TaskOf[s])
      BY <2>2, <2>4 DEF RecordedUntilFinished
    <3>2. s \in RecordedRequests(disk)
      BY <2>1, <3>1, RecordOfRequest
    <3>3. s \in RecordedRequests(todo)'
      BY <2>1, <3>2 DEF RecordedRequests
    <3> QED BY <3>3 DEF Accounted
  <2> QED BY <2>3, <2>4
<1>8. CASE RecoverSkip \/ RecoverRunning \/ RecoverQueued
  <2>1. PICK r \in Requests :
          /\ r = Head(todo).req
          /\ RecordedRequests(todo') = RecordedRequests(todo) \ {r}
          /\ \A t \in Requests \ {r} : /\ t \in Queued' <=> t \in Queued
                                       /\ Hands(t)' = Hands(t)
          /\ RecoverRunning => Hands(r)' = {"deploying"}
          /\ RecoverQueued => r \in Queued'
    BY <1>8, RecoverHands
  <2>2. UNCHANGED <<boot, pc, finished, expired>>
    BY <1>8 DEF RecoverSkip, RecoverRunning, RecoverQueued, ghostVars
  <2>3. /\ RecoverSkip => skipped' = skipped \cup {r}
        /\ ~ RecoverSkip => skipped' = skipped
    BY <1>8, <2>1 DEF RecoverSkip, RecoverRunning, RecoverQueued
  <2>4. Accounted(s)
    BY <2>2 DEF EnqueuedIsHeld, Accounted
  <2>5. RecordedRequests(todo)' = RecordedRequests(todo) \ {r}
    BY <2>1 DEF RecordedRequests
  <2>6. CASE s = r
    <3>1. {"deploying"} # {}
      OBVIOUS
    <3> QED BY <1>8, <2>1, <2>3, <2>6, <3>1 DEF Accounted
  <2>7. CASE s # r
    BY <2>1, <2>2, <2>3, <2>4, <2>5, <2>7 DEF Accounted
  <2> QED BY <2>6, <2>7
<1> QED BY <1>1, <1>3, <1>4, <1>5, <1>6, <1>7, <1>8 DEF Next, Recovery

\* While the agent serves requests, no accepted task is lost from sight, not
\* even by a restart: if loads and saves succeed and no two requests share a task id, it
\* is queued or driven, or it has finished, expired or been passed over.
THEOREM NoTaskIsLost ==
  ASSUME ~ SaveMayFail, ~ LoadMayFail, UniqueTaskIds
  PROVE  Spec => []AckedTaskIsHeld
<1> DEFINE Inv == HandsInv /\ DurableInv /\ EnqueuedIsHeld
<1>1. Init => Inv
  <2> SUFFICES ASSUME Init PROVE Inv
    OBVIOUS
  <2>1. HandsInv
    BY HandsInit
  <2>2. DurableInv
    BY <2>1 DEF HandsInv, PlaceInv, DurableInv, Init, RecordedUntilFinished
  <2>3. EnqueuedIsHeld
    BY DEF Init, EnqueuedIsHeld
  <2> QED BY <2>1, <2>2, <2>3
<1>2. Inv /\ [Next]_vars => Inv'
  <2> SUFFICES ASSUME Inv, [Next]_vars PROVE Inv'
    OBVIOUS
  <2>1. HandsInv'
    BY HandsStep
  <2>2. DurableInv'
    BY DurableStep DEF HandsInv
  <2>3. EnqueuedIsHeld'
    BY HeldStep DEF DurableInv
  <2> QED BY <2>1, <2>2, <2>3
<1>3. Inv => AckedTaskIsHeld
  <2> SUFFICES ASSUME Inv, boot = "up", NEW r \in Requests, pc[r] = "acked"
               PROVE  \/ r \in Queued \cup finished \cup expired \cup skipped
                      \/ \E d \in Requests : cur[d] = r
    BY DEF AckedTaskIsHeld, Acked
  <2>1. RecordedRequests(todo) = {}
    BY DEF HandsInv, PlaceInv, BootPhases, RecordedRequests
  <2> QED BY <2>1 DEF EnqueuedIsHeld, Hands
<1> HIDE DEF Inv
<1> QED BY <1>1, <1>2, <1>3, PTL DEF Spec

-------------------------------------------------------------------------------
(* A task that is held is recorded                                         *)

\* A handler's step keeps every record, and ends with its own task recorded
\* where PlacedIsRecorded asks for it.
LEMMA HandlerRecords ==
  ASSUME TypeInv, NEW r \in Requests,
         \/ TriggerCheckRunning(r)
         \/ TriggerUnknownProject(r)
         \/ Handler(r)
         \/ Hangup(r)
  PROVE  /\ \A id : HasTask(mem, id) => HasTask(mem', id)
         /\ pc'[r] \in {"recorded", "launching", "acked"} =>
              \/ HasTask(mem', TaskOf[r])
              \/ pc[r] \in {"recorded", "launching"}
<1>1. CASE TriggerPersistQueued(r) \/ TriggerPersistRunning(r)
           \/ TriggerDroppedSaving(r)
  <2>1. PICK st \in PersistedStatus : mem' = add_task(mem, [req |-> r, status |-> st])
    BY <1>1 DEF TriggerPersistQueued, TriggerPersistRunning,
       TriggerDroppedSaving, save, PersistedStatus
  <2> DEFINE t == [req |-> r, status |-> st]
  <2>2. t \in PersistedTask /\ t.req = r
    BY DEF PersistedTask
  <2> HIDE DEF t
  <2>3. mem' = add_task(mem, t) /\ mem \in Seq(PersistedTask)
    BY <2>1 DEF t, TypeInv, TypeOK
  <2> QED BY <2>2, <2>3, AddTaskRecords
<1>2. CASE ~ (TriggerPersistQueued(r) \/ TriggerPersistRunning(r)
              \/ TriggerDroppedSaving(r))
  <2>1. mem' = mem
    BY <1>2 DEF TriggerCheckRunning, TriggerUnknownProject, Handler,
       TriggerCheckQueue, TriggerEnqueue, TriggerRespondQueued, TriggerRegister,
       TriggerSpawn, Hangup, TriggerDropped, TriggerDroppedCreated, queueFile
  <2>2. pc'[r] \in {"recorded", "launching", "acked"} =>
          pc[r] \in {"recorded", "launching"}
    BY <1>2 DEF TriggerCheckRunning, TriggerUnknownProject, Handler,
       TriggerCheckQueue, TriggerEnqueue, TriggerRespondQueued, TriggerRegister,
       TriggerSpawn, Hangup, TriggerDropped, TriggerDroppedCreated, At, TypeInv,
       TypeOK
  <2> QED BY <2>1, <2>2
<1> QED BY <1>1, <1>2

\* A driver's step takes no record away but that of its own, finished task.
LEMMA DriverRecords ==
  ASSUME UniqueTaskIds, HandsInv, NEW d \in Requests, Driver(d),
         NEW s \in Requests, HasTask(mem, TaskOf[s]),
         s \notin finished \/ \A e \in Requests : cur[e] # s
  PROVE  HasTask(mem', TaskOf[s])
<1>1. mem \in Seq(PersistedTask)
  BY DEF HandsInv, PlaceInv, TypeInv, TypeOK
<1>2. CASE ExecuteUnpersist(d)
  <2>1. PICK r \in Requests : cur[d] = r
    BY <1>2, HolderHands
  <2>2. r \in finished
    BY <1>2, <2>1 DEF ExecuteUnpersist, DriverAt, HandsInv, RemovesOnlyFinished
  <2>3. s # r
    BY <2>1, <2>2
  <2>4. TaskOf[s] # TaskOf[r]
    BY <2>3 DEF UniqueTaskIds
  <2>5. mem' = mem \/ mem' = remove_task(mem, TaskOf[r])
    BY <1>2, <2>1 DEF ExecuteUnpersist, save, queueFile
  <2> QED BY <1>1, <2>4, <2>5, RemoveTaskKeepsOthers
<1>3. CASE QueuePromote(d)
  <2>1. mem' = update_task_status(mem, TaskOf[cur[d]], "running")
    BY <1>3 DEF QueuePromote, save
  <2> QED BY <1>1, <2>1, UpdateTaskStatusKeeps
<1>4. CASE ~ ExecuteUnpersist(d) /\ ~ QueuePromote(d)
  <2>1. mem' = mem
    BY <1>4 DEF Driver, DriverGoesOn, FinishTask, FinishHistory, FinishRelease,
       ExecuteUnregister, QueueTake, QueueEmpty, QueueRegister, queueFile
  <2> QED BY <2>1
<1> QED BY <1>2, <1>3, <1>4

\* A driver places no task that was nowhere.
LEMMA DriverPlacesPlaced ==
  ASSUME HandsInv, NEW d \in Requests, Driver(d), NEW s \in Requests, Unplaced(s)
  PROVE  Unplaced(s)'
<1>1. s \notin Queued /\ Hands(s) = {}
  BY UnplacedHands
<1>2. CASE QueueTake(d)
  <2>1. PICK h \in Requests :
          /\ h \in Queued /\ Queued' = Queued \ {h}
          /\ \A t \in Requests \ {h} : Hands(t)' = Hands(t)
    BY <1>2, TakeHands
  <2>2. s \notin Queued' /\ Hands(s)' = {}
    BY <1>1, <2>1
  <2> QED BY <2>2 DEF Unplaced, Hands
<1>3. CASE QueueEmpty(d)
  <2>1. s \notin Queued' /\ Hands(s)' = {}
    BY <1>1, <1>3, EmptyHands
  <2> QED BY <2>1 DEF Unplaced, Hands
<1>4. CASE ~ QueueTake(d) /\ ~ QueueEmpty(d)
  <2>1. PICK r \in Requests :
          /\ Queued' = Queued /\ Hands(r) = {drv[d]}
          /\ \A t \in Requests \ {r} : Hands(t)' = Hands(t)
    BY <1>4, HolderHands DEF Driver, DriverGoesOn
  <2>2. s \notin Queued' /\ Hands(s)' = {}
    BY <1>1, <2>1
  <2> QED BY <2>2 DEF Unplaced, Hands
<1> QED BY <1>2, <1>3, <1>4

\* Every step keeps the records of what is held and of what recovery will hold.
LEMMA RecordedStep ==
  ASSUME UniqueTaskIds, HandsInv, HandsInv', PlacedIsRecorded, TodoIsRecorded,
         [Next]_vars
  PROVE  PlacedIsRecorded' /\ TodoIsRecorded'
<1> USE DEF HandsInv, PlaceInv
<1> DEFINE Placed(s) == \/ pc[s] \in {"recorded", "launching"}
                        \/ pc[s] = "acked" /\ ~ Unplaced(s)
           Good(s) == s \notin finished /\ Placed(s) => HasTask(mem, TaskOf[s])
<1>1. PlacedIsRecorded => \A s \in Requests : Good(s)
  BY DEF PlacedIsRecorded
<1>2. (\A s \in Requests : Good(s)') => PlacedIsRecorded'
  BY DEF PlacedIsRecorded, HasTask, Unplaced
<1> HIDE DEF Good
<1>3. ASSUME NEW r \in Requests,
             \/ TriggerCheckRunning(r)
             \/ TriggerUnknownProject(r)
             \/ Handler(r)
             \/ Hangup(r)
      PROVE  PlacedIsRecorded' /\ TodoIsRecorded'
  <2>1. /\ todo' = << >> /\ finished' = finished
        /\ \A t \in Requests \ {r} : /\ pc'[t] = pc[t]
                                     /\ t \in Queued' <=> t \in Queued
                                     /\ Hands(t)' = Hands(t)
    BY <1>3, HandlerHands
  <2>2. TodoIsRecorded'
    BY <2>1 DEF TodoIsRecorded, RecordedRequests
  <2>3. /\ \A id : HasTask(mem, id) => HasTask(mem', id)
        /\ pc'[r] \in {"recorded", "launching", "acked"} =>
             HasTask(mem', TaskOf[r]) \/ pc[r] \in {"recorded", "launching"}
    BY <1>3, HandlerRecords
  <2>4. ASSUME NEW s \in Requests PROVE Good(s)'
    <3>1. CASE s = r
      BY <1>1, <2>1, <2>3, <3>1 DEF Good
    <3>2. CASE s # r
      <4>1. Unplaced(s)' <=> Unplaced(s)
        BY <2>1, <3>2, UnplacedKept
      <4> QED BY <1>1, <2>1, <2>3, <3>2, <4>1 DEF Good
    <3> QED BY <3>1, <3>2
  <2> QED BY <1>2, <2>2, <2>4
<1>4. ASSUME NEW d \in Requests, Driver(d)
      PROVE  PlacedIsRecorded' /\ TodoIsRecorded'
  <2>1. UNCHANGED <<pc, todo>> /\ finished \subseteq finished'
    BY <1>4 DEF Driver, DriverGoesOn, FinishTask, FinishHistory, FinishRelease,
       ExecuteUnpersist, ExecuteUnregister, QueueTake, QueueEmpty, QueuePromote,
       QueueRegister, serverVars, ghostVars
  <2>2. ASSUME NEW s \in Requests PROVE Good(s)'
    <3> SUFFICES ASSUME s \notin finished', Placed(s)'
                 PROVE  HasTask(mem', TaskOf[s])
      BY DEF Good, HasTask
    <3>1. Placed(s)
      BY <1>4, <2>1, DriverPlacesPlaced
    <3>2. s \notin finished /\ HasTask(mem, TaskOf[s])
      BY <1>1, <2>1, <3>1 DEF Good
    <3> QED BY <1>4, <3>2, DriverRecords
  <2>3. TodoIsRecorded'
    <3> SUFFICES ASSUME NEW s \in RecordedRequests(todo)
                 PROVE  HasTask(mem', TaskOf[s])
      BY <2>1 DEF TodoIsRecorded, RecordedRequests, HasTask
    <3>1. s \in Requests /\ Unplaced(s)
      BY TodoIsNowhere
    <3>2. HasTask(mem, TaskOf[s])
      BY DEF TodoIsRecorded
    <3> QED BY <1>4, <3>1, <3>2, DriverRecords DEF Unplaced
  <2> QED BY <1>2, <2>2, <2>3
<1>5. CASE CleanupQueue \/ CleanupStale \/ Serve \/ UNCHANGED vars
  <2>1. UNCHANGED <<pc, todo, mem, cur, finished>>
    BY <1>5 DEF CleanupQueue, CleanupStale, Serve, vars, serverVars, driverVars,
       ghostVars, queueFile
  <2>2. PICK K : \/ UNCHANGED queue
                 \/ queue' = [p \in Projects |-> Retained(queue[p], K)]
    BY <1>5 DEF CleanupQueue, CleanupStale, Serve, vars
  <2>3. \A s \in Requests : Unplaced(s) => Unplaced(s)'
    BY <2>1, <2>2, PlaceShrinks
  <2>4. \A s \in Requests : Good(s)'
    BY <1>1, <2>1, <2>3 DEF Good
  <2> QED BY <1>2, <2>1, <2>4 DEF TodoIsRecorded, RecordedRequests, HasTask
<1>6. CASE Crash
  <2>1. /\ boot' = "down" /\ todo' = << >>
        /\ \A s \in Requests : pc'[s] \notin {"recorded", "launching"}
    BY <1>6 DEF Crash, InFlight
  <2>2. \A s \in Requests : Unplaced(s)'
    BY <2>1 DEF BootPhases
  <2>3. \A s \in Requests : Good(s)'
    BY <2>1, <2>2 DEF Good
  <2> QED BY <1>2, <2>1, <2>3 DEF TodoIsRecorded, RecordedRequests
<1>7. CASE Restart
  <2>1. /\ boot = "down" /\ todo' = mem' /\ UNCHANGED <<pc, queue, cur>>
        /\ mem' \in Seq(PersistedTask)
    BY <1>7 DEF Restart, driverVars, TypeInv, TypeOK
  <2>2. \A s \in Requests : Unplaced(s)'
    BY <2>1 DEF BootPhases, Unplaced, Queued, Elements
  <2>3. \A s \in Requests : pc'[s] \notin {"recorded", "launching"}
    BY <2>1 DEF HandlersNeedServer, InFlight
  <2>4. \A s \in Requests : Good(s)'
    BY <2>2, <2>3 DEF Good
  <2> QED BY <1>2, <2>1, <2>4 DEF TodoIsRecorded, RecordedRequests, HasTask
<1>8. CASE RecoverSkip \/ RecoverRunning \/ RecoverQueued
  <2>1. PICK r \in Requests :
          /\ r \in RecordedRequests(todo)
          /\ RecordedRequests(todo') = RecordedRequests(todo) \ {r}
          /\ \A t \in Requests \ {r} : /\ t \in Queued' <=> t \in Queued
                                       /\ Hands(t)' = Hands(t)
    BY <1>8, RecoverHands
  <2>2. UNCHANGED <<pc, mem, finished>>
    BY <1>8 DEF RecoverSkip, RecoverRunning, RecoverQueued, queueFile, ghostVars
  <2>3. HasTask(mem, TaskOf[r])
    BY <2>1 DEF TodoIsRecorded
  <2>4. ASSUME NEW s \in Requests PROVE Good(s)'
    <3>1. CASE s = r
      BY <2>2, <2>3, <3>1 DEF Good
    <3>2. CASE s # r
      <4>1. Unplaced(s)' <=> Unplaced(s)
        BY <2>1, <3>2, UnplacedKept
      <4> QED BY <1>1, <2>2, <3>2, <4>1 DEF Good
    <3> QED BY <3>1, <3>2
  <2>5. TodoIsRecorded'
    <3> SUFFICES ASSUME NEW s \in RecordedRequests(todo')
                 PROVE  HasTask(mem', TaskOf[s])
      BY DEF TodoIsRecorded, RecordedRequests, HasTask
    <3> QED BY <2>1, <2>2 DEF TodoIsRecorded
  <2> QED BY <1>2, <2>4, <2>5
<1> QED BY <1>3, <1>4, <1>5, <1>6, <1>7, <1>8 DEF Next, Recovery

\* Even if saves fail, callers hang up and the process dies, the list in memory
\* has the record of every accepted task that is queued or driven and not
\* finished, as long as no two requests share a task id.
THEOREM HeldIsRecorded ==
  ASSUME UniqueTaskIds
  PROVE  Spec => []HeldTaskIsRecorded
<1> DEFINE Inv == HandsInv /\ PlacedIsRecorded /\ TodoIsRecorded
<1>1. Init => Inv
  <2> SUFFICES ASSUME Init PROVE PlacedIsRecorded /\ TodoIsRecorded
    BY HandsInit
  <2> QED BY DEF Init, PlacedIsRecorded, TodoIsRecorded, RecordedRequests
<1>2. Inv /\ [Next]_vars => Inv'
  BY HandsStep, RecordedStep
<1>3. Inv => HeldTaskIsRecorded
  BY DEF PlacedIsRecorded, HeldTaskIsRecorded, Acked, Unplaced
<1> HIDE DEF Inv
<1> QED BY <1>1, <1>2, <1>3, PTL DEF Spec

-------------------------------------------------------------------------------
(* The store shows what the engine does                                    *)

\* The store follows one task.
Follows(r) ==
  /\ r \in Queued \/ "dequeued" \in Hands(r) => tasks[TaskOf[r]] = "queued"
  /\ pc[r] \in {"registered", "launching"}
     \/ "promoted" \in Hands(r) \/ "deploying" \in Hands(r)
       => tasks[TaskOf[r]] = "running"

\* A step that changes the entry of one task leaves the others' alone.
SameEntry(s) == tasks'[TaskOf[s]] = tasks[TaskOf[s]]

\* A request whose place and entry stay follows its record as before.
LEMMA FollowsKept ==
  ASSUME NEW s \in Requests, Follows(s), SameEntry(s), pc'[s] = pc[s],
         s \in Queued' => s \in Queued, Hands(s)' = Hands(s)
  PROVE  Follows(s)'
<1>1. TaskOf'[s] = TaskOf[s]
  OBVIOUS
<1> QED BY DEF Follows, SameEntry

\* A request that a queue or a driver has is past its handler's first steps.
LEMMA PlacedIsNotFresh ==
  ASSUME FreshIsUnplaced, NEW s \in Requests, s \in Queued \/ Hands(s) # {}
  PROVE  pc[s] \notin Fresh
BY UnplacedHands DEF FreshIsUnplaced

\* What a handler does to the store concerns its own task only.
LEMMA HandlerEntries ==
  ASSUME UniqueTaskIds, TypeInv, NEW r \in Requests,
         \/ TriggerCheckRunning(r)
         \/ TriggerUnknownProject(r)
         \/ Handler(r)
         \/ Hangup(r)
  PROVE  \A s \in Requests \ {r} : SameEntry(s)
<1> TAKE s \in Requests \ {r}
<1>1. TaskOf[s] # TaskOf[r] /\ TaskOf[s] \in TaskIds /\ TaskOf[r] \in TaskIds
  BY TaskOfAssumption DEF UniqueTaskIds
<1>2. tasks \in [TaskIds -> DeployStatus \cup {Absent}]
  BY DEF TypeInv, TypeOK
<1>3. CASE TriggerEnqueue(r)
  BY <1>1, <1>2, <1>3 DEF TriggerEnqueue, create, SameEntry
<1>4. CASE TriggerRegister(r)
  BY <1>1, <1>2, <1>4 DEF TriggerRegister, create, SameEntry
<1>5. CASE TriggerDroppedCreated(r)
  BY <1>1, <1>2, <1>5 DEF TriggerDroppedCreated, create, SameEntry
<1>6. CASE ~ (TriggerEnqueue(r) \/ TriggerRegister(r) \/ TriggerDroppedCreated(r))
  <2>1. UNCHANGED <<tasks, channels>>
    BY <1>6 DEF TriggerCheckRunning, TriggerUnknownProject, Handler,
       TriggerCheckQueue, TriggerPersistQueued, TriggerRespondQueued,
       TriggerPersistRunning, TriggerSpawn, Hangup, TriggerDropped,
       TriggerDroppedSaving, storeVars
  <2> QED BY <2>1 DEF SameEntry
<1> QED BY <1>3, <1>4, <1>5, <1>6

\* What a driver does to the store concerns the task it has.
LEMMA DriverEntries ==
  ASSUME UniqueTaskIds, TypeInv, NEW d \in Requests, Driver(d),
         NEW r \in Requests, cur[d] = r \/ QueueTake(d) \/ QueueEmpty(d)
  PROVE  \A s \in Requests \ {r} : SameEntry(s)
<1> TAKE s \in Requests \ {r}
<1>1. TaskOf[s] # TaskOf[r] /\ TaskOf[s] \in TaskIds /\ TaskOf[r] \in TaskIds
  BY TaskOfAssumption DEF UniqueTaskIds
<1>2. tasks \in [TaskIds -> DeployStatus \cup {Absent}]
  BY DEF TypeInv, TypeOK
<1>3. CASE FinishTask(d)
  <2>1. cur[d] = r
    BY <1>3 DEF FinishTask, QueueTake, QueueEmpty, DriverAt
  <2> QED BY <1>1, <1>2, <1>3, <2>1 DEF FinishTask, remove, SameEntry
<1>4. CASE FinishRelease(d)
  <2>1. cur[d] = r
    BY <1>4 DEF FinishRelease, QueueTake, QueueEmpty, DriverAt
  <2> QED BY <1>1, <1>4, <2>1 DEF FinishRelease, SameEntry
<1>5. CASE QueuePromote(d)
  <2>1. cur[d] = r
    BY <1>5 DEF QueuePromote, QueueTake, QueueEmpty, DriverAt
  <2> QED BY <1>1, <1>2, <1>5, <2>1 DEF QueuePromote, update_status, SameEntry
<1>6. CASE QueueRegister(d)
  <2>1. cur[d] = r
    BY <1>6 DEF QueueRegister, QueueTake, QueueEmpty, DriverAt
  <2> QED BY <1>1, <1>6, <2>1 DEF QueueRegister, SameEntry
<1>7. CASE FinishHistory(d) \/ ExecuteUnpersist(d) \/ ExecuteUnregister(d)
           \/ QueueTake(d) \/ QueueEmpty(d)
  <2>1. UNCHANGED <<tasks, channels>>
    BY <1>7 DEF FinishHistory, ExecuteUnpersist, ExecuteUnregister, QueueTake,
       QueueEmpty, storeVars
  <2> QED BY <2>1 DEF SameEntry
<1> QED BY <1>3, <1>4, <1>5, <1>6, <1>7 DEF Driver, DriverGoesOn

\* A handler's step keeps the store following its task.
LEMMA HandlerFollows ==
  ASSUME HandsInv, NEW r \in Requests, Follows(r),
         \/ TriggerCheckRunning(r)
         \/ TriggerUnknownProject(r)
         \/ Handler(r)
         \/ Hangup(r)
  PROVE  Follows(r)'
<1> USE DEF HandsInv, PlaceInv
<1>1. /\ TriggerEnqueue(r) => r \in Queued' /\ Hands(r)' = {}
      /\ TriggerSpawn(r) => r \notin Queued' /\ Hands(r)' = {"deploying"}
      /\ ~ TriggerEnqueue(r) /\ ~ TriggerSpawn(r) =>
           (r \in Queued' <=> r \in Queued) /\ Hands(r)' = Hands(r)
  BY HandlerHands
<1>2. tasks \in [TaskIds -> DeployStatus \cup {Absent}] /\ TaskOf[r] \in TaskIds
  BY TaskOfAssumption DEF TypeInv, TypeOK
<1>3. pc[r] \in Fresh => r \notin Queued /\ Hands(r) = {}
  BY PlacedIsNotFresh
<1>4. CASE TriggerEnqueue(r)
  <2>1. tasks'[TaskOf[r]] = "queued" /\ pc'[r] = "enqueued"
    BY <1>2, <1>4 DEF TriggerEnqueue, create, At, TypeInv, TypeOK
  <2> QED BY <1>1, <1>4, <2>1 DEF Follows
<1>5. CASE TriggerRegister(r)
  <2>1. /\ tasks'[TaskOf[r]] = "running"
        /\ pc[r] \in Fresh /\ ~ TriggerEnqueue(r) /\ ~ TriggerSpawn(r)
    BY <1>2, <1>5 DEF TriggerRegister, TriggerEnqueue, TriggerSpawn, create, At, Fresh
  <2> QED BY <1>1, <1>3, <2>1 DEF Follows
<1>6. CASE TriggerSpawn(r)
  <2>1. UNCHANGED <<tasks, channels>> /\ pc[r] = "launching"
    BY <1>6 DEF TriggerSpawn, At, storeVars
  <2> QED BY <1>1, <1>6, <2>1 DEF Follows
<1>7. CASE TriggerDroppedCreated(r)
  <2>1. /\ pc[r] \in Fresh /\ pc'[r] = "lost"
        /\ ~ TriggerEnqueue(r) /\ ~ TriggerSpawn(r)
    BY <1>7 DEF TriggerDroppedCreated, TriggerEnqueue, TriggerSpawn, At, Fresh,
       TypeInv, TypeOK
  <2> QED BY <1>1, <1>3, <2>1 DEF Follows
<1>8. CASE ~ (TriggerEnqueue(r) \/ TriggerRegister(r) \/ TriggerSpawn(r)
              \/ TriggerDroppedCreated(r))
  <2>1. UNCHANGED <<tasks, channels>>
    BY <1>8 DEF TriggerCheckRunning, TriggerUnknownProject, Handler,
       TriggerCheckQueue, TriggerPersistQueued, TriggerRespondQueued,
       TriggerPersistRunning, Hangup, TriggerDropped, TriggerDroppedSaving,
       storeVars
  <2>2. pc'[r] \in {"registered", "launching"} => pc[r] \in {"registered", "launching"}
    BY <1>8 DEF TriggerCheckRunning, TriggerUnknownProject, Handler,
       TriggerCheckQueue, TriggerPersistQueued, TriggerRespondQueued,
       TriggerPersistRunning, Hangup, TriggerDropped, TriggerDroppedSaving, At,
       TypeInv, TypeOK
  <2> QED BY <1>1, <1>8, <2>1, <2>2 DEF Follows
<1> QED BY <1>4, <1>5, <1>6, <1>7, <1>8

\* A driver's step keeps the store following the task the driver has.
LEMMA DriverFollows ==
  ASSUME HandsInv, NEW d \in Requests, NEW r \in Requests, cur[d] = r, Follows(r),
         \/ FinishTask(d) \/ FinishHistory(d) \/ FinishRelease(d)
         \/ ExecuteUnpersist(d) \/ ExecuteUnregister(d)
         \/ QueuePromote(d) \/ QueueRegister(d),
         Queued' = Queued, r \notin Queued, Hands(r) = {drv[d]},
         Hands(r)' = IF ExecuteUnregister(d) THEN {} ELSE {drv'[d]}
  PROVE  Follows(r)'
<1> USE DEF HandsInv, PlaceInv
<1>1. pc'[r] = pc[r]
  BY DEF FinishTask, FinishHistory, FinishRelease, ExecuteUnpersist,
     ExecuteUnregister, QueuePromote, QueueRegister
<1>2. pc[r] \notin {"registered", "launching"}
  <2>1. Hands(r) # {}
    OBVIOUS
  <2> QED BY <2>1, PlacedIsNotFresh DEF Fresh
<1>3. tasks \in [TaskIds -> DeployStatus \cup {Absent}] /\ TaskOf[r] \in TaskIds
  BY TaskOfAssumption DEF TypeInv, TypeOK
<1>4. CASE QueuePromote(d)
  <2>1. drv[d] = "dequeued" /\ drv'[d] = "promoted" /\ ~ ExecuteUnregister(d)
    BY <1>4 DEF QueuePromote, ExecuteUnregister, DriverAt, TypeInv, TypeOK
  <2>2. tasks[TaskOf[r]] = "queued"
    BY <2>1 DEF Follows
  <2>3. tasks'[TaskOf[r]] = "running"
    BY <1>3, <1>4, <2>2 DEF QueuePromote, update_status, Absent
  <2> QED BY <1>1, <1>2, <2>1, <2>3 DEF Follows
<1>5. CASE QueueRegister(d)
  <2>1. /\ drv[d] = "promoted" /\ drv'[d] = "deploying" /\ ~ ExecuteUnregister(d)
        /\ tasks' = tasks
    BY <1>5 DEF QueueRegister, ExecuteUnregister, DriverAt, TypeInv, TypeOK
  <2>2. tasks'[TaskOf[r]] = "running"
    BY <2>1 DEF Follows
  <2> QED BY <1>1, <1>2, <2>1, <2>2 DEF Follows
<1>6. CASE ~ QueuePromote(d) /\ ~ QueueRegister(d)
  <2>1. drv'[d] \notin {"dequeued", "promoted", "deploying"}
    BY <1>6 DEF FinishTask, FinishHistory, FinishRelease, ExecuteUnpersist,
       ExecuteUnregister, DriverAt, TypeInv, TypeOK
  <2>2. Hands(r)' \cap {"dequeued", "promoted", "deploying"} = {}
    BY <2>1
  <2> QED BY <1>1, <1>2, <2>2 DEF Follows
<1> QED BY <1>4, <1>5, <1>6

\* Every step keeps the store following the tasks.
LEMMA FollowsStep ==
  ASSUME UniqueTaskIds, HandsInv, HandsInv', StoreFollowsTask, [Next]_vars
  PROVE  StoreFollowsTask'
<1> USE DEF HandsInv, PlaceInv
<1>1. \A s \in Requests : Follows(s)
  BY DEF StoreFollowsTask, Follows
<1> SUFFICES ASSUME NEW s \in Requests PROVE Follows(s)'
  BY DEF StoreFollowsTask, Follows
<1>2. ASSUME NEW r \in Requests,
             \/ TriggerCheckRunning(r)
             \/ TriggerUnknownProject(r)
             \/ Handler(r)
             \/ Hangup(r)
      PROVE  Follows(s)'
  <2>1. CASE s = r
    BY <1>1, <1>2, <2>1, HandlerFollows
  <2>2. CASE s # r
    <3>1. /\ pc'[s] = pc[s]
          /\ s \in Queued' <=> s \in Queued
          /\ Hands(s)' = Hands(s)
      BY <1>2, <2>2, HandlerHands
    <3>2. SameEntry(s)
      BY <1>2, <2>2, HandlerEntries
    <3> QED BY <1>1, <3>1, <3>2, FollowsKept
  <2> QED BY <2>1, <2>2
<1>3. ASSUME NEW d \in Requests, Driver(d) PROVE Follows(s)'
  <2>1. pc' = pc
    BY <1>3 DEF Driver, DriverGoesOn, FinishTask, FinishHistory, FinishRelease,
       ExecuteUnpersist, ExecuteUnregister, QueueTake, QueueEmpty, QueuePromote,
       QueueRegister
  <2>2. CASE QueueTake(d)
    <3>1. PICK h \in Requests :
            /\ h \in Queued /\ Queued' = Queued \ {h} /\ Hands(h)' = {"dequeued"}
            /\ \A t \in Requests \ {h} : Hands(t)' = Hands(t)
      BY <2>2, TakeHands
    <3>2. UNCHANGED <<tasks, channels>>
      BY <2>2 DEF QueueTake, storeVars
    <3>3. CASE s = h
      <4>1. pc[s] \notin {"registered", "launching"} /\ tasks[TaskOf[s]] = "queued"
        BY <1>1, <3>1, <3>3, PlacedIsNotFresh DEF Fresh, Follows
      <4>2. s \notin Queued' /\ Hands(s)' = {"dequeued"}
        BY <3>1, <3>3
      <4> QED BY <2>1, <3>2, <4>1, <4>2 DEF Follows
    <3>4. CASE s # h
      BY <1>1, <2>1, <3>1, <3>2, <3>4, FollowsKept DEF SameEntry
    <3> QED BY <3>3, <3>4
  <2>3. CASE QueueEmpty(d)
    <3>1. Queued' = Queued /\ Hands(s)' = Hands(s)
      BY <2>3, EmptyHands
    <3>2. UNCHANGED <<tasks, channels>>
      BY <2>3 DEF QueueEmpty, storeVars
    <3> QED BY <1>1, <2>1, <3>1, <3>2, FollowsKept DEF SameEntry
  <2>4. CASE ~ QueueTake(d) /\ ~ QueueEmpty(d)
    <3>1. PICK r \in Requests :
            /\ cur[d] = r /\ r \notin Queued /\ Queued' = Queued
            /\ Hands(r) = {drv[d]}
            /\ Hands(r)' = IF ExecuteUnregister(d) THEN {} ELSE {drv'[d]}
            /\ \A t \in Requests \ {r} : Hands(t)' = Hands(t)
      BY <1>3, <2>4, HolderHands DEF Driver, DriverGoesOn
    <3>2. CASE s = r
      BY <1>1, <1>3, <2>4, <3>1, <3>2, DriverFollows DEF Driver, DriverGoesOn
    <3>3. CASE s # r
      <4>1. SameEntry(s)
        BY <1>3, <3>1, <3>3, DriverEntries
      <4> QED BY <1>1, <2>1, <3>1, <3>3, <4>1, FollowsKept
    <3> QED BY <3>2, <3>3
  <2> QED BY <2>2, <2>3, <2>4
<1>4. CASE CleanupQueue
  <2>1. PICK old \in SUBSET Queued :
          /\ queue' = [p \in Projects |-> Retained(queue[p], Requests \ old)]
          /\ tasks' = [id \in TaskIds |->
                         IF tasks[id] # Absent /\ \E r \in old : TaskOf[r] = id
                         THEN "failed" ELSE tasks[id]]
    BY <1>4 DEF CleanupQueue
  <2>2. UNCHANGED <<pc, drv, cur, channels>>
    BY <1>4 DEF CleanupQueue, driverVars
  <2>3. Queued' = Queued \ old
    BY <2>1, QueuedShrinks
  <2>4. Hands(s)' = Hands(s)
    BY <2>2, HandsKept
  <2>5. CASE s \in old
    <3>1. s \in Queued
      BY <2>1, <2>5
    <3>2. pc[s] \notin {"registered", "launching"} /\ Hands(s) = {}
      BY <3>1, PlacedIsNotFresh DEF Fresh, TaskHasOnePlace, Hands
    <3> QED BY <2>2, <2>3, <2>4, <2>5, <3>2 DEF Follows
  <2>6. CASE s \notin old
    <3>1. old \subseteq Requests /\ TaskOf[s] \in TaskIds
      BY QueueType, TaskOfAssumption DEF Queued
    <3>2. ~ \E r \in old : TaskOf[r] = TaskOf[s]
      BY <2>6, <3>1 DEF UniqueTaskIds
    <3>3. tasks'[TaskOf[s]] = tasks[TaskOf[s]]
      BY <2>1, <3>1, <3>2
    <3>4. SameEntry(s) /\ (s \in Queued' => s \in Queued)
      BY <2>2, <2>3, <3>3 DEF SameEntry
    <3> QED BY <1>1, <2>2, <2>4, <3>4, FollowsKept
  <2> QED BY <2>5, <2>6
<1>5. CASE CleanupStale
  <2>1. PICK stale \in SUBSET TaskIds, dropped \in SUBSET channels :
          /\ tasks' = cleanup_stale_tasks(tasks, stale)
          /\ channels' = channels \ dropped
    BY <1>5 DEF CleanupStale
  <2>2. UNCHANGED <<pc, queue, drv, cur>>
    BY <1>5 DEF CleanupStale, driverVars
  <2>3. Queued' = Queued /\ Hands(s)' = Hands(s)
    BY <2>2, HandsKept DEF Queued, Elements
  <2>4. /\ tasks[TaskOf[s]] = "queued" => tasks'[TaskOf[s]] = "queued"
        /\ tasks[TaskOf[s]] = "running" => tasks'[TaskOf[s]] = "running"
    <3>1. TaskOf[s] \in TaskIds /\ DOMAIN tasks = TaskIds
      BY TaskOfAssumption DEF TypeInv, TypeOK
    <3> QED BY <2>1, <3>1 DEF cleanup_stale_tasks, is_terminal
  <2> QED BY <1>1, <2>1, <2>2, <2>3, <2>4 DEF Follows
<1>6. CASE Serve \/ UNCHANGED vars
  <2>1. UNCHANGED <<pc, queue, drv, cur, tasks, channels>>
    BY <1>6 DEF Serve, vars, driverVars, storeVars
  <2>2. Queued' = Queued /\ Hands(s)' = Hands(s)
    BY <2>1, HandsKept DEF Queued, Elements
  <2> QED BY <1>1, <2>1, <2>2, FollowsKept DEF SameEntry
<1>7. CASE Crash \/ Restart
  <2>1. Unplaced(s)' /\ pc'[s] \notin {"registered", "launching"}
    <3>1. CASE Crash
      BY <3>1 DEF Crash, BootPhases, HandlersNeedServer, InFlight
    <3>2. CASE Restart
      BY <3>2 DEF Restart, driverVars, BootPhases, HandlersNeedServer, InFlight,
         Unplaced, Queued, Elements
    <3> QED BY <1>7, <3>1, <3>2
  <2>2. s \notin Queued' /\ Hands(s)' = {}
    BY <2>1 DEF Unplaced, Hands
  <2> QED BY <2>1, <2>2 DEF Follows
<1>8. CASE RecoverSkip \/ RecoverRunning \/ RecoverQueued
  <2>1. PICK r \in Requests :
          /\ r = Head(todo).req
          /\ Unplaced(r) /\ pc[r] \notin Fresh
          /\ \A t \in Requests \ {r} : /\ t \in Queued' <=> t \in Queued
                                       /\ Hands(t)' = Hands(t)
          /\ RecoverSkip => r \notin Queued' /\ Hands(r)' = {}
          /\ RecoverRunning => r \notin Queued' /\ Hands(r)' = {"deploying"}
          /\ RecoverQueued => r \in Queued' /\ Hands(r)' = {}
    BY <1>8, RecoverHands
  <2>2. pc' = pc
    BY <1>8 DEF RecoverSkip, RecoverRunning, RecoverQueued
  <2>3. /\ TaskOf[r] \in TaskIds /\ TaskOf[s] \in TaskIds
        /\ tasks \in [TaskIds -> DeployStatus \cup {Absent}]
        /\ s # r => TaskOf[s] # TaskOf[r]
    BY TaskOfAssumption DEF TypeInv, TypeOK, UniqueTaskIds
  <2>4. CASE s = r
    <3>1. pc[s] \notin {"registered", "launching"}
      BY <2>1, <2>4 DEF Fresh
    <3>2. RecoverRunning => tasks'[TaskOf[r]] = "running"
      BY <2>1, <2>3 DEF RecoverRunning, create
    <3>3. RecoverQueued => tasks'[TaskOf[r]] = "queued"
      BY <2>1, <2>3 DEF RecoverQueued, create
    <3> QED BY <1>8, <2>1, <2>2, <2>4, <3>1, <3>2, <3>3 DEF Follows
  <2>5. CASE s # r
    <3>1. SameEntry(s)
      BY <1>8, <2>1, <2>3, <2>5
      DEF RecoverSkip, RecoverRunning, RecoverQueued, storeVars, create, SameEntry
    <3> QED BY <1>1, <2>1, <2>2, <2>5, <3>1, FollowsKept
  <2> QED BY <2>4, <2>5
<1> QED BY <1>2, <1>3, <1>4, <1>5, <1>6, <1>7, <1>8 DEF Next, Recovery

\* A queued item is shown as queued, and a task being deployed as running,
\* whatever faults, hang-ups and crashes there are, as long as no two requests
\* share a task id.
THEOREM StoreAgrees ==
  ASSUME UniqueTaskIds
  PROVE  Spec => []StoreAgreesWithEngine
<1> DEFINE Inv == HandsInv /\ StoreFollowsTask
<1>1. Init => Inv
  <2> SUFFICES ASSUME Init PROVE StoreFollowsTask
    BY HandsInit
  <2>1. Queued = {} /\ \A r \in Requests : Hands(r) = {} /\ pc[r] = "idle"
    BY EngineAssumption DEF Init, Queued, Elements, Hands
  <2> QED BY <2>1 DEF StoreFollowsTask
<1>2. Inv /\ [Next]_vars => Inv'
  BY HandsStep, FollowsStep
<1>3. Inv => StoreAgreesWithEngine
  <2> SUFFICES ASSUME Inv PROVE StoreAgreesWithEngine
    OBVIOUS
  <2>1. \A r \in Queued : r \in Requests
    BY QueueType DEF HandsInv, PlaceInv, Queued
  <2>2. ASSUME NEW d \in Requests, drv[d] = "deploying"
        PROVE  cur[d] \in Requests /\ "deploying" \in Hands(cur[d])
    BY <2>2 DEF HandsInv, PlaceInv, TypeInv, HolderHasRequest, Holding, Hands
  <2> QED BY <2>1, <2>2 DEF StoreFollowsTask, StoreAgreesWithEngine
<1> HIDE DEF Inv
<1> QED BY <1>1, <1>2, <1>3, PTL DEF Spec

-------------------------------------------------------------------------------
(* A task settles once                                                     *)

\* The tasks of a history, each of them there once.
OneEntryEach(h) == \A i, j \in DOMAIN h : h[i].task = h[j].task => i = j

TasksOf(h) == { h[i].task : i \in DOMAIN h }

\* A task that is over for this life of the process.
Past(r) ==
  /\ r \notin Queued
  /\ Hands(r) \subseteq {"archived", "released", "removed"}
  /\ pc[r] \notin Fresh
  /\ r \notin RecordedRequests(todo)

\* HistoryIsPast in these terms.
LEMMA HistoryForm ==
  HistoryIsPast <=> /\ OneEntryEach(history)
                    /\ \A r \in Requests : TaskOf[r] \in TasksOf(history) => Past(r)
                    /\ boot = "down" => history = << >>
<1> DEFINE A == \A i \in DOMAIN history, r \in Requests :
                  TaskOf[r] = history[i].task => Past(r)
           B == \A r \in Requests : TaskOf[r] \in TasksOf(history) => Past(r)
<1>1. A <=> B
  <2> HIDE DEF Past
  <2> QED BY DEF TasksOf
<1> QED BY <1>1 DEF HistoryIsPast, OneEntryEach, Past

\* ... and after the step.
LEMMA HistoryFormNext ==
  ASSUME OneEntryEach(history'),
         \A r \in Requests : TaskOf[r] \in TasksOf(history') => Past(r)',
         boot' = "down" => history' = << >>
  PROVE  HistoryIsPast'
<1>1. \A i \in DOMAIN history', r \in Requests :
        TaskOf[r] = history'[i].task => Past(r)'
  <2> HIDE DEF Past
  <2> QED BY DEF TasksOf
<1> QED BY <1>1 DEF HistoryIsPast, OneEntryEach, Past

\* add_to_history of a task that is not in the history.
LEMMA AddedEntry ==
  ASSUME NEW h \in Seq(FinishedTask), NEW t \in FinishedTask, OneEntryEach(h),
         t.task \notin TasksOf(h)
  PROVE  /\ OneEntryEach(add_to_history(h, t))
         /\ TasksOf(add_to_history(h, t)) \subseteq TasksOf(h) \cup {t.task}
<1> DEFINE longer == <<t>> \o h
           a == add_to_history(h, t)
<1>1. /\ Len(h) \in Nat /\ DOMAIN h = 1 .. Len(h)
      /\ longer \in Seq(FinishedTask) /\ Len(longer) = Len(h) + 1
      /\ DOMAIN longer = 1 .. Len(h) + 1 /\ longer[1] = t
      /\ \A i \in 2 .. Len(h) + 1 : longer[i] = h[i - 1]
  OBVIOUS
<1> HIDE DEF longer
<1>2. /\ DOMAIN a \subseteq DOMAIN longer
      /\ \A i \in DOMAIN a : a[i] = longer[i]
  <2>1. CASE Len(longer) > MAX_TASK_HISTORY
    <3>1. a = SubSeq(longer, 1, MAX_TASK_HISTORY)
      BY <2>1 DEF add_to_history, longer
    <3>2. MAX_TASK_HISTORY \in Nat
      BY HistoryAssumption
    <3>3. /\ DOMAIN SubSeq(longer, 1, MAX_TASK_HISTORY) = 1 .. MAX_TASK_HISTORY
          /\ \A i \in 1 .. MAX_TASK_HISTORY :
               SubSeq(longer, 1, MAX_TASK_HISTORY)[i] = longer[i]
      BY <1>1, <2>1, <3>2
    <3>4. 1 .. MAX_TASK_HISTORY \subseteq 1 .. Len(h) + 1
      BY <1>1, <2>1, <3>2
    <3> QED BY <1>1, <3>1, <3>3, <3>4
  <2>2. CASE ~ (Len(longer) > MAX_TASK_HISTORY)
    BY <2>2 DEF add_to_history, longer
  <2> QED BY <2>1, <2>2
<1> HIDE DEF a
<1>3. \A i \in DOMAIN longer :
        i = 1 \/ (i - 1 \in DOMAIN h /\ longer[i] = h[i - 1])
  BY <1>1
<1>4. \A i \in DOMAIN longer : i \in Int
  BY <1>1
<1>5. OneEntryEach(longer)
  <2> SUFFICES ASSUME NEW i \in DOMAIN longer, NEW j \in DOMAIN longer,
                      longer[i].task = longer[j].task
               PROVE  i = j
    BY DEF OneEntryEach
  <2>1. CASE i = 1 \/ j = 1
    BY <1>1, <1>3, <2>1 DEF TasksOf
  <2>2. CASE i # 1 /\ j # 1
    <3>1. i - 1 = j - 1
      BY <1>3, <2>2 DEF OneEntryEach
    <3> QED BY <1>4, <3>1
  <2> QED BY <2>1, <2>2
<1>6. OneEntryEach(a)
  BY <1>2, <1>5 DEF OneEntryEach
<1>7. TasksOf(a) \subseteq TasksOf(h) \cup {t.task}
  BY <1>1, <1>2, <1>3 DEF TasksOf
<1> QED BY <1>6, <1>7 DEF a

\* cleanup_stale leaves no task of the history twice.
LEMMA CleanedEntries ==
  ASSUME NEW h \in Seq(FinishedTask), NEW stale, OneEntryEach(h)
  PROVE  /\ OneEntryEach(cleanup_stale_history(h, stale))
         /\ TasksOf(cleanup_stale_history(h, stale)) \subseteq TasksOf(h)
<1> DEFINE K == { e \in Elements(h) : e.task \notin stale }
           u == Retained(h, K)
<1>1. Distinct(h)
  BY DEF Distinct, OneEntryEach
<1>2. Distinct(u) /\ Elements(u) \subseteq Elements(h)
  BY <1>1, RetainedDistinct, RetainedElements
<1> HIDE DEF K, u
<1>3. \A i \in DOMAIN u : \E j \in DOMAIN h : u[i] = h[j]
  BY <1>2 DEF Elements
<1>4. OneEntryEach(u)
  BY <1>2, <1>3 DEF OneEntryEach, Distinct
<1>5. TasksOf(u) \subseteq TasksOf(h)
  BY <1>3 DEF TasksOf
<1> QED BY <1>4, <1>5 DEF cleanup_stale_history, u, K

\* A driver's step leaves what is over as it is.
LEMMA DriverPast ==
  ASSUME HandsInv, NEW d \in Requests, Driver(d), NEW s \in Requests, Past(s)
  PROVE  Past(s)'
<1>1. UNCHANGED <<pc, todo>>
  BY DEF Driver, DriverGoesOn, FinishTask, FinishHistory, FinishRelease, ExecuteUnpersist,
     ExecuteUnregister, QueueTake, QueueEmpty, QueuePromote, QueueRegister,
     serverVars
<1>2. s \notin Queued' /\ Hands(s)' \subseteq {"archived", "released", "removed"}
  <2>1. CASE QueueTake(d)
    <3>1. PICK h \in Requests :
            /\ h \in Queued /\ Queued' = Queued \ {h}
            /\ \A t \in Requests \ {h} : Hands(t)' = Hands(t)
      BY <2>1, TakeHands
    <3> QED BY <3>1 DEF Past
  <2>2. CASE QueueEmpty(d)
    BY <2>2, EmptyHands DEF Past
  <2>3. CASE ~ QueueTake(d) /\ ~ QueueEmpty(d)
    <3>1. PICK r \in Requests :
            /\ Queued' = Queued /\ Hands(r) = {drv[d]}
            /\ Hands(r)' = IF ExecuteUnregister(d) THEN {} ELSE {drv'[d]}
            /\ \A t \in Requests \ {r} : Hands(t)' = Hands(t)
      BY <2>3, HolderHands DEF Driver, DriverGoesOn
    <3>2. CASE s = r
      <4>1. drv[d] \in {"archived", "released", "removed"}
        BY <3>1, <3>2 DEF Past
      <4>2. CASE FinishRelease(d) \/ ExecuteUnpersist(d)
        <5>1. drv'[d] \in {"released", "removed"} /\ ~ ExecuteUnregister(d)
          BY <4>2 DEF FinishRelease, ExecuteUnpersist, ExecuteUnregister, DriverAt,
             HandsInv, PlaceInv, TypeInv, TypeOK
        <5> QED BY <3>1, <3>2, <5>1 DEF Past
      <4>3. CASE ExecuteUnregister(d)
        BY <3>1, <3>2, <4>3 DEF Past
      <4> QED BY <2>3, <4>1, <4>2, <4>3 DEF Driver, DriverGoesOn, FinishTask, FinishHistory,
                 QueuePromote, QueueRegister, DriverAt
    <3>3. CASE s # r
      BY <3>1, <3>3 DEF Past
    <3> QED BY <3>2, <3>3
  <2> QED BY <2>1, <2>2, <2>3
<1> QED BY <1>1, <1>2 DEF Past, RecordedRequests, Fresh

\* Every step keeps the tasks of the history past.
LEMMA HistoryStep ==
  ASSUME UniqueTaskIds, HandsInv, HistoryIsPast, [Next]_vars
  PROVE  HistoryIsPast'
<1> USE DEF HandsInv, PlaceInv
<1>1. /\ OneEntryEach(history)
      /\ \A r \in Requests : TaskOf[r] \in TasksOf(history) => Past(r)
      /\ boot = "down" => history = << >>
  BY HistoryForm
<1>2. ASSUME history' = history, boot' = "down" => boot = "down",
             \A s \in Requests : Past(s) => Past(s)'
      PROVE  HistoryIsPast'
  BY <1>1, <1>2, HistoryFormNext
<1>3. ASSUME NEW r \in Requests,
             \/ TriggerCheckRunning(r)
             \/ TriggerUnknownProject(r)
             \/ Handler(r)
             \/ Hangup(r)
      PROVE  HistoryIsPast'
  <2>1. /\ todo' = << >> /\ history' = history /\ boot' = boot
        /\ \A s \in Requests \ {r} : /\ pc'[s] = pc[s]
                                     /\ s \in Queued' <=> s \in Queued
                                     /\ Hands(s)' = Hands(s)
        /\ ~ TriggerEnqueue(r) /\ ~ TriggerSpawn(r) =>
             (r \in Queued' <=> r \in Queued) /\ Hands(r)' = Hands(r)
    BY <1>3, HandlerHands
  <2>2. /\ pc'[r] \in Fresh => pc[r] \in Fresh
        /\ TriggerEnqueue(r) \/ TriggerSpawn(r) => pc[r] \in Fresh
    BY <1>3 DEF TriggerCheckRunning, TriggerUnknownProject, Handler,
       TriggerCheckQueue, TriggerEnqueue, TriggerPersistQueued,
       TriggerRespondQueued, TriggerRegister, TriggerPersistRunning, TriggerSpawn,
       Hangup, TriggerDropped, TriggerDroppedCreated, TriggerDroppedSaving, At,
       Fresh, TypeInv, TypeOK
  <2>3. RecordedRequests(todo)' = {}
    BY <2>1 DEF RecordedRequests
  <2>4. ASSUME NEW s \in Requests, Past(s) PROVE Past(s)'
    <3>1. s \notin Queued' /\ Hands(s)' \subseteq {"archived", "released", "removed"}
      BY <2>1, <2>2, <2>4 DEF Past
    <3>2. pc'[s] \notin Fresh
      BY <2>1, <2>2, <2>4 DEF Past
    <3> QED BY <2>3, <3>1, <3>2 DEF Past, Fresh
  <2> QED BY <1>2, <2>1, <2>4
<1>4. ASSUME NEW d \in Requests, FinishHistory(d) PROVE HistoryIsPast'
  <2>0. Driver(d)
    BY <1>4 DEF Driver, DriverGoesOn
  <2>1. PICK r \in Requests :
          /\ cur[d] = r /\ r \notin Queued /\ Queued' = Queued
          /\ Hands(r) = {drv[d]} /\ Hands(r)' = {drv'[d]}
    <3>1. ~ ExecuteUnregister(d)
      BY <1>4 DEF FinishHistory, ExecuteUnregister, DriverAt
    <3> QED BY <1>4, <3>1, HolderHands
  <2>2. drv[d] = "finishing" /\ drv'[d] = "archived" /\ UNCHANGED <<boot, pc, todo>>
    BY <1>4 DEF FinishHistory, DriverAt, serverVars, TypeInv, TypeOK
  <2>3. TaskOf[r] \notin TasksOf(history)
    <3>1. ~ Past(r)
      BY <2>1, <2>2 DEF Past
    <3> QED BY <1>1, <3>1
  <2>4. \A s \in Requests : Past(s) => Past(s)'
    BY <2>0, DriverPast
  <2>5. Past(r)'
    <3>1. pc[r] \notin Fresh /\ ~ Unplaced(r)
      BY <2>1, PlacedIsNotFresh, UnplacedHands
    <3>2. r \notin RecordedRequests(todo)
      BY <3>1, TodoIsNowhere
    <3> QED BY <2>1, <2>2, <3>1, <3>2 DEF Past, RecordedRequests, Fresh
  <2>6. boot' = "down" => history' = << >>
    <3>1. boot # "down"
      BY <2>2 DEF DeadRunsNothing
    <3> QED BY <2>2, <3>1
  <2>7. CASE history' = history
    BY <1>2, <2>2, <2>4, <2>7
  <2>8. CASE history' # history
    <3>1. PICK st \in {"success", "failed"} :
            history' = add_to_history(history, [task |-> TaskOf[r], status |-> st])
      BY <1>4, <2>1, <2>8 DEF FinishHistory, TypeInv, TypeOK
    <3> DEFINE t == [task |-> TaskOf[r], status |-> st]
    <3>2. t \in FinishedTask /\ t.task = TaskOf[r]
      BY TaskOfAssumption DEF FinishedTask
    <3>3. history \in Seq(FinishedTask) /\ history' = add_to_history(history, t)
      BY <3>1 DEF TypeInv, TypeOK, FinishedTask
    <3> HIDE DEF t
    <3>4. /\ OneEntryEach(history')
          /\ TasksOf(history') \subseteq TasksOf(history) \cup {TaskOf[r]}
      BY <1>1, <2>3, <3>2, <3>3, AddedEntry
    <3>5. \A s \in Requests : TaskOf[s] \in TasksOf(history') => Past(s)'
      BY <1>1, <2>4, <2>5, <3>4 DEF UniqueTaskIds
    <3> QED BY <2>6, <3>4, <3>5, HistoryFormNext
  <2> QED BY <2>7, <2>8
<1>5. ASSUME NEW d \in Requests, Driver(d), ~ FinishHistory(d) PROVE HistoryIsPast'
  <2>1. UNCHANGED <<boot, history>>
    BY <1>5 DEF Driver, DriverGoesOn, FinishTask, FinishRelease, ExecuteUnpersist,
       ExecuteUnregister, QueueTake, QueueEmpty, QueuePromote, QueueRegister,
       serverVars, storeVars
  <2> QED BY <1>2, <1>5, <2>1, DriverPast
<1>6. ASSUME NEW K, UNCHANGED <<pc, todo, drv, cur>>,
             \/ UNCHANGED queue
             \/ queue' = [p \in Projects |-> Retained(queue[p], Requests \ K)]
      PROVE  \A s \in Requests : Past(s) => Past(s)'
  <2>1. Queued' \subseteq Queued
    <3>1. CASE UNCHANGED queue
      BY <3>1 DEF Queued, Elements
    <3>2. CASE queue' = [p \in Projects |-> Retained(queue[p], Requests \ K)]
      BY <3>2, QueuedShrinks
    <3> QED BY <1>6, <3>1, <3>2
  <2>2. \A s \in Requests : Hands(s)' = Hands(s)
    BY <1>6, HandsKept
  <2> QED BY <1>6, <2>1, <2>2 DEF Past, RecordedRequests, Fresh
<1>7. CASE CleanupQueue
  <2>1. PICK old :
          queue' = [p \in Projects |-> Retained(queue[p], Requests \ old)]
    BY <1>7 DEF CleanupQueue
  <2>2. UNCHANGED <<boot, pc, todo, drv, cur, history>>
    BY <1>7 DEF CleanupQueue, serverVars, driverVars
  <2> QED BY <1>2, <1>6, <2>1, <2>2
<1>8. CASE CleanupStale
  <2>1. PICK stale : history' = cleanup_stale_history(history, stale)
    BY <1>8 DEF CleanupStale
  <2>2. UNCHANGED <<boot, pc, todo, drv, cur, queue>> /\ boot = "up"
    BY <1>8 DEF CleanupStale, serverVars, driverVars
  <2>3. history \in Seq(FinishedTask)
    BY DEF TypeInv, TypeOK, FinishedTask
  <2>4. OneEntryEach(history') /\ TasksOf(history') \subseteq TasksOf(history)
    BY <1>1, <2>1, <2>3, CleanedEntries
  <2>5. \A s \in Requests : Past(s) => Past(s)'
    BY <1>6, <2>2
  <2>6. \A s \in Requests : TaskOf[s] \in TasksOf(history') => Past(s)'
    BY <1>1, <2>4, <2>5
  <2> QED BY <2>2, <2>4, <2>6, HistoryFormNext
<1>9. CASE Serve \/ UNCHANGED vars
  <2>1. /\ UNCHANGED <<pc, todo, drv, cur, queue, history>>
        /\ boot' = "down" => boot = "down"
    BY <1>9 DEF Serve, vars, driverVars, storeVars
  <2> QED BY <1>2, <1>6, <2>1
<1>10. CASE Crash \/ Restart
  <2>1. history' = << >>
    BY <1>1, <1>10 DEF Crash, Restart, storeVars
  <2>2. OneEntryEach(history') /\ TasksOf(history') = {}
    BY <2>1 DEF OneEntryEach, TasksOf
  <2> QED BY <2>1, <2>2, HistoryFormNext
<1>11. CASE RecoverSkip \/ RecoverRunning \/ RecoverQueued
  <2>1. PICK r \in Requests :
          /\ r \in RecordedRequests(todo)
          /\ RecordedRequests(todo') = RecordedRequests(todo) \ {r}
          /\ \A t \in Requests \ {r} : /\ t \in Queued' <=> t \in Queued
                                       /\ Hands(t)' = Hands(t)
    BY <1>11, RecoverHands
  <2>2. UNCHANGED <<boot, pc, history>>
    BY <1>11 DEF RecoverSkip, RecoverRunning, RecoverQueued, storeVars
  <2>3. RecordedRequests(todo)' = RecordedRequests(todo) \ {r}
    BY <2>1 DEF RecordedRequests
  <2>4. \A s \in Requests : Past(s) => Past(s)'
    BY <2>1, <2>2, <2>3 DEF Past, Fresh
  <2> QED BY <1>2, <2>2, <2>4
<1> QED BY <1>3, <1>4, <1>5, <1>7, <1>8, <1>9, <1>10, <1>11 DEF Next, Recovery

\* If no two requests share a task id, a task enters the history once in a life
\* of the process, and one that is there is neither queued nor deployed again.
THEOREM SettlesOnce ==
  ASSUME UniqueTaskIds
  PROVE  Spec => []TaskSettlesOnce
<1> DEFINE Inv == HandsInv /\ HistoryIsPast
<1>1. Init => Inv
  <2> SUFFICES ASSUME Init PROVE HistoryIsPast
    BY HandsInit
  <2> QED BY DEF Init, HistoryIsPast
<1>2. Inv /\ [Next]_vars => Inv'
  BY HandsStep, HistoryStep
<1>3. Inv => TaskSettlesOnce
  <2> SUFFICES ASSUME Inv PROVE TaskSettlesOnce
    OBVIOUS
  <2>1. /\ OneEntryEach(history)
        /\ \A r \in Requests : TaskOf[r] \in TasksOf(history) => Past(r)
    BY HistoryForm
  <2>2. ASSUME NEW i \in DOMAIN history, NEW r \in Requests, TaskOf[r] = history[i].task
        PROVE  /\ r \notin Queued
               /\ \A d \in Requests :
                    cur[d] = r => drv[d] \in {"archived", "released", "removed"}
    BY <2>1, <2>2 DEF TasksOf, Past, Hands
  <2> QED BY <2>1, <2>2 DEF TaskSettlesOnce, OneEntryEach, Elements
<1> HIDE DEF Inv
<1> QED BY <1>1, <1>2, <1>3, PTL DEF Spec

-------------------------------------------------------------------------------
(* Nothing is left behind                                                  *)

\* A handler or a driver that will close the task's log channel has it.
Closes(r) ==
  \/ pc[r] \in {"registered", "launching"}
  \/ Hands(r) \cap {"deploying", "finishing", "archived"} # {}

\* A handler, a queue or a driver that will finish the task has it.
Ends(r) ==
  \/ r \in expired \cup Queued
  \/ pc[r] \in {"registered", "launching"}
  \/ Hands(r) \cap {"dequeued", "promoted", "deploying"} # {}

\* A step that closes the channels of the tasks it lets go, and opens one only
\* for a task that is held.
LEMMA ChannelsKept ==
  ASSUME ChannelHasOwner,
         \A s \in Requests :
           Closes(s) /\ TaskOf[s] \in channels' => Closes(s)',
         \A id \in channels' : \/ id \in channels
                               \/ \E s \in Requests : TaskOf[s] = id /\ Closes(s)'
  PROVE  ChannelHasOwner'
<1> SUFFICES ASSUME NEW id \in channels'
             PROVE  \E s \in Requests : TaskOf[s] = id /\ Closes(s)'
  BY DEF ChannelHasOwner, Closes
<1>1. CASE id \in channels
  <2>1. PICK s \in Requests : TaskOf[s] = id /\ Closes(s)
    BY <1>1 DEF ChannelHasOwner, Closes
  <2> QED BY <2>1
<1> QED BY <1>1

\* A handler's step leaves its task in hands that will close its channel.
LEMMA HandlerCloses ==
  ASSUME HandsInv, NEW r \in Requests,
         TriggerCheckRunning(r) \/ TriggerUnknownProject(r) \/ Handler(r)
  PROVE  /\ Closes(r) => Closes(r)'
         /\ \A id \in channels' : id \in channels \/ (id = TaskOf[r] /\ Closes(r)')
<1>1. /\ TriggerSpawn(r) => Hands(r)' = {"deploying"}
      /\ ~ TriggerEnqueue(r) /\ ~ TriggerSpawn(r) => Hands(r)' = Hands(r)
      /\ TriggerEnqueue(r) => Unplaced(r)
  BY HandlerHands
<1>2. CASE TriggerEnqueue(r)
  <2>1. Hands(r) = {} /\ pc[r] = "admitted" /\ channels' = channels
    BY <1>1, <1>2, UnplacedHands DEF TriggerEnqueue, At
  <2> QED BY <2>1 DEF Closes
<1>3. CASE TriggerRegister(r) \/ TriggerPersistRunning(r)
  <2>1. /\ pc'[r] \in {"registered", "launching"}
        /\ channels' \subseteq channels \cup {TaskOf[r]}
    BY <1>3 DEF TriggerRegister, TriggerPersistRunning, At, storeVars, HandsInv,
       PlaceInv, TypeInv, TypeOK
  <2>2. Closes(r)'
    BY <2>1 DEF Closes
  <2> QED BY <2>1, <2>2
<1>4. CASE TriggerSpawn(r)
  <2>1. channels' = channels /\ Hands(r)' = {"deploying"}
    BY <1>1, <1>4 DEF TriggerSpawn, storeVars
  <2> QED BY <2>1 DEF Closes
<1>5. CASE \/ TriggerCheckRunning(r) \/ TriggerUnknownProject(r)
           \/ TriggerCheckQueue(r) \/ TriggerPersistQueued(r)
           \/ TriggerRespondQueued(r)
  <2>1. /\ channels' = channels /\ pc[r] \notin {"registered", "launching"}
        /\ ~ TriggerEnqueue(r) /\ ~ TriggerSpawn(r)
    BY <1>5 DEF TriggerCheckRunning, TriggerUnknownProject, TriggerCheckQueue,
       TriggerPersistQueued, TriggerRespondQueued, TriggerEnqueue, TriggerSpawn,
       At, storeVars
  <2> QED BY <1>1, <2>1 DEF Closes
<1> QED BY <1>2, <1>3, <1>4, <1>5 DEF Handler

\* A driver's step closes the channel of the task it is done with.
LEMMA DriverCloses ==
  ASSUME HandsInv, NEW d \in Requests, Driver(d)
  PROVE  /\ \A s \in Requests : Closes(s) /\ TaskOf[s] \in channels' => Closes(s)'
         /\ \A id \in channels' : \/ id \in channels
                                  \/ \E s \in Requests : TaskOf[s] = id /\ Closes(s)'
<1> USE DEF HandsInv, PlaceInv
<1>1. pc' = pc
  BY DEF Driver, DriverGoesOn, FinishTask, FinishHistory, FinishRelease, ExecuteUnpersist,
     ExecuteUnregister, QueueTake, QueueEmpty, QueuePromote, QueueRegister
<1>2. CASE QueueTake(d)
  <2>1. PICK h \in Requests :
          /\ h \in Queued /\ Hands(h) = {}
          /\ \A t \in Requests \ {h} : Hands(t)' = Hands(t)
    BY <1>2, TakeHands
  <2>2. pc[h] \notin {"registered", "launching"}
    BY <2>1, PlacedIsNotFresh DEF Fresh
  <2>3. channels' = channels
    BY <1>2 DEF QueueTake, storeVars
  <2> QED BY <1>1, <2>1, <2>2, <2>3 DEF Closes
<1>3. CASE QueueEmpty(d)
  <2>1. channels' = channels
    BY <1>3 DEF QueueEmpty, storeVars
  <2> QED BY <1>1, <1>3, <2>1, EmptyHands DEF Closes
<1>4. CASE ~ QueueTake(d) /\ ~ QueueEmpty(d)
  <2>1. PICK r \in Requests :
          /\ cur[d] = r /\ Hands(r) = {drv[d]}
          /\ Hands(r)' = IF ExecuteUnregister(d) THEN {} ELSE {drv'[d]}
          /\ \A t \in Requests \ {r} : Hands(t)' = Hands(t)
    BY <1>4, HolderHands DEF Driver, DriverGoesOn
  <2>2. pc[r] \notin {"registered", "launching"}
    BY <2>1, PlacedIsNotFresh DEF Fresh
  <2>3. \A s \in Requests \ {r} : Closes(s) => Closes(s)'
    BY <1>1, <2>1 DEF Closes
  <2>4. CASE FinishTask(d) \/ FinishHistory(d)
    <3>1. /\ drv'[d] \in {"finishing", "archived"} /\ ~ ExecuteUnregister(d)
          /\ channels' = channels
      BY <2>4 DEF FinishTask, FinishHistory, ExecuteUnregister, DriverAt, TypeInv,
         TypeOK
    <3>2. Closes(r)'
      BY <2>1, <3>1 DEF Closes
    <3> QED BY <2>3, <3>1, <3>2
  <2>5. CASE FinishRelease(d)
    <3>1. channels' = channels \ {TaskOf[r]}
      BY <2>1, <2>5 DEF FinishRelease
    <3> QED BY <2>3, <3>1
  <2>6. CASE QueueRegister(d)
    <3>1. /\ drv'[d] = "deploying" /\ ~ ExecuteUnregister(d)
          /\ channels' = channels \cup {TaskOf[r]}
      BY <2>1, <2>6 DEF QueueRegister, ExecuteUnregister, DriverAt, TypeInv, TypeOK
    <3>2. Closes(r)'
      BY <2>1, <3>1 DEF Closes
    <3> QED BY <2>3, <3>1, <3>2
  <2>7. CASE ExecuteUnpersist(d) \/ ExecuteUnregister(d) \/ QueuePromote(d)
    <3>1. /\ drv[d] \notin {"deploying", "finishing", "archived"}
          /\ channels' = channels
      BY <2>7 DEF ExecuteUnpersist, ExecuteUnregister, QueuePromote, DriverAt,
         storeVars
    <3>2. ~ Closes(r)
      BY <2>1, <2>2, <3>1 DEF Closes
    <3> QED BY <2>3, <3>1, <3>2
  <2> QED BY <1>4, <2>4, <2>5, <2>6, <2>7 DEF Driver, DriverGoesOn
<1> QED BY <1>2, <1>3, <1>4

\* Every step keeps every log channel in hands that will close it.
LEMMA ChannelStep ==
  ASSUME ~ CallersMayLeave, HandsInv, ChannelHasOwner, [Next]_vars
  PROVE  ChannelHasOwner'
<1> USE DEF HandsInv, PlaceInv
<1>1. ASSUME NEW r \in Requests,
             TriggerCheckRunning(r) \/ TriggerUnknownProject(r) \/ Handler(r)
      PROVE  ChannelHasOwner'
  <2>1. \A s \in Requests \ {r} : pc'[s] = pc[s] /\ Hands(s)' = Hands(s)
    BY <1>1, HandlerHands
  <2>2. \A s \in Requests \ {r} : Closes(s) => Closes(s)'
    BY <2>1 DEF Closes
  <2>3. /\ Closes(r) => Closes(r)'
        /\ \A id \in channels' : id \in channels \/ (id = TaskOf[r] /\ Closes(r)')
    BY <1>1, HandlerCloses
  <2> QED BY <2>2, <2>3, ChannelsKept
<1>2. ASSUME NEW d \in Requests, Driver(d) PROVE ChannelHasOwner'
  BY <1>2, DriverCloses, ChannelsKept
<1>3. CASE CleanupQueue \/ CleanupStale \/ Restart \/ Serve \/ UNCHANGED vars
  <2>1. UNCHANGED <<pc, drv, cur>> /\ channels' \subseteq channels
    BY <1>3 DEF CleanupQueue, CleanupStale, Restart, Serve, vars, driverVars,
       storeVars
  <2>2. \A s \in Requests : Closes(s) => Closes(s)'
    BY <2>1, HandsKept DEF Closes
  <2> QED BY <2>1, <2>2, ChannelsKept
<1>4. CASE Crash
  BY <1>4 DEF Crash, ChannelHasOwner
<1>5. CASE RecoverSkip \/ RecoverRunning \/ RecoverQueued
  <2>1. PICK r \in Requests :
          /\ r = Head(todo).req /\ Unplaced(r) /\ pc[r] \notin Fresh
          /\ \A t \in Requests \ {r} : Hands(t)' = Hands(t)
          /\ RecoverRunning => Hands(r)' = {"deploying"}
    BY <1>5, RecoverHands
  <2>2. pc' = pc
    BY <1>5 DEF RecoverSkip, RecoverRunning, RecoverQueued
  <2>3. ~ Closes(r)
    BY <2>1, UnplacedHands DEF Closes, Fresh
  <2>4. \A s \in Requests : Closes(s) => Closes(s)'
    BY <2>1, <2>2, <2>3 DEF Closes
  <2>5. \/ channels' = channels
        \/ RecoverRunning /\ channels' = channels \cup {TaskOf[r]}
    BY <1>5, <2>1 DEF RecoverSkip, RecoverRunning, RecoverQueued, storeVars
  <2>6. RecoverRunning => Closes(r)'
    BY <2>1 DEF Closes
  <2> QED BY <2>4, <2>5, <2>6, ChannelsKept
<1>6. \A r \in Requests : ~ Hangup(r)
  BY DEF Hangup, TriggerDropped, TriggerDroppedCreated, TriggerDroppedSaving
<1> QED BY <1>1, <1>2, <1>3, <1>4, <1>5, <1>6 DEF Next, Recovery

\* Every step keeps every active task where it will be finished.
LEMMA ActiveStep ==
  ASSUME ~ CallersMayLeave, UniqueTaskIds, HandsInv, ActiveTaskHasOwner,
         [Next]_vars
  PROVE  ActiveTaskHasOwner'
<1> USE DEF HandsInv, PlaceInv
<1>1. \A s \in Requests : tasks[TaskOf[s]] # Absent => Ends(s)
  BY DEF ActiveTaskHasOwner, Ends
<1> SUFFICES ASSUME NEW s \in Requests, tasks'[TaskOf[s]] # Absent
             PROVE  Ends(s)'
  BY DEF ActiveTaskHasOwner, Ends
<1>2. TaskOf[s] \in TaskIds /\ DOMAIN tasks = TaskIds
  BY TaskOfAssumption DEF TypeInv, TypeOK
<1>3. ASSUME expired \subseteq expired', s \in Queued => s \in Queued' \cup expired',
             pc'[s] = pc[s], Hands(s)' = Hands(s), Ends(s)
      PROVE  Ends(s)'
  BY <1>3 DEF Ends
<1>4. ASSUME NEW r \in Requests,
             TriggerCheckRunning(r) \/ TriggerUnknownProject(r) \/ Handler(r)
      PROVE  Ends(s)'
  <2>1. /\ expired' = expired
        /\ \A t \in Requests \ {r} : /\ pc'[t] = pc[t]
                                     /\ t \in Queued' <=> t \in Queued
                                     /\ Hands(t)' = Hands(t)
        /\ TriggerEnqueue(r) => r \in Queued'
        /\ TriggerSpawn(r) => Hands(r)' = {"deploying"}
        /\ ~ TriggerEnqueue(r) /\ ~ TriggerSpawn(r) =>
             (r \in Queued' <=> r \in Queued) /\ Hands(r)' = Hands(r)
    BY <1>4, HandlerHands
  <2>2. CASE s # r
    <3>1. SameEntry(s)
      BY <1>4, <2>2, HandlerEntries
    <3>2. Ends(s)
      BY <1>1, <3>1 DEF SameEntry
    <3> QED BY <1>3, <2>1, <2>2, <3>2
  <2>3. CASE s = r /\ (TriggerEnqueue(r) \/ TriggerSpawn(r))
    BY <2>1, <2>3 DEF Ends
  <2>4. CASE s = r /\ (TriggerRegister(r) \/ TriggerPersistRunning(r))
    <3>1. pc'[s] \in {"registered", "launching"}
      BY <2>4 DEF TriggerRegister, TriggerPersistRunning, At, TypeInv, TypeOK
    <3> QED BY <3>1 DEF Ends
  <2>5. CASE s = r /\ \/ TriggerCheckRunning(r) \/ TriggerUnknownProject(r)
                      \/ TriggerCheckQueue(r) \/ TriggerPersistQueued(r)
                      \/ TriggerRespondQueued(r)
    <3>1. /\ tasks' = tasks /\ pc[r] \notin {"registered", "launching"}
          /\ ~ TriggerEnqueue(r) /\ ~ TriggerSpawn(r)
      BY <2>5 DEF TriggerCheckRunning, TriggerUnknownProject, TriggerCheckQueue,
         TriggerPersistQueued, TriggerRespondQueued, TriggerEnqueue, TriggerSpawn,
         At, storeVars
    <3>2. Ends(s)
      BY <1>1, <3>1
    <3> QED BY <2>1, <2>5, <3>1, <3>2 DEF Ends
  <2> QED BY <1>4, <2>2, <2>3, <2>4, <2>5 DEF Handler
<1>5. ASSUME NEW d \in Requests, Driver(d) PROVE Ends(s)'
  <2>1. pc' = pc /\ expired' = expired
    BY <1>5 DEF Driver, DriverGoesOn, FinishTask, FinishHistory, FinishRelease, ExecuteUnpersist,
       ExecuteUnregister, QueueTake, QueueEmpty, QueuePromote, QueueRegister,
       ghostVars
  <2>2. CASE QueueTake(d)
    <3>1. PICK h \in Requests :
            /\ Queued' = Queued \ {h} /\ Hands(h)' = {"dequeued"}
            /\ \A t \in Requests \ {h} : Hands(t)' = Hands(t)
      BY <2>2, TakeHands
    <3>2. CASE s = h
      BY <3>1, <3>2 DEF Ends
    <3>3. CASE s # h
      <4>1. Ends(s)
        BY <1>1, <2>2 DEF QueueTake, storeVars
      <4> QED BY <1>3, <2>1, <3>1, <3>3, <4>1
    <3> QED BY <3>2, <3>3
  <2>3. CASE QueueEmpty(d)
    <3>1. Ends(s)
      BY <1>1, <2>3 DEF QueueEmpty, storeVars
    <3> QED BY <1>3, <2>1, <2>3, <3>1, EmptyHands
  <2>4. CASE ~ QueueTake(d) /\ ~ QueueEmpty(d)
    <3>1. PICK r \in Requests :
            /\ cur[d] = r /\ Queued' = Queued /\ r \notin Queued
            /\ Hands(r) = {drv[d]}
            /\ Hands(r)' = IF ExecuteUnregister(d) THEN {} ELSE {drv'[d]}
            /\ \A t \in Requests \ {r} : Hands(t)' = Hands(t)
      BY <1>5, <2>4, HolderHands DEF Driver, DriverGoesOn
    <3>2. CASE s # r
      <4>1. SameEntry(s)
        BY <1>5, <3>1, <3>2, DriverEntries
      <4>2. Ends(s)
        BY <1>1, <4>1 DEF SameEntry
      <4> QED BY <1>3, <2>1, <3>1, <3>2, <4>2
    <3>3. CASE s = r /\ FinishTask(d)
      <4>1. tasks'[TaskOf[s]] = Absent
        BY <1>2, <3>1, <3>3 DEF FinishTask, remove
      <4> QED BY <4>1
    <3>4. CASE s = r /\ (QueuePromote(d) \/ QueueRegister(d))
      <4>1. drv'[d] \in {"promoted", "deploying"} /\ ~ ExecuteUnregister(d)
        BY <3>4 DEF QueuePromote, QueueRegister, ExecuteUnregister, DriverAt,
           TypeInv, TypeOK
      <4> QED BY <3>1, <3>4, <4>1 DEF Ends
    <3>5. CASE s = r /\ \/ FinishHistory(d) \/ FinishRelease(d)
                        \/ ExecuteUnpersist(d) \/ ExecuteUnregister(d)
      <4>1. /\ tasks' = tasks
            /\ drv[d] \notin {"dequeued", "promoted", "deploying"}
        BY <3>5 DEF FinishHistory, FinishRelease, ExecuteUnpersist,
           ExecuteUnregister, DriverAt, storeVars
      <4>2. pc[s] \notin {"registered", "launching"}
        BY <3>1, <3>5, PlacedIsNotFresh DEF Fresh
      <4>3. s \in expired
        BY <1>1, <3>1, <3>5, <4>1, <4>2 DEF Ends
      <4> QED BY <2>1, <4>3 DEF Ends
    <3> QED BY <1>5, <2>4, <3>2, <3>3, <3>4, <3>5 DEF Driver, DriverGoesOn
  <2> QED BY <2>2, <2>3, <2>4
<1>6. CASE CleanupQueue
  <2>1. PICK old \in SUBSET Queued :
          /\ queue' = [p \in Projects |-> Retained(queue[p], Requests \ old)]
          /\ tasks' = [id \in TaskIds |->
                         IF tasks[id] # Absent /\ \E r \in old : TaskOf[r] = id
                         THEN "failed" ELSE tasks[id]]
          /\ expired' = expired \cup old
    BY <1>6 DEF CleanupQueue
  <2>2. UNCHANGED <<pc, drv, cur>>
    BY <1>6 DEF CleanupQueue, driverVars
  <2>3. Queued' = Queued \ old
    BY <2>1, QueuedShrinks
  <2>4. tasks[TaskOf[s]] # Absent
    BY <1>2, <2>1
  <2> QED BY <1>1, <1>3, <2>1, <2>2, <2>3, <2>4, HandsKept
<1>7. CASE CleanupStale
  <2>1. PICK stale : tasks' = cleanup_stale_tasks(tasks, stale)
    BY <1>7 DEF CleanupStale
  <2>2. UNCHANGED <<pc, queue, drv, cur, expired>>
    BY <1>7 DEF CleanupStale, driverVars, ghostVars
  <2>3. tasks[TaskOf[s]] # Absent
    BY <1>2, <2>1 DEF cleanup_stale_tasks
  <2>4. Queued' = Queued
    BY <2>2 DEF Queued, Elements
  <2> QED BY <1>1, <1>3, <2>2, <2>3, <2>4, HandsKept
<1>8. CASE Restart \/ Serve \/ UNCHANGED vars
  <2>1. UNCHANGED <<pc, queue, drv, cur, expired, tasks>>
    BY <1>8 DEF Restart, Serve, vars, driverVars, storeVars, ghostVars
  <2>2. Queued' = Queued
    BY <2>1 DEF Queued, Elements
  <2> QED BY <1>1, <1>3, <2>1, <2>2, HandsKept
<1>9. CASE Crash
  BY <1>2, <1>9 DEF Crash
<1>10. CASE RecoverSkip \/ RecoverRunning \/ RecoverQueued
  <2>1. PICK r \in Requests :
          /\ r = Head(todo).req /\ Unplaced(r)
          /\ \A t \in Requests \ {r} : /\ t \in Queued' <=> t \in Queued
                                       /\ Hands(t)' = Hands(t)
          /\ RecoverSkip => r \notin Queued' /\ Hands(r)' = {}
          /\ RecoverRunning => Hands(r)' = {"deploying"}
          /\ RecoverQueued => r \in Queued'
    BY <1>10, RecoverHands
  <2>2. pc' = pc /\ expired' = expired
    BY <1>10 DEF RecoverSkip, RecoverRunning, RecoverQueued, ghostVars
  <2>3. CASE s = r /\ ~ RecoverSkip
    BY <1>10, <2>1, <2>3 DEF Ends
  <2>4. CASE s = r /\ RecoverSkip
    <3>1. Ends(s)
      BY <1>1, <2>4 DEF RecoverSkip, storeVars
    <3>2. s \notin Queued /\ Hands(s) = {}
      BY <2>1, <2>4, UnplacedHands
    <3> QED BY <1>3, <2>1, <2>2, <2>4, <3>1, <3>2
  <2>5. CASE s # r
    <3>1. TaskOf[r] \in TaskIds /\ TaskOf[s] # TaskOf[r]
      BY <2>5, TaskOfAssumption DEF UniqueTaskIds
    <3>2. tasks'[TaskOf[s]] = tasks[TaskOf[s]]
      BY <1>2, <1>10, <2>1, <3>1
      DEF RecoverSkip, RecoverRunning, RecoverQueued, storeVars, create
    <3>3. Ends(s)
      BY <1>1, <3>2
    <3> QED BY <1>3, <2>1, <2>2, <2>5, <3>3
  <2> QED BY <2>3, <2>4, <2>5
<1>11. \A r \in Requests : ~ Hangup(r)
  BY DEF Hangup, TriggerDropped, TriggerDroppedCreated, TriggerDroppedSaving
<1> QED BY <1>4, <1>5, <1>6, <1>7, <1>8, <1>9, <1>10, <1>11 DEF Next, Recovery

\* As long as callers wait for their answers and no two requests share a task
\* id, the engine at rest has no registration, no log channel and no active
\* task left but the expired ones.
THEOREM NothingLeftBehind ==
  ASSUME ~ CallersMayLeave, UniqueTaskIds
  PROVE  Spec => []QuietIsClean
<1> DEFINE Inv == /\ HandsInv /\ RegistrationHasOwner
                  /\ ChannelHasOwner /\ ActiveTaskHasOwner
<1>1. Init => Inv
  <2> SUFFICES ASSUME Init
               PROVE  RegistrationHasOwner /\ ChannelHasOwner /\ ActiveTaskHasOwner
    BY HandsInit
  <2> QED BY TaskOfAssumption DEF Init, RegistrationHasOwner, has_running_deploy,
             ChannelHasOwner, ActiveTaskHasOwner
<1>2. Inv /\ [Next]_vars => Inv'
  <2>1. HandsInv => TypeInv
    BY DEF HandsInv, PlaceInv
  <2> QED BY <2>1, HandsStep, OwnerStep, ChannelStep, ActiveStep
<1>3. Inv => QuietIsClean
  <2> SUFFICES ASSUME Inv, Quiet PROVE QuietIsClean
    BY DEF QuietIsClean
  <2>1. \A r \in Requests : pc[r] \notin InFlight /\ drv[r] \notin Live
    BY DEF Quiet
  <2>2. \A p \in Projects : ~ has_running_deploy(p)
    BY <2>1 DEF RegistrationHasOwner, WillUnregister, DriverOf, InFlight, Live,
       DriverStates
  <2>3. \A r \in Requests :
          /\ pc[r] \notin {"registered", "launching"}
          /\ Hands(r) \cap {"deploying", "finishing", "archived"} = {}
          /\ Hands(r) \cap {"dequeued", "promoted", "deploying"} = {}
    BY <2>1 DEF InFlight, Live, DriverStates, Hands
  <2>4. channels = {}
    BY <2>3 DEF ChannelHasOwner
  <2>5. \A r \in Requests : tasks[TaskOf[r]] # Absent => r \in expired
    BY <2>3 DEF ActiveTaskHasOwner, Quiet
  <2> QED BY <2>2, <2>4, <2>5 DEF QuietIsClean
<1> HIDE DEF Inv
<1> QED BY <1>1, <1>2, <1>3, PTL DEF Spec
===============================================================================
