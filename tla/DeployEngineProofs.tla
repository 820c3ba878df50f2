-------------------------- MODULE DeployEngineProofs --------------------------
(***************************************************************************)
(* Theorems of DeployEngine, for every set of requests and projects and every *)
(* value of the other constants: what the sequence operator Retained returns, *)
(* type correctness, that a registered project has an owner, and that an   *)
(* accepted task is durable.                                               *)
(***************************************************************************)
EXTENDS DeployEngineInv, FiniteSetTheorems, TLAPS

-------------------------------------------------------------------------------
(***************************************************************************)
(* What Retained returns, for every sequence and every set: a sequence of the *)
(* elements of s that belong to K, none lost and none duplicated.          *)
(*                                                                         *)
(* The argument: the rank of a kept index maps the kept indices one-to-one *)
(* into 1..n, where n is their number; an injection between finite sets of the *)
(* same size is onto, so every position of the result has its index.       *)
(***************************************************************************)

\* The kept indices of a sequence are finitely many integers.
LEMMA KeptIndicesFinite ==
  ASSUME NEW S, NEW s \in Seq(S), NEW K
  PROVE  /\ KeptIndices(s, K) \subseteq 1 .. Len(s)
         /\ IsFiniteSet(KeptIndices(s, K))
         /\ Cardinality(KeptIndices(s, K)) \in Nat
<1>1. KeptIndices(s, K) \subseteq 1 .. Len(s)
  BY DEF KeptIndices
<1>2. IsFiniteSet(1 .. Len(s))
  <2>1. Len(s) \in Int
    OBVIOUS
  <2> QED BY <2>1, FS_Interval
<1>3. IsFiniteSet(KeptIndices(s, K))
  BY <1>1, <1>2, FS_Subset
<1> QED BY <1>1, <1>3, FS_CardinalityType

\* A rank is a position: at least 1, at most the number of indices.
LEMMA RankInRange ==
  ASSUME NEW I, I \subseteq Int, IsFiniteSet(I), NEW i \in I
  PROVE  Rank(I, i) \in 1 .. Cardinality(I)
<1> DEFINE J == { j \in I : j <= i }
<1>1. J \in SUBSET I /\ i \in J
  OBVIOUS
<1>2. IsFiniteSet(J) /\ Cardinality(J) <= Cardinality(I)
  BY <1>1, FS_Subset
<1>3. Cardinality(J) \in Nat /\ Cardinality(I) \in Nat
  BY <1>2, FS_CardinalityType
<1>4. Cardinality(J) # 0
  BY <1>1, <1>2, FS_EmptySet
<1>5. Rank(I, i) = Cardinality(J)
  BY DEF Rank
<1> QED BY <1>2, <1>3, <1>4, <1>5

\* Of two indices, the smaller has the smaller rank.
LEMMA RankStrict ==
  ASSUME NEW I, I \subseteq Int, IsFiniteSet(I),
         NEW i \in I, NEW j \in I, i < j
  PROVE  Rank(I, i) # Rank(I, j)
<1> DEFINE A == { k \in I : k <= i }
           B == { k \in I : k <= j }
<1>1. A \in SUBSET B /\ B \in SUBSET I
  <2>1. \A k \in I : k <= i => k <= j
    OBVIOUS
  <2> QED BY <2>1
<1>2. j \in B /\ j \notin A
  OBVIOUS
<1>3. A # B
  BY <1>2
<1>4. IsFiniteSet(B)
  BY <1>1, FS_Subset
<1>5. Cardinality(B) # Cardinality(A)
  BY <1>1, <1>3, <1>4, FS_Subset
<1>6. Rank(I, i) = Cardinality(A) /\ Rank(I, j) = Cardinality(B)
  BY DEF Rank
<1> QED BY <1>5, <1>6

\* Every position is the rank of some index.
LEMMA RankOnto ==
  ASSUME NEW I, I \subseteq Int, IsFiniteSet(I),
         NEW k \in 1 .. Cardinality(I)
  PROVE  \E i \in I : Rank(I, i) = k
<1> DEFINE n == Cardinality(I)
           f == [ i \in I |-> Rank(I, i) ]
<1>1. f \in [I -> 1 .. n]
  BY RankInRange
<1>2. \A i, j \in I : f[i] = f[j] => i = j
  <2> SUFFICES ASSUME NEW i \in I, NEW j \in I, i # j
               PROVE  Rank(I, i) # Rank(I, j)
    OBVIOUS
  <2>1. i < j \/ j < i
    OBVIOUS
  <2> QED BY <2>1, RankStrict
<1>3. f \in Injection(I, 1 .. n)
  BY <1>1, <1>2 DEF Injection, IsInjective
<1>4. n \in Nat
  BY FS_CardinalityType
<1>5. IsFiniteSet(1 .. n) /\ Cardinality(1 .. n) = n
  BY <1>4, FS_Interval
<1>6. f \in Surjection(I, 1 .. n)
  BY <1>3, <1>5, FS_Injection
<1>7. \E i \in I : f[i] = k
  BY <1>6 DEF Surjection
<1> QED BY <1>7

\* The result position by position: position k holds a kept element, and the
\* index it came from has rank k.
LEMMA RetainedAt ==
  ASSUME NEW S, NEW s \in Seq(S), NEW K,
         NEW k \in 1 .. Cardinality(KeptIndices(s, K))
  PROVE  \E i \in KeptIndices(s, K) :
           Rank(KeptIndices(s, K), i) = k /\ Retained(s, K)[k] = s[i]
<1> DEFINE I == KeptIndices(s, K)
           c == CHOOSE i \in I : Rank(I, i) = k
<1>1. I \subseteq Int /\ IsFiniteSet(I)
  BY KeptIndicesFinite
<1>2. \E i \in I : Rank(I, i) = k
  <2>1. k \in 1 .. Cardinality(I)
    OBVIOUS
  <2> HIDE DEF I
  <2> QED BY <1>1, <2>1, RankOnto
<1>3. c \in I /\ Rank(I, c) = k
  BY <1>2
<1>4. Retained(s, K)[k] = s[c]
  BY DEF Retained
<1> QED BY <1>3, <1>4

\* Retained returns a sequence over the same set.
THEOREM RetainedType ==
  ASSUME NEW S, NEW s \in Seq(S), NEW K
  PROVE  /\ Retained(s, K) \in Seq(S)
         /\ Len(Retained(s, K)) = Cardinality(KeptIndices(s, K))
         /\ DOMAIN Retained(s, K) = 1 .. Cardinality(KeptIndices(s, K))
<1> DEFINE n == Cardinality(KeptIndices(s, K))
<1>1. n \in Nat
  BY KeptIndicesFinite
<1>2. \A k \in 1 .. n : Retained(s, K)[k] \in S
  <2> TAKE k \in 1 .. n
  <2>1. PICK i \in KeptIndices(s, K) : Retained(s, K)[k] = s[i]
    BY RetainedAt
  <2> QED BY <2>1 DEF KeptIndices
<1>3. Retained(s, K) = [ k \in 1 .. n |-> Retained(s, K)[k] ]
  BY DEF Retained
<1>4. Retained(s, K) \in [1 .. n -> S]
  BY <1>2, <1>3
<1>5. DOMAIN Retained(s, K) = 1 .. n
  BY <1>4
<1> QED BY <1>1, <1>4, <1>5

\* `retain` loses no element that satisfies its condition and keeps no other.
THEOREM RetainedElements ==
  ASSUME NEW S, NEW s \in Seq(S), NEW K
  PROVE  Elements(Retained(s, K)) = Elements(s) \cap K
<1> DEFINE I == KeptIndices(s, K)
           R == Retained(s, K)
<1>1. DOMAIN R = 1 .. Cardinality(I)
  BY RetainedType
<1>2. ASSUME NEW e \in Elements(R)
      PROVE  e \in Elements(s) \cap K
  <2>1. PICK k \in 1 .. Cardinality(I) : e = R[k]
    BY <1>1, <1>2 DEF Elements
  <2>2. PICK i \in I : R[k] = s[i]
    BY RetainedAt
  <2> QED BY <2>1, <2>2 DEF KeptIndices, Elements
<1>3. ASSUME NEW e \in Elements(s) \cap K
      PROVE  e \in Elements(R)
  <2>1. PICK i \in DOMAIN s : e = s[i]
    BY <1>3 DEF Elements
  <2>2. i \in I
    BY <2>1, <1>3 DEF KeptIndices
  <2>3. I \subseteq Int /\ IsFiniteSet(I)
    BY KeptIndicesFinite
  <2> DEFINE k == Rank(I, i)
  <2>4. k \in 1 .. Cardinality(I)
    <3> HIDE DEF I
    <3> QED BY <2>2, <2>3, RankInRange
  <2>5. PICK j \in I : Rank(I, j) = k /\ R[k] = s[j]
    <3> HIDE DEF k
    <3> QED BY <2>4, RetainedAt
  <2>6. j = i
    <3>1. i < j \/ j < i \/ i = j
      BY <2>2, <2>3
    <3>2. ~ (i < j) /\ ~ (j < i)
      <4> HIDE DEF I
      <4> QED BY <2>2, <2>3, <2>5, RankStrict
    <3> QED BY <3>1, <3>2
  <2> QED BY <1>1, <2>1, <2>4, <2>5, <2>6 DEF Elements
<1> QED BY <1>2, <1>3

\* `retain` duplicates nothing.
THEOREM RetainedDistinct ==
  ASSUME NEW S, NEW s \in Seq(S), NEW K, Distinct(s)
  PROVE  Distinct(Retained(s, K))
<1> DEFINE I == KeptIndices(s, K)
           R == Retained(s, K)
<1>1. DOMAIN R = 1 .. Cardinality(I)
  BY RetainedType
<1> SUFFICES ASSUME NEW k \in 1 .. Cardinality(I), NEW l \in 1 .. Cardinality(I),
                    R[k] = R[l]
             PROVE  k = l
  BY <1>1 DEF Distinct
<1>2. PICK i \in I : Rank(I, i) = k /\ R[k] = s[i]
  BY RetainedAt
<1>3. PICK j \in I : Rank(I, j) = l /\ R[l] = s[j]
  BY RetainedAt
<1>4. i = j
  BY <1>2, <1>3 DEF Distinct, KeptIndices
<1> QED BY <1>2, <1>3, <1>4

\* What is kept stays in its order: together with RetainedType and
\* RetainedElements this says which list `retain` leaves.
THEOREM RetainedInOrder ==
  ASSUME NEW S, NEW s \in Seq(S), NEW K,
         NEW k \in 1 .. Cardinality(KeptIndices(s, K)),
         NEW l \in 1 .. Cardinality(KeptIndices(s, K)), k < l
  PROVE  \E i, j \in KeptIndices(s, K) :
           i < j /\ Retained(s, K)[k] = s[i] /\ Retained(s, K)[l] = s[j]
<1> DEFINE I == KeptIndices(s, K)
<1>1. I \subseteq Int /\ IsFiniteSet(I)
  BY KeptIndicesFinite
<1>2. PICK i \in I : Rank(I, i) = k /\ Retained(s, K)[k] = s[i]
  BY RetainedAt
<1>3. PICK j \in I : Rank(I, j) = l /\ Retained(s, K)[l] = s[j]
  BY RetainedAt
<1> HIDE DEF I
<1>4. ASSUME j <= i PROVE FALSE
  <2> DEFINE A == { x \in I : x <= j }
             B == { x \in I : x <= i }
  <2>1. \A x \in I : x <= j => x <= i
    BY <1>1, <1>4
  <2>2. A \in SUBSET B /\ B \in SUBSET I
    BY <2>1
  <2>3. IsFiniteSet(B)
    BY <1>1, <2>2, FS_Subset
  <2>4. Cardinality(A) <= Cardinality(B)
    BY <2>2, <2>3, FS_Subset
  <2>5. l <= k
    BY <1>2, <1>3, <2>4 DEF Rank
  <2> QED BY <2>5, KeptIndicesFinite
<1>5. i < j
  BY <1>1, <1>4
<1> QED BY <1>2, <1>3, <1>5 DEF I

-------------------------------------------------------------------------------
(* The operators the model is built from                                   *)

\* add_task returns a list of persisted tasks.
LEMMA AddTaskType ==
  ASSUME NEW q \in Seq(PersistedTask), NEW t \in PersistedTask
  PROVE  add_task(q, t) \in Seq(PersistedTask)
BY DEF add_task

\* remove_task returns a list of persisted tasks.
LEMMA RemoveTaskType ==
  ASSUME NEW q \in Seq(PersistedTask), NEW id
  PROVE  remove_task(q, id) \in Seq(PersistedTask)
BY RetainedType DEF remove_task

\* update_task_status keeps the length and the requests of the list.
LEMMA UpdateTaskStatusType ==
  ASSUME NEW q \in Seq(PersistedTask), NEW id, NEW st \in PersistedStatus
  PROVE  /\ update_task_status(q, id, st) \in Seq(PersistedTask)
         /\ DOMAIN update_task_status(q, id, st) = DOMAIN q
         /\ \A i \in DOMAIN q : update_task_status(q, id, st)[i].req = q[i].req
<1> DEFINE u == update_task_status(q, id, st)
<1>1. \A i \in DOMAIN q : q[i] \in PersistedTask
  OBVIOUS
<1>2. \A i \in DOMAIN q : u[i] \in PersistedTask /\ u[i].req = q[i].req
  BY <1>1 DEF update_task_status, PersistedTask
<1>3. DOMAIN u = DOMAIN q
  BY DEF update_task_status
<1>4. u = [ i \in 1 .. Len(q) |-> u[i] ]
  BY DEF update_task_status
<1>5. u \in Seq(PersistedTask)
  <2> HIDE DEF u
  <2>1. \A i \in 1 .. Len(q) : u[i] \in PersistedTask
    BY <1>2
  <2>2. u \in [1 .. Len(q) -> PersistedTask]
    BY <1>4, <2>1
  <2> QED BY <2>2
<1> QED BY <1>2, <1>3, <1>5

\* A save leaves both copies of the list well-typed.
LEMMA SaveType ==
  ASSUME TypeOK, NEW q \in Seq(PersistedTask), save(q)
  PROVE  mem' \in Seq(PersistedTask) /\ disk' \in Seq(PersistedTask)
BY DEF save, TypeOK

FinishedTask == [task : TaskIds, status : {"success", "failed"}]

\* add_to_history returns a list of finished tasks.
LEMMA AddToHistoryType ==
  ASSUME NEW h \in Seq(FinishedTask), NEW t \in FinishedTask
  PROVE  add_to_history(h, t) \in Seq(FinishedTask)
<1> DEFINE longer == <<t>> \o h
<1>1. longer \in Seq(FinishedTask) /\ Len(longer) = Len(h) + 1
  OBVIOUS
<1>2. ASSUME Len(longer) > MAX_TASK_HISTORY
      PROVE  SubSeq(longer, 1, MAX_TASK_HISTORY) \in Seq(FinishedTask)
  <2> HIDE DEF longer
  <2> QED BY <1>1, <1>2, HistoryAssumption
<1> QED BY <1>1, <1>2 DEF add_to_history

-------------------------------------------------------------------------------
(* Type correctness                                                        *)

\* Initially every map is empty and nothing runs.
LEMMA TypeInit == Init => TypeInv
BY EngineAssumption DEF Init, TypeInv, TypeOK, HolderHasRequest, Holding,
   HandlerStates, DriverStates, DeployStatus, PersistedTask, Absent

\* The steps of a handler keep every map, deque and program counter in its type.
LEMMA HandlerType ==
  ASSUME TypeInv, NEW r \in Requests,
         \/ TriggerCheckRunning(r)
         \/ TriggerUnknownProject(r)
         \/ Handler(r)
  PROVE  TypeInv'
<1> USE TaskOfAssumption, EngineAssumption DEF TypeInv, HolderHasRequest, Holding
<1>1. CASE TriggerCheckRunning(r)
  BY <1>1 DEF TypeOK, TriggerCheckRunning, At, HandlerStates, serverVars,
              driverVars, storeVars, queueFile, ghostVars
<1>2. CASE TriggerUnknownProject(r)
  BY <1>2 DEF TypeOK, TriggerUnknownProject, At, HandlerStates, serverVars,
              driverVars, storeVars, queueFile, ghostVars
<1>3. CASE TriggerCheckQueue(r)
  BY <1>3 DEF TypeOK, TriggerCheckQueue, At, HandlerStates, serverVars,
              driverVars, storeVars, queueFile, ghostVars
<1>4. CASE TriggerEnqueue(r)
  <2>1. ProjectOf[r] \in Projects /\ Append(queue[ProjectOf[r]], r) \in Seq(Requests)
    BY DEF TypeOK
  <2>2. queue' \in [Projects -> Seq(Requests)]
    BY <1>4, <2>1 DEF TypeOK, TriggerEnqueue, enqueue_deploy
  <2> QED
    BY <1>4, <2>2 DEF TypeOK, TriggerEnqueue, At, HandlerStates, create,
                      DeployStatus, serverVars, driverVars, queueFile, ghostVars
<1>5. CASE TriggerPersistQueued(r)
  <2>1. [req |-> r, status |-> "queued"] \in PersistedTask
    BY DEF PersistedTask, PersistedStatus
  <2>2. mem' \in Seq(PersistedTask) /\ disk' \in Seq(PersistedTask)
    BY <1>5, <2>1, AddTaskType, SaveType DEF TriggerPersistQueued, TypeOK
  <2> QED
    BY <1>5, <2>2 DEF TypeOK, TriggerPersistQueued, At, HandlerStates, serverVars,
                      driverVars, storeVars, ghostVars
<1>6. CASE TriggerRespondQueued(r)
  BY <1>6 DEF TypeOK, TriggerRespondQueued, At, HandlerStates, serverVars,
              driverVars, storeVars, queueFile, ghostVars
<1>7. CASE TriggerRegister(r)
  BY <1>7 DEF TypeOK, TriggerRegister, At, HandlerStates, create, DeployStatus,
              register_running_deploy, serverVars, driverVars, queueFile, ghostVars
<1>8. CASE TriggerPersistRunning(r)
  <2>1. [req |-> r, status |-> "running"] \in PersistedTask
    BY DEF PersistedTask, PersistedStatus
  <2>2. mem' \in Seq(PersistedTask) /\ disk' \in Seq(PersistedTask)
    BY <1>8, <2>1, AddTaskType, SaveType DEF TriggerPersistRunning, TypeOK
  <2> QED
    BY <1>8, <2>2 DEF TypeOK, TriggerPersistRunning, At, HandlerStates, serverVars,
                      driverVars, storeVars, ghostVars
<1>9. CASE TriggerSpawn(r)
  BY <1>9 DEF TypeOK, TriggerSpawn, At, HandlerStates, DriverStates, serverVars,
              storeVars, queueFile, ghostVars
<1> QED BY <1>1, <1>2, <1>3, <1>4, <1>5, <1>6, <1>7, <1>8, <1>9 DEF Handler

\* A handler that is dropped leaves every map in its type.
LEMMA HangupType ==
  ASSUME TypeInv, NEW r \in Requests, Hangup(r)
  PROVE  TypeInv'
<1> USE TaskOfAssumption DEF TypeInv, HolderHasRequest, Holding
<1>1. CASE TriggerDropped(r)
  BY <1>1 DEF TypeOK, TriggerDropped, HandlerStates, serverVars, driverVars,
              storeVars, queueFile, ghostVars
<1>2. CASE TriggerDroppedCreated(r)
  BY <1>2 DEF TypeOK, TriggerDroppedCreated, HandlerStates, create, DeployStatus,
              serverVars, driverVars, queueFile, ghostVars
<1>3. CASE TriggerDroppedSaving(r)
  <2>1. ASSUME NEW st \in PersistedStatus
        PROVE  add_task(mem, [req |-> r, status |-> st]) \in Seq(PersistedTask)
    <3>1. [req |-> r, status |-> st] \in PersistedTask
      BY DEF PersistedTask
    <3> QED BY <3>1, AddTaskType DEF TypeOK
  <2>2. PICK st \in PersistedStatus :
          /\ mem' = add_task(mem, [req |-> r, status |-> st])
          /\ disk' \in {disk, mem'}
    BY <1>3 DEF TriggerDroppedSaving, PersistedStatus
  <2>3. mem' \in Seq(PersistedTask) /\ disk' \in Seq(PersistedTask)
    BY <2>1, <2>2 DEF TypeOK
  <2> QED
    BY <1>3, <2>3 DEF TypeOK, TriggerDroppedSaving, HandlerStates, serverVars,
                      driverVars, storeVars, ghostVars
<1> QED BY <1>1, <1>2, <1>3 DEF Hangup

\* The steps of a driver keep every map, deque and program counter in its type.
LEMMA DriverType ==
  ASSUME TypeInv, NEW d \in Requests, Driver(d)
  PROVE  TypeInv'
<1> USE TaskOfAssumption, EngineAssumption DEF TypeInv, HolderHasRequest, Holding
<1>1. CASE FinishTask(d)
  <2>1. cur[d] \in Requests
    BY <1>1 DEF FinishTask, DriverAt
  <2>2. tasks' \in [TaskIds -> DeployStatus \cup {Absent}]
    BY <1>1 DEF TypeOK, FinishTask, remove
  <2>3. result' \in [Requests -> {"success", "failed", Absent}]
    BY <1>1 DEF TypeOK, FinishTask
  <2> QED
    BY <1>1, <2>1, <2>2, <2>3 DEF TypeOK, FinishTask, DriverAt, DriverStates,
       serverVars, queueFile
<1>2. CASE FinishHistory(d)
  <2>1. cur[d] \in Requests /\ TaskOf[cur[d]] \in TaskIds
    BY <1>2 DEF FinishHistory, DriverAt
  <2>2. result[d] # Absent => result[d] \in {"success", "failed"}
    BY DEF TypeOK
  <2>3. result[d] # Absent =>
          [task |-> TaskOf[cur[d]], status |-> result[d]] \in FinishedTask
    BY <2>1, <2>2 DEF FinishedTask
  <2>4. history \in Seq(FinishedTask)
    BY DEF TypeOK, FinishedTask
  <2>5. history' \in Seq(FinishedTask)
    BY <1>2, <2>3, <2>4, AddToHistoryType DEF FinishHistory
  <2>6. history' \in Seq([task : TaskIds, status : {"success", "failed"}])
    BY <2>5 DEF FinishedTask
  <2> QED
    BY <1>2, <2>6 DEF TypeOK, FinishHistory, DriverAt, DriverStates, serverVars,
       queueFile, ghostVars
<1>3. CASE FinishRelease(d)
  BY <1>3 DEF TypeOK, FinishRelease, DriverAt, DriverStates,
     unregister_running_deploy, serverVars, queueFile, ghostVars
<1>4. CASE ExecuteUnpersist(d)
  <2>1. mem' \in Seq(PersistedTask) /\ disk' \in Seq(PersistedTask)
    <3>1. mem \in Seq(PersistedTask) /\ disk \in Seq(PersistedTask)
      BY DEF TypeOK
    <3> QED BY <1>4, <3>1, RemoveTaskType, SaveType DEF ExecuteUnpersist, queueFile
  <2> QED
    BY <1>4, <2>1 DEF TypeOK, ExecuteUnpersist, DriverAt, DriverStates, serverVars,
       storeVars, ghostVars
<1>5. CASE ExecuteUnregister(d)
  BY <1>5 DEF TypeOK, ExecuteUnregister, DriverAt, DriverStates,
     unregister_running_deploy, serverVars, storeVars, queueFile, ghostVars
<1>6. CASE QueueTake(d)
  <2>1. ProjectOf[d] \in Projects /\ queue[ProjectOf[d]] \in Seq(Requests)
    BY DEF TypeOK
  <2>2. /\ Head(queue[ProjectOf[d]]) \in Requests
        /\ Tail(queue[ProjectOf[d]]) \in Seq(Requests)
    BY <1>6, <2>1 DEF QueueTake
  <2>3. queue' \in [Projects -> Seq(Requests)]
    BY <1>6, <2>1, <2>2 DEF TypeOK, QueueTake, dequeue_deploy
  <2> QED
    BY <1>6, <2>2, <2>3 DEF TypeOK, QueueTake, DriverAt, DriverStates, serverVars,
       storeVars, queueFile, ghostVars
<1>7. CASE QueueEmpty(d)
  BY <1>7 DEF TypeOK, QueueEmpty, DriverAt, DriverStates, serverVars, storeVars,
     queueFile, ghostVars
<1>8. CASE QueuePromote(d)
  <2>1. mem' \in Seq(PersistedTask) /\ disk' \in Seq(PersistedTask)
    <3>1. mem \in Seq(PersistedTask) /\ "running" \in PersistedStatus
      BY DEF TypeOK, PersistedStatus
    <3> QED BY <1>8, <3>1, UpdateTaskStatusType, SaveType DEF QueuePromote
  <2>2. tasks' \in [TaskIds -> DeployStatus \cup {Absent}]
    BY <1>8 DEF TypeOK, QueuePromote, update_status, DeployStatus
  <2> QED
    BY <1>8, <2>1, <2>2 DEF TypeOK, QueuePromote, DriverAt, DriverStates,
       serverVars, ghostVars
<1>9. CASE QueueRegister(d)
  BY <1>9 DEF TypeOK, QueueRegister, DriverAt, DriverStates,
     register_running_deploy, serverVars, queueFile, ghostVars
<1> QED BY <1>1, <1>2, <1>3, <1>4, <1>5, <1>6, <1>7, <1>8, <1>9 DEF Driver, DriverGoesOn

\* So do the cleanup loop, a crash and the recovery.
LEMMA ProcessType ==
  ASSUME TypeInv, CleanupQueue \/ CleanupStale \/ Crash \/ Recovery
  PROVE  TypeInv'
<1> USE TaskOfAssumption, EngineAssumption DEF TypeInv, HolderHasRequest, Holding
<1>1. CASE CleanupQueue
  <2>1. PICK old \in SUBSET Queued \ {{}} :
          /\ queue' = [p \in Projects |-> Retained(queue[p], Requests \ old)]
          /\ tasks' = [id \in TaskIds |->
                         IF tasks[id] # Absent /\ \E r \in old : TaskOf[r] = id
                         THEN "failed" ELSE tasks[id]]
          /\ expired' = expired \cup old
    BY <1>1 DEF CleanupQueue
  <2>2. old \subseteq Requests
    BY DEF Queued, Elements, TypeOK
  <2>3. queue' \in [Projects -> Seq(Requests)]
    BY <2>1, RetainedType DEF TypeOK
  <2>4. tasks' \in [TaskIds -> DeployStatus \cup {Absent}]
    BY <2>1 DEF TypeOK, DeployStatus
  <2> QED
    BY <1>1, <2>1, <2>2, <2>3, <2>4 DEF TypeOK, CleanupQueue, serverVars,
       driverVars, queueFile
<1>2. CASE CleanupStale
  <2>1. PICK stale \in SUBSET TaskIds, dropped \in SUBSET channels :
          /\ tasks' = cleanup_stale_tasks(tasks, stale)
          /\ history' = cleanup_stale_history(history, stale)
          /\ channels' = channels \ dropped
    BY <1>2 DEF CleanupStale
  <2>2. history' \in Seq([task : TaskIds, status : {"success", "failed"}])
    BY <2>1, RetainedType DEF cleanup_stale_history, TypeOK
  <2>3. tasks' \in [TaskIds -> DeployStatus \cup {Absent}]
    BY <2>1 DEF TypeOK, cleanup_stale_tasks
  <2>4. channels' \in SUBSET TaskIds
    BY <2>1 DEF TypeOK
  <2> QED
    BY <1>2, <2>2, <2>3, <2>4 DEF TypeOK, CleanupStale, serverVars, driverVars,
       queueFile, ghostVars
<1>3. CASE Crash
  BY <1>3 DEF TypeOK, Crash, HandlerStates, DriverStates
<1>4. CASE Restart
  <2>1. mem' \in {disk, << >>}
    BY <1>4 DEF Restart
  <2>2. << >> \in Seq(PersistedTask)
    OBVIOUS
  <2>3. disk \in Seq(PersistedTask)
    BY DEF TypeOK
  <2>4. mem' \in Seq(PersistedTask) /\ todo' = mem'
    BY <1>4, <2>1, <2>2, <2>3 DEF Restart
  <2> QED BY <1>4, <2>4 DEF TypeOK, Restart, driverVars, storeVars
<1>5. CASE RecoverSkip
  <2>1. Tail(todo) \in Seq(PersistedTask) /\ Head(todo) \in PersistedTask
    BY <1>5 DEF TypeOK, RecoverSkip
  <2>2. Head(todo).req \in Requests
    BY <2>1 DEF PersistedTask
  <2> QED
    BY <1>5, <2>1, <2>2 DEF TypeOK, RecoverSkip, driverVars, storeVars, queueFile,
       ghostVars
<1>6. CASE RecoverRunning
  <2>1. Tail(todo) \in Seq(PersistedTask) /\ Head(todo) \in PersistedTask
    BY <1>6 DEF TypeOK, RecoverRunning
  <2>2. Head(todo).req \in Requests
    BY <2>1 DEF PersistedTask
  <2> QED
    BY <1>6, <2>1, <2>2 DEF TypeOK, RecoverRunning, create, DeployStatus,
       DriverStates, register_running_deploy, queueFile, ghostVars
<1>7. CASE RecoverQueued
  <2>1. Tail(todo) \in Seq(PersistedTask) /\ Head(todo) \in PersistedTask
    BY <1>7 DEF TypeOK, RecoverQueued
  <2>2. Head(todo).req \in Requests
    BY <2>1 DEF PersistedTask
  <2> DEFINE r == Head(todo).req
  <2>3. ProjectOf[r] \in Projects /\ Append(queue[ProjectOf[r]], r) \in Seq(Requests)
    BY <2>2 DEF TypeOK
  <2>4. queue' \in [Projects -> Seq(Requests)]
    BY <1>7, <2>3 DEF TypeOK, RecoverQueued, enqueue_deploy
  <2> QED
    BY <1>7, <2>1, <2>2, <2>4 DEF TypeOK, RecoverQueued, create, DeployStatus,
       driverVars, queueFile, ghostVars
<1>8. CASE Serve
  BY <1>8 DEF TypeOK, Serve, driverVars, storeVars, queueFile, ghostVars
<1> QED BY <1>1, <1>2, <1>3, <1>4, <1>5, <1>6, <1>7, <1>8 DEF Recovery

\* Every step keeps the type invariant.
LEMMA TypeStep == TypeInv /\ [Next]_vars => TypeInv'
<1> SUFFICES ASSUME TypeInv, [Next]_vars PROVE TypeInv'
  OBVIOUS
<1>1. CASE UNCHANGED vars
  BY <1>1 DEF vars, TypeInv, TypeOK, HolderHasRequest
<1>2. CASE Next
  BY <1>1, <1>2, HandlerType, HangupType, DriverType, ProcessType DEF Next
<1> QED BY <1>1, <1>2

\* Type correctness of the engine: the maps, deques and program counters of
\* trigger_deploy, execute, the cleanup loop and the recovery keep their types.
THEOREM TypeCorrect == Spec => []TypeOK
<1>1. TypeInv => TypeOK
  BY DEF TypeInv
<1> QED BY <1>1, TypeInit, TypeStep, PTL DEF Spec

-------------------------------------------------------------------------------
(* No project stays registered with nothing running                        *)

\* A step that leaves the registrations alone and takes no owner away.
LEMMA OwnersKept ==
  ASSUME RegistrationHasOwner, UNCHANGED running,
         \A r \in Requests : WillUnregister(r) => WillUnregister(r)'
  PROVE  RegistrationHasOwner'
BY DEF RegistrationHasOwner, has_running_deploy, DriverOf

\* A step that registers a request of p whose handler or driver will unregister.
LEMMA OwnerRegisters ==
  ASSUME TypeInv, RegistrationHasOwner, NEW p \in Projects, NEW r,
         register_running_deploy(p, r),
         \E d \in DriverOf(p) : WillUnregister(d)',
         \A d \in Requests : WillUnregister(d) => WillUnregister(d)'
  PROVE  RegistrationHasOwner'
BY DEF RegistrationHasOwner, has_running_deploy, DriverOf, TypeInv, TypeOK,
       register_running_deploy

\* A step that unregisters p and takes away no owner of another project.
LEMMA OwnerUnregisters ==
  ASSUME TypeInv, RegistrationHasOwner, NEW p \in Projects,
         unregister_running_deploy(p),
         \A d \in Requests : ProjectOf[d] # p /\ WillUnregister(d)
                               => WillUnregister(d)'
  PROVE  RegistrationHasOwner'
BY DEF RegistrationHasOwner, has_running_deploy, DriverOf, TypeInv, TypeOK,
       unregister_running_deploy

\* Every step preserves the ownership of registrations.
LEMMA OwnerStep ==
  ASSUME ~ CallersMayLeave, TypeInv, RegistrationHasOwner, [Next]_vars
  PROVE  RegistrationHasOwner'
<1> USE EngineAssumption
<1>1. CASE UNCHANGED vars
  BY <1>1, OwnersKept DEF vars, WillUnregister
<1>2. ASSUME NEW r \in Requests,
             \/ TriggerCheckRunning(r)
             \/ TriggerUnknownProject(r)
             \/ TriggerCheckQueue(r)
             \/ TriggerEnqueue(r)
             \/ TriggerPersistQueued(r)
             \/ TriggerRespondQueued(r)
             \/ TriggerPersistRunning(r)
             \/ TriggerSpawn(r)
      PROVE  RegistrationHasOwner'
  <2>1. UNCHANGED running
    BY <1>2 DEF TriggerCheckRunning, TriggerUnknownProject, TriggerCheckQueue,
       TriggerEnqueue, TriggerPersistQueued, TriggerRespondQueued,
       TriggerPersistRunning, TriggerSpawn
  <2>2. \A s \in Requests : WillUnregister(s) => WillUnregister(s)'
    BY <1>2 DEF TriggerCheckRunning, TriggerUnknownProject, TriggerCheckQueue,
       TriggerEnqueue, TriggerPersistQueued, TriggerRespondQueued,
       TriggerPersistRunning, TriggerSpawn, At, driverVars, WillUnregister,
       TypeInv, TypeOK
  <2> QED BY <2>1, <2>2, OwnersKept
<1>3. ASSUME NEW r \in Requests, TriggerRegister(r)
      PROVE  RegistrationHasOwner'
  <2>1. ProjectOf[r] \in Projects /\ r \in DriverOf(ProjectOf[r])
    BY DEF DriverOf
  <2>2. \A s \in Requests : WillUnregister(s) => WillUnregister(s)'
    BY <1>3 DEF TriggerRegister, At, driverVars, WillUnregister, TypeInv, TypeOK
  <2>3. WillUnregister(r)'
    BY <1>3 DEF TriggerRegister, At, WillUnregister, TypeInv, TypeOK
  <2>4. register_running_deploy(ProjectOf[r], r)
    BY <1>3 DEF TriggerRegister
  <2> QED BY <2>1, <2>2, <2>3, <2>4, OwnerRegisters
<1>4. ASSUME NEW d \in Requests,
             \/ FinishTask(d)
             \/ FinishHistory(d)
             \/ ExecuteUnpersist(d)
             \/ QueueTake(d)
             \/ QueueEmpty(d)
             \/ QueuePromote(d)
      PROVE  RegistrationHasOwner'
  <2>1. UNCHANGED running
    BY <1>4 DEF FinishTask, FinishHistory, ExecuteUnpersist, QueueTake, QueueEmpty,
       QueuePromote
  <2>2. \A s \in Requests : WillUnregister(s) => WillUnregister(s)'
    BY <1>4 DEF FinishTask, FinishHistory, ExecuteUnpersist, QueueTake, QueueEmpty,
       QueuePromote, DriverAt, WillUnregister, TypeInv, TypeOK
  <2> QED BY <2>1, <2>2, OwnersKept
<1>5. ASSUME NEW d \in Requests, FinishRelease(d) \/ ExecuteUnregister(d)
      PROVE  RegistrationHasOwner'
  <2>1. ProjectOf[d] \in Projects /\ unregister_running_deploy(ProjectOf[d])
    BY <1>5 DEF FinishRelease, ExecuteUnregister
  <2>2. \A s \in Requests : ProjectOf[s] # ProjectOf[d] /\ WillUnregister(s)
                              => WillUnregister(s)'
    BY <1>5 DEF FinishRelease, ExecuteUnregister, DriverAt, WillUnregister, TypeInv,
       TypeOK
  <2> QED BY <2>1, <2>2, OwnerUnregisters
<1>6. ASSUME NEW d \in Requests, QueueRegister(d)
      PROVE  RegistrationHasOwner'
  <2>1. ProjectOf[d] \in Projects /\ d \in DriverOf(ProjectOf[d])
    BY DEF DriverOf
  <2>2. \A s \in Requests : WillUnregister(s) => WillUnregister(s)'
    BY <1>6 DEF QueueRegister, DriverAt, WillUnregister, TypeInv, TypeOK
  <2>3. WillUnregister(d)'
    BY <1>6 DEF QueueRegister, DriverAt, WillUnregister, TypeInv, TypeOK
  <2>4. register_running_deploy(ProjectOf[d], cur[d])
    BY <1>6 DEF QueueRegister
  <2> QED BY <2>1, <2>2, <2>3, <2>4, OwnerRegisters
<1>7. CASE CleanupQueue \/ CleanupStale \/ Restart \/ RecoverSkip \/ RecoverQueued
           \/ Serve
  <2>1. UNCHANGED <<running, pc, drv>>
    BY <1>7 DEF CleanupQueue, CleanupStale, Restart, RecoverSkip, RecoverQueued,
       Serve, driverVars
  <2> QED BY <2>1, OwnersKept DEF WillUnregister
<1>8. CASE Crash
  BY <1>8 DEF Crash, RegistrationHasOwner, has_running_deploy
<1>9. CASE RecoverRunning
  <2>0. Head(todo) \in PersistedTask
    BY <1>9 DEF RecoverRunning, TypeInv, TypeOK
  <2>1. PICK r \in Requests : r = Head(todo).req
    BY <2>0 DEF PersistedTask
  <2>2. ProjectOf[r] \in Projects /\ r \in DriverOf(ProjectOf[r])
    BY DEF DriverOf
  <2>3. drv' = [drv EXCEPT ![r] = "deploying"] /\ UNCHANGED pc
    BY <1>9, <2>1 DEF RecoverRunning
  <2>4. \A s \in Requests : WillUnregister(s) => WillUnregister(s)'
    BY <2>3 DEF WillUnregister, TypeInv, TypeOK
  <2>5. WillUnregister(r)'
    BY <2>3 DEF WillUnregister, TypeInv, TypeOK
  <2>6. register_running_deploy(ProjectOf[r], r)
    BY <1>9, <2>1 DEF RecoverRunning
  <2> QED BY <2>2, <2>4, <2>5, <2>6, OwnerRegisters
<1>10. \A r \in Requests : ~ Hangup(r)
  BY DEF Hangup, TriggerDropped, TriggerDroppedCreated, TriggerDroppedSaving
<1> QED
  BY <1>1, <1>2, <1>3, <1>4, <1>5, <1>6, <1>7, <1>8, <1>9, <1>10
  DEF Next, Handler, Driver, DriverGoesOn, Recovery

\* However triggers, drivers, crashes and recoveries interleave, a project that
\* running_deploys names has a handler or a driver that will unregister it, as
\* long as no caller hangs up on trigger_deploy.
THEOREM RegistrationOwned ==
  ASSUME ~ CallersMayLeave
  PROVE  Spec => []RegistrationHasOwner
<1>1. Init => RegistrationHasOwner
  BY DEF Init, RegistrationHasOwner, has_running_deploy
<1>2. TypeInv /\ RegistrationHasOwner /\ [Next]_vars => RegistrationHasOwner'
  BY OwnerStep
<1> QED BY <1>1, <1>2, TypeInit, TypeStep, PTL DEF Spec

-------------------------------------------------------------------------------
(* An accepted task stays on disk until it has run                         *)

\* add_task leaves its own task recorded, and every other.
LEMMA AddTaskRecords ==
  ASSUME NEW q \in Seq(PersistedTask), NEW t \in PersistedTask
  PROVE  /\ HasTask(add_task(q, t), TaskOf[t.req])
         /\ \A id : HasTask(q, id) => HasTask(add_task(q, t), id)
<1>1. CASE HasTask(q, TaskOf[t.req])
  BY <1>1 DEF add_task
<1>2. CASE ~ HasTask(q, TaskOf[t.req])
  <2> DEFINE longer == Append(q, t)
  <2>1. /\ Len(q) \in Nat /\ DOMAIN longer = 1 .. Len(q) + 1
        /\ DOMAIN q = 1 .. Len(q)
        /\ longer[Len(q) + 1] = t
        /\ \A i \in 1 .. Len(q) : longer[i] = q[i]
    OBVIOUS
  <2>2. add_task(q, t) = longer
    BY <1>2 DEF add_task
  <2> HIDE DEF longer
  <2>3. Len(q) + 1 \in DOMAIN longer /\ DOMAIN q \subseteq DOMAIN longer
    BY <2>1
  <2>4. HasTask(longer, TaskOf[t.req])
    BY <2>1, <2>3 DEF HasTask
  <2>5. ASSUME NEW id, HasTask(q, id) PROVE HasTask(longer, id)
    BY <2>1, <2>3, <2>5 DEF HasTask
  <2> QED BY <2>2, <2>4, <2>5
<1> QED BY <1>1, <1>2

\* remove_task keeps the record of every other task id.
LEMMA RemoveTaskKeepsOthers ==
  ASSUME NEW q \in Seq(PersistedTask), NEW id, NEW other,
         other # id, HasTask(q, other)
  PROVE  HasTask(remove_task(q, id), other)
<1> DEFINE K == { task \in PersistedTask : TaskOf[task.req] # id }
<1>1. PICK i \in DOMAIN q : TaskOf[q[i].req] = other
  BY DEF HasTask
<1>2. q[i] \in PersistedTask
  OBVIOUS
<1>3. q[i] \in Elements(q) \cap K
  BY <1>1, <1>2 DEF Elements
<1>4. q[i] \in Elements(Retained(q, K))
  BY <1>3, RetainedElements
<1>5. PICK j \in DOMAIN Retained(q, K) : Retained(q, K)[j] = q[i]
  BY <1>4 DEF Elements
<1> QED BY <1>1, <1>5 DEF HasTask, remove_task

\* update_task_status records what was recorded.
LEMMA UpdateTaskStatusKeeps ==
  ASSUME NEW q \in Seq(PersistedTask), NEW id, NEW other, HasTask(q, other)
  PROVE  HasTask(update_task_status(q, id, "running"), other)
<1>1. "running" \in PersistedStatus
  BY DEF PersistedStatus
<1> QED BY <1>1, UpdateTaskStatusType DEF HasTask

\* A reliable save writes what memory holds.
LEMMA ReliableSave ==
  ASSUME ~ SaveMayFail, NEW q, save(q)
  PROVE  mem' = q /\ disk' = q
BY DEF save

\* Steps that touch neither the file nor the progress of an accepted task.
LEMMA DurableKept ==
  ASSUME DurableInv, UNCHANGED <<mem, disk>>, boot' = "down" => boot = "down",
         boot = "down" => boot' = "down",
         finished \subseteq finished',
         \A r \in Requests : pc'[r] \in {"recorded", "launching", "acked"} =>
                               pc[r] \in {"recorded", "launching", "acked"},
         TypeInv', RemovesOnlyFinished'
  PROVE  DurableInv'
BY DEF DurableInv, RecordedUntilFinished, HasTask

\* Writing a record for r, to memory and perhaps to the file, keeps the others;
\* only if the file is written does r count as recorded.
LEMMA AddedDurable ==
  ASSUME DurableInv, NEW r \in Requests, NEW st \in PersistedStatus, NEW to,
         boot # "down", UNCHANGED <<boot, finished>>,
         pc' = [pc EXCEPT ![r] = to],
         mem' = add_task(mem, [req |-> r, status |-> st]),
         disk' = mem' \/ (disk' = disk /\ to = "lost")
  PROVE  RecordedUntilFinished'
<1> DEFINE t == [req |-> r, status |-> st]
<1>1. t \in PersistedTask /\ t.req = r
  BY DEF PersistedTask
<1>2. mem \in Seq(PersistedTask) /\ pc \in [Requests -> HandlerStates]
  BY DEF DurableInv, TypeInv, TypeOK
<1>3. HasTask(mem', TaskOf[r]) /\ \A id : HasTask(mem, id) => HasTask(mem', id)
  <2> HIDE DEF t
  <2>1. mem' = add_task(mem, t)
    BY DEF t
  <2> QED BY <1>1, <1>2, <2>1, AddTaskRecords
<1> SUFFICES ASSUME NEW s \in Requests \ finished,
                    pc'[s] \in {"recorded", "launching", "acked"}
             PROVE  HasTask(disk', TaskOf[s]) /\ HasTask(mem', TaskOf[s])
  BY DEF RecordedUntilFinished
<1>4. CASE s = r
  BY <1>2, <1>3, <1>4
<1>5. CASE s # r
  <2>1. HasTask(disk, TaskOf[s]) /\ HasTask(mem, TaskOf[s])
    BY <1>2, <1>5 DEF DurableInv, RecordedUntilFinished
  <2> QED BY <1>3, <2>1
<1> QED BY <1>4, <1>5

\* A handler's step keeps accepted tasks on disk.
LEMMA HandlerDurable ==
  ASSUME ~ SaveMayFail, DurableInv, TypeInv', NEW r \in Requests, boot # "down",
         \/ TriggerCheckRunning(r)
         \/ TriggerUnknownProject(r)
         \/ Handler(r)
  PROVE  DurableInv'
<1>1. CASE \/ TriggerCheckRunning(r) \/ TriggerUnknownProject(r)
           \/ TriggerCheckQueue(r) \/ TriggerEnqueue(r)
           \/ TriggerRespondQueued(r) \/ TriggerRegister(r)
  <2>1. /\ UNCHANGED <<mem, disk, boot, finished, drv, cur>>
        /\ \A s \in Requests : pc'[s] \in {"recorded", "launching", "acked"} =>
                                 pc[s] \in {"recorded", "launching", "acked"}
    BY <1>1 DEF TriggerCheckRunning, TriggerUnknownProject, TriggerCheckQueue,
       TriggerEnqueue, TriggerRespondQueued, TriggerRegister, At, serverVars,
       driverVars, queueFile, ghostVars, DurableInv, TypeInv, TypeOK
  <2>2. RemovesOnlyFinished'
    BY <2>1 DEF DurableInv, RemovesOnlyFinished
  <2> QED BY <2>1, <2>2, DurableKept
<1>2. CASE TriggerSpawn(r)
  <2>1. /\ UNCHANGED <<mem, disk, boot, finished>>
        /\ \A s \in Requests : pc'[s] \in {"recorded", "launching", "acked"} =>
                                 pc[s] \in {"recorded", "launching", "acked"}
    BY <1>2 DEF TriggerSpawn, At, serverVars, queueFile, ghostVars, DurableInv,
       TypeInv, TypeOK
  <2>2. RemovesOnlyFinished'
    BY <1>2, <2>1 DEF TriggerSpawn, DurableInv, RemovesOnlyFinished, TypeInv, TypeOK
  <2> QED BY <2>1, <2>2, DurableKept
<1>3. ASSUME NEW st \in PersistedStatus, NEW to,
             save(add_task(mem, [req |-> r, status |-> st])),
             pc' = [pc EXCEPT ![r] = to], UNCHANGED <<boot, finished, drv, cur>>
      PROVE  DurableInv'
  <2> DEFINE t == [req |-> r, status |-> st]
  <2>1. mem' = add_task(mem, t) /\ disk' = add_task(mem, t)
    BY <1>3, ReliableSave
  <2>2. RecordedUntilFinished'
    BY <1>3, <2>1, AddedDurable
  <2>3. RemovesOnlyFinished'
    BY <1>3 DEF RemovesOnlyFinished, DurableInv
  <2> QED BY <2>2, <2>3 DEF DurableInv
<1>4. CASE TriggerPersistQueued(r)
  <2>1. "queued" \in PersistedStatus
    BY DEF PersistedStatus
  <2> QED
    BY <1>3, <1>4, <2>1 DEF TriggerPersistQueued, At, serverVars, driverVars, ghostVars
<1>5. CASE TriggerPersistRunning(r)
  <2>1. "running" \in PersistedStatus
    BY DEF PersistedStatus
  <2> QED
    BY <1>3, <1>5, <2>1 DEF TriggerPersistRunning, At, serverVars, driverVars, ghostVars
<1> QED BY <1>1, <1>2, <1>4, <1>5 DEF Handler

\* A handler that is dropped was not accepted, and takes no record away.
LEMMA HangupDurable ==
  ASSUME DurableInv, TypeInv', NEW r \in Requests, boot # "down", Hangup(r)
  PROVE  DurableInv'
<1>1. CASE TriggerDropped(r) \/ TriggerDroppedCreated(r)
  <2>1. /\ UNCHANGED <<mem, disk, boot, finished, drv, cur>>
        /\ \A s \in Requests : pc'[s] \in {"recorded", "launching", "acked"} =>
                                 pc[s] \in {"recorded", "launching", "acked"}
    BY <1>1 DEF TriggerDropped, TriggerDroppedCreated, serverVars, driverVars,
       queueFile, ghostVars, DurableInv, TypeInv, TypeOK
  <2>2. RemovesOnlyFinished'
    BY <2>1 DEF DurableInv, RemovesOnlyFinished
  <2> QED BY <2>1, <2>2, DurableKept
<1>2. CASE TriggerDroppedSaving(r)
  <2>1. UNCHANGED <<boot, finished, drv, cur>> /\ pc' = [pc EXCEPT ![r] = "lost"]
    BY <1>2 DEF TriggerDroppedSaving, serverVars, driverVars, ghostVars
  <2>2. PICK st \in PersistedStatus :
          /\ mem' = add_task(mem, [req |-> r, status |-> st])
          /\ disk' \in {disk, mem'}
    BY <1>2 DEF TriggerDroppedSaving, PersistedStatus
  <2>3. RecordedUntilFinished'
    BY <2>1, <2>2, AddedDurable
  <2>4. RemovesOnlyFinished'
    BY <2>1 DEF DurableInv, RemovesOnlyFinished
  <2> QED BY <2>3, <2>4 DEF DurableInv
<1> QED BY <1>1, <1>2 DEF Hangup

\* A driver's step keeps accepted tasks on disk: it removes only its own
\* task's record, and only after that task has finished.
LEMMA DriverDurable ==
  ASSUME ~ SaveMayFail, UniqueTaskIds, DurableInv, TypeInv', NEW d \in Requests,
         boot # "down", Driver(d)
  PROVE  DurableInv'
<1>1. CASE FinishTask(d) \/ FinishHistory(d) \/ FinishRelease(d)
           \/ ExecuteUnregister(d) \/ QueueTake(d) \/ QueueEmpty(d)
           \/ QueueRegister(d)
  <2>1. UNCHANGED <<mem, disk, boot, pc>> /\ finished \subseteq finished'
    BY <1>1 DEF FinishTask, FinishHistory, FinishRelease, ExecuteUnregister,
       QueueTake, QueueEmpty, QueueRegister, serverVars, queueFile, ghostVars
  <2>2. RemovesOnlyFinished'
    <3>1. CASE FinishTask(d)
      BY <3>1 DEF FinishTask, DriverAt, RemovesOnlyFinished, DurableInv, TypeInv,
         TypeOK
    <3>2. CASE FinishHistory(d) \/ FinishRelease(d) \/ QueueEmpty(d)
      BY <3>2 DEF FinishHistory, FinishRelease, QueueEmpty, DriverAt, ghostVars,
         RemovesOnlyFinished, DurableInv, TypeInv, TypeOK
    <3>3. CASE ExecuteUnregister(d) \/ QueueTake(d) \/ QueueRegister(d)
      BY <3>3 DEF ExecuteUnregister, QueueTake, QueueRegister, DriverAt,
         ghostVars, RemovesOnlyFinished, DurableInv, TypeInv, TypeOK
    <3> QED BY <1>1, <3>1, <3>2, <3>3
  <2> QED BY <2>1, <2>2, DurableKept
<1>2. CASE ExecuteUnpersist(d)
  <2>1. cur[d] \in finished /\ cur[d] \in Requests
    BY <1>2 DEF ExecuteUnpersist, DriverAt, DurableInv, RemovesOnlyFinished,
       TypeInv, TypeOK
  <2>2. RemovesOnlyFinished'
    BY <1>2 DEF ExecuteUnpersist, DriverAt, ghostVars, RemovesOnlyFinished,
       DurableInv, TypeInv, TypeOK
  <2>3. mem \in Seq(PersistedTask)
    BY DEF DurableInv, TypeInv, TypeOK
  <2>4. CASE HasTask(mem, TaskOf[cur[d]])
    <3>1. /\ mem' = remove_task(mem, TaskOf[cur[d]])
          /\ disk' = remove_task(mem, TaskOf[cur[d]])
      BY <1>2, <2>4, ReliableSave DEF ExecuteUnpersist
    <3>2. ASSUME NEW r \in Requests \ finished, HasTask(mem, TaskOf[r])
          PROVE  HasTask(mem', TaskOf[r])
      <4>1. TaskOf[r] # TaskOf[cur[d]]
        BY <2>1, <3>2 DEF UniqueTaskIds
      <4> QED BY <2>3, <3>1, <3>2, <4>1, RemoveTaskKeepsOthers
    <3>3. UNCHANGED <<pc, finished, boot>>
      BY <1>2 DEF ExecuteUnpersist, ghostVars, serverVars
    <3>4. RecordedUntilFinished'
      BY <3>1, <3>2, <3>3 DEF RecordedUntilFinished, DurableInv
    <3> QED BY <2>2, <3>4 DEF DurableInv
  <2>5. CASE ~ HasTask(mem, TaskOf[cur[d]])
    <3>1. UNCHANGED <<mem, disk, boot, pc, finished>>
      BY <1>2, <2>5 DEF ExecuteUnpersist, ghostVars, serverVars, queueFile
    <3> QED BY <2>2, <3>1, DurableKept
  <2> QED BY <2>4, <2>5
<1>3. CASE QueuePromote(d)
  <2>1. mem \in Seq(PersistedTask)
    BY DEF DurableInv, TypeInv, TypeOK
  <2>2. /\ mem' = update_task_status(mem, TaskOf[cur[d]], "running")
        /\ disk' = update_task_status(mem, TaskOf[cur[d]], "running")
    BY <1>3, ReliableSave DEF QueuePromote
  <2>3. UNCHANGED <<pc, cur, finished, boot>> /\ DriverAt(d, "dequeued", "promoted")
    BY <1>3 DEF QueuePromote, ghostVars, serverVars
  <2>4. RecordedUntilFinished'
    BY <2>1, <2>2, <2>3, UpdateTaskStatusKeeps DEF RecordedUntilFinished, DurableInv
  <2>5. RemovesOnlyFinished'
    BY <2>3 DEF DriverAt, RemovesOnlyFinished, DurableInv, TypeInv, TypeOK
  <2> QED BY <2>4, <2>5 DEF DurableInv
<1> QED BY <1>1, <1>2, <1>3 DEF Driver, DriverGoesOn

-------------------------------------------------------------------------------
(* No handler and no driver takes a step while the process is down.        *)

\* No handler takes a step while the process is down.
LEMMA HandlerNeedsProcess ==
  ASSUME DeadRunsNothing, NEW r \in Requests,
         \/ TriggerCheckRunning(r)
         \/ TriggerUnknownProject(r)
         \/ Handler(r)
         \/ Hangup(r)
  PROVE  boot # "down" /\ boot' = boot
<1>1. boot' = boot
  BY DEF TriggerCheckRunning, TriggerUnknownProject, Handler, TriggerCheckQueue,
     TriggerEnqueue, TriggerPersistQueued, TriggerRespondQueued, TriggerRegister,
     TriggerPersistRunning, TriggerSpawn, Hangup, TriggerDropped,
     TriggerDroppedCreated, TriggerDroppedSaving, serverVars
<1>2. boot = "up" \/ pc[r] \in InFlight
  BY DEF TriggerCheckRunning, TriggerUnknownProject, Handler, TriggerCheckQueue,
     TriggerEnqueue, TriggerPersistQueued, TriggerRespondQueued, TriggerRegister,
     TriggerPersistRunning, TriggerSpawn, Hangup, TriggerDropped,
     TriggerDroppedCreated, TriggerDroppedSaving, At, InFlight
<1> QED BY <1>1, <1>2 DEF DeadRunsNothing

\* ... and no driver.
LEMMA DriverNeedsProcess ==
  ASSUME DeadRunsNothing, NEW d \in Requests, Driver(d)
  PROVE  boot # "down" /\ boot' = boot
<1>1. boot' = boot
  BY DEF Driver, DriverGoesOn, FinishTask, FinishHistory, FinishRelease, ExecuteUnpersist,
     ExecuteUnregister, QueueTake, QueueEmpty, QueuePromote, QueueRegister,
     serverVars
<1>2. drv[d] # "none"
  BY DEF Driver, DriverGoesOn, FinishTask, FinishHistory, FinishRelease, ExecuteUnpersist,
     ExecuteUnregister, QueueTake, QueueEmpty, QueuePromote, QueueRegister,
     DriverAt
<1> QED BY <1>1, <1>2 DEF DeadRunsNothing

\* A crash takes every handler and driver with it.
LEMMA DeadStep ==
  ASSUME DeadRunsNothing, TypeInv, [Next]_vars
  PROVE  DeadRunsNothing'
<1>1. ASSUME NEW r \in Requests,
             \/ TriggerCheckRunning(r)
             \/ TriggerUnknownProject(r)
             \/ Handler(r)
             \/ Hangup(r)
      PROVE  DeadRunsNothing'
  BY <1>1, HandlerNeedsProcess DEF DeadRunsNothing
<1>2. ASSUME NEW d \in Requests, Driver(d) PROVE DeadRunsNothing'
  BY <1>2, DriverNeedsProcess DEF DeadRunsNothing
<1>3. CASE CleanupQueue \/ CleanupStale
  BY <1>3 DEF CleanupQueue, CleanupStale, serverVars, DeadRunsNothing
<1>4. CASE Crash
  BY <1>4 DEF Crash, DeadRunsNothing, InFlight
<1>5. CASE Recovery
  BY <1>5 DEF Recovery, Restart, RecoverSkip, RecoverRunning, RecoverQueued,
     Serve, DeadRunsNothing
<1>6. CASE UNCHANGED vars
  BY <1>6 DEF vars, DeadRunsNothing
<1> QED BY <1>1, <1>2, <1>3, <1>4, <1>5, <1>6 DEF Next

-------------------------------------------------------------------------------
(* Durability                                                              *)

\* Recovery does not write the file.
LEMMA RecoveryDurable ==
  ASSUME ~ LoadMayFail, DurableInv, DeadRunsNothing, TypeInv', Recovery
  PROVE  DurableInv'
<1>1. CASE Restart
  <2>1. UNCHANGED <<disk, pc, drv, cur, finished>> /\ mem' = disk
    BY <1>1 DEF Restart, driverVars
  <2> QED BY <2>1 DEF DurableInv, RecordedUntilFinished,
             RemovesOnlyFinished, HasTask
<1>2. CASE RecoverSkip \/ RecoverQueued \/ Serve
  <2>1. /\ UNCHANGED <<mem, disk, pc, drv, cur, finished>>
        /\ boot # "down" /\ boot' # "down"
    BY <1>2 DEF RecoverSkip, RecoverQueued, Serve, driverVars, queueFile, ghostVars
  <2>2. RemovesOnlyFinished'
    BY <2>1 DEF DurableInv, RemovesOnlyFinished
  <2> QED BY <2>1, <2>2, DurableKept
<1>3. CASE RecoverRunning
  <2>1. /\ UNCHANGED <<mem, disk, pc, finished>>
        /\ boot # "down" /\ boot' # "down"
    BY <1>3 DEF RecoverRunning, queueFile, ghostVars
  <2>2. PICK r \in Requests : /\ drv' = [drv EXCEPT ![r] = "deploying"]
                              /\ cur' = [cur EXCEPT ![r] = r]
    <3>1. Head(todo) \in PersistedTask
      BY <1>3 DEF RecoverRunning, DurableInv, TypeInv, TypeOK
    <3>2. Head(todo).req \in Requests
      BY <3>1 DEF PersistedTask
    <3> QED BY <1>3, <3>2 DEF RecoverRunning
  <2>3. RemovesOnlyFinished'
    BY <2>1, <2>2 DEF DurableInv, RemovesOnlyFinished, TypeInv, TypeOK
  <2> QED BY <2>1, <2>3, DurableKept
<1> QED BY <1>1, <1>2, <1>3 DEF Recovery

\* Every step keeps an accepted task recorded until it has finished.
LEMMA DurableStep ==
  ASSUME ~ SaveMayFail, ~ LoadMayFail, UniqueTaskIds, DurableInv, DeadRunsNothing,
         [Next]_vars
  PROVE  DurableInv'
<1>1. TypeInv'
  BY TypeStep DEF DurableInv
<1>2. ASSUME NEW r \in Requests,
             TriggerCheckRunning(r) \/ TriggerUnknownProject(r) \/ Handler(r)
      PROVE  DurableInv'
  BY <1>1, <1>2, HandlerNeedsProcess, HandlerDurable
<1>3. ASSUME NEW r \in Requests, Hangup(r) PROVE DurableInv'
  BY <1>1, <1>3, HandlerNeedsProcess, HangupDurable
<1>4. ASSUME NEW d \in Requests, Driver(d) PROVE DurableInv'
  BY <1>1, <1>4, DriverNeedsProcess, DriverDurable
<1>5. CASE CleanupQueue \/ CleanupStale \/ UNCHANGED vars
  <2>1. UNCHANGED <<mem, disk, boot, pc, drv, cur, finished>>
    BY <1>5 DEF CleanupQueue, CleanupStale, vars, serverVars, driverVars,
       queueFile, ghostVars
  <2>2. RemovesOnlyFinished'
    BY <2>1 DEF DurableInv, RemovesOnlyFinished
  <2> QED BY <1>1, <2>1, <2>2, DurableKept
<1>6. CASE Crash
  <2>1. /\ UNCHANGED <<disk, finished>> /\ boot' = "down"
        /\ \A r \in Requests : drv'[r] = "none"
        /\ \A r \in Requests : pc'[r] \in {"recorded", "launching", "acked"} =>
                                 pc[r] \in {"recorded", "launching", "acked"}
    BY <1>6 DEF Crash, InFlight
  <2> QED BY <1>1, <2>1 DEF DurableInv, HasTask,
             RecordedUntilFinished, RemovesOnlyFinished
<1>7. CASE Recovery
  BY <1>1, <1>7, RecoveryDurable
<1> QED BY <1>2, <1>3, <1>4, <1>5, <1>6, <1>7 DEF Next

\* If reads and writes of queue.json succeed and no two requests share a task id, then a
\* task that POST /trigger has accepted has a record in queue.json until its
\* deployment has run to its end: for any number of requests, projects and
\* crashes, and whatever the interleaving.
THEOREM Durability ==
  ASSUME ~ SaveMayFail, ~ LoadMayFail, UniqueTaskIds
  PROVE  Spec => []AckedTaskIsDurable
<1>1. Init => DurableInv /\ DeadRunsNothing
  <2> SUFFICES ASSUME Init PROVE DurableInv /\ DeadRunsNothing
    OBVIOUS
  <2>1. TypeInv
    BY TypeInit
  <2> QED BY <2>1 DEF Init, DurableInv, RecordedUntilFinished,
             RemovesOnlyFinished, DeadRunsNothing
<1>2. DurableInv /\ DeadRunsNothing /\ [Next]_vars
        => DurableInv' /\ DeadRunsNothing'
  <2>1. DurableInv => TypeInv
    BY DEF DurableInv
  <2> QED BY <2>1, DurableStep, DeadStep
<1>3. DurableInv => AckedTaskIsDurable
  BY DEF DurableInv, RecordedUntilFinished, AckedTaskIsDurable, Acked
<1> QED BY <1>1, <1>2, <1>3, PTL DEF Spec

===============================================================================
