-------------------------------- MODULE Retain --------------------------------
(***************************************************************************)
(* `Vec::retain` and `VecDeque::retain`: keep the elements that satisfy a  *)
(* condition, in their order.  The agent filters three lists this way: the *)
(* persisted queue (services/queue_persistence.rs), the per-project deploy *)
(* queues (state/app_state.rs) and the task history (state/task_store.rs). *)
(*                                                                         *)
(* Retained(s, K) keeps the elements of s that belong to the set K.  It is *)
(* SelectSeq(s, LAMBDA e : e \in K), written by the rank of each kept      *)
(* index instead of by recursion, so that what it returns can be proved    *)
(* (DeployEngineProofs) and not only evaluated.                                  *)
(***************************************************************************)
EXTENDS Integers, Sequences, FiniteSets

\* The indices of s that the filter keeps.
KeptIndices(s, K) == { i \in DOMAIN s : s[i] \in K }

\* The position of index i among the indices I.
Rank(I, i) == Cardinality({ j \in I : j <= i })

\* The elements of s that belong to K, in the order of s.
Retained(s, K) ==
  LET I == KeptIndices(s, K)
  IN  [ k \in 1 .. Cardinality(I) |-> s[CHOOSE i \in I : Rank(I, i) = k] ]

\* The set of elements of s.
Elements(s) == { s[i] : i \in DOMAIN s }

\* No element occurs twice in s.
Distinct(s) == \A i, j \in DOMAIN s : s[i] = s[j] => i = j
===============================================================================
