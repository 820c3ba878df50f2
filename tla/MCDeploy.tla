------------------------------- MODULE MCDeploy -------------------------------
(* Instances of DeployEngine for TLC. *)
EXTENDS DeployEngineInv, TLC

CONSTANTS r1, r2, r3, r4, p1, p2

\* Every request has a task id of its own: the request itself names it.
OwnTaskId == [r \in Requests |-> r]

OneProject == [r \in Requests |-> p1]

\* r1 and r2 deploy p1, the others p2.
TwoProjects == [r \in Requests |-> IF r \in {r1, r2} THEN p1 ELSE p2]

\* Requests of one project are interchangeable.
RequestSymmetry == Permutations(Requests)
===============================================================================
