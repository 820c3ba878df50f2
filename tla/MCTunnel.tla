------------------------------- MODULE MCTunnel -------------------------------
(* Instances of TunnelServer for TLC. *)
EXTENDS TunnelServer

CONSTANTS s1, s2, s3, s4, c1, c2, p1, p2, p3

\* s4 belongs to c2, the other sessions to c1.
TwoClients == [s \in Sessions |-> IF s = s4 THEN c2 ELSE c1]

\* Both clients map p2.
SharedPort == [c \in Clients |-> IF c = c1 THEN {p1, p2} ELSE {p2, p3}]
===============================================================================
