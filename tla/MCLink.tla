--------------------------------- MODULE MCLink ---------------------------------
(***************************************************************************)
(* Instances for TLC of the agent's way to other machines: the tunnel's    *)
(* traffic and the discovery of services.  They share no state: a          *)
(* behaviour looks at one of them, the one focus names.                    *)
(***************************************************************************)
EXTENDS TunnelLink, ServiceDiscovery

CONSTANTS Foci, u1, u2

VARIABLE focus

vars == <<linkVars, discoveryVars, focus>>

\* "lan": one user asks while much happens to the peers; "lookups": two users ask
\* and little happens.
Init ==
  /\ LinkInit /\ DiscoveryInit /\ focus \in Foci
  /\ focus = "link" => discovered_peers = [p \in Peers |-> Absent]
  /\ static = "Local" => focus = "lookups"

OfLink(A) == focus = "link" /\ A /\ UNCHANGED <<discoveryVars, focus>>
OfLan(A) == focus = "lan" /\ A /\ lookup'[u2] = lookup[u2] /\ UNCHANGED <<linkVars, focus>>
OfLookups(A) ==
  focus = "lookups" /\ A /\ events' >= MaxEvents - 1 /\ UNCHANGED <<linkVars, focus>>

Next == OfLink(LinkNext) \/ OfLan(DiscoveryNext) \/ OfLookups(DiscoveryNext)

Spec == Init /\ [][Next]_vars
FairSpec == Spec /\ LinkFairness
===============================================================================
