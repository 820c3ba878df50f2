---------------------------- MODULE ServiceDiscovery ----------------------------
(***************************************************************************)
(* How the agent finds a service: the peers LAN discovery has heard of     *)
(* (services/lan_discovery/mod.rs), the endpoint the service mesh resolves *)
(* (services/mesh.rs), and the router that chooses between them and caches *)
(* its choice (services/service_router.rs).  One service is looked up; the *)
(* peers all provide it.                                                   *)
(*                                                                         *)
(* Time passes only while the code waits for a peer, for the registry or   *)
(* for its next tick: what runs without waiting takes no time.             *)
(***************************************************************************)
EXTENDS Integers, FiniteSets

CONSTANTS
  Peers,                 \* other agents of the LAN
  Users,                 \* tasks that ask the router
  PEER_TIMEOUT, CLEANUP_INTERVAL, HEALTH_CHECK_TIMEOUT,
  ROUTER_TTL,            \* how long the router keeps an endpoint
  MESH_TTL,              \* how long the mesh client does
  MESH_TIMEOUT,          \* of a request to the registry
  Statics,               \* what may be configured for the service
  MaxTime, MaxEvents,    \* bounds on the time and on what peers do
  Absent                 \* no entry

ASSUME DiscoveryAssumption ==
  /\ {PEER_TIMEOUT, CLEANUP_INTERVAL, HEALTH_CHECK_TIMEOUT, ROUTER_TTL, MESH_TTL,
      MESH_TIMEOUT} \subseteq Nat \ {0}
  /\ HEALTH_CHECK_TIMEOUT <= PEER_TIMEOUT
  /\ {MaxTime, MaxEvents} \subseteq Nat
  /\ Statics \subseteq {"Local", "Config", "Fallback", "Nothing"}

VARIABLES
  now,
  events,            \* what peers may still do
  online,                \* peer -> the address it can be reached at, or Absent
  packet,            \* peer -> the address in its broadcast, or Absent
  receiving,         \* what the receive loop verifies: [peer, addr, at], or Absent
  discovered_peers,  \* peer -> its entry, with the time its address last
                     \* passed the check (verified), or Absent
  cleanup_due,       \* the next tick of the cleanup loop
  tunnel,            \* whether a tunnel client maps a port for the service
  static,            \* what is configured: a local, a public or a fallback endpoint
  mesh_cache,        \* the mesh client's entry, or Absent
  cache,             \* the router's entry, or Absent
  lookup             \* user -> where its lookup is and what it has got

discoveryVars == <<now, events, online, packet, receiving, discovered_peers, cleanup_due, tunnel,
                   static, mesh_cache, cache, lookup>>
lanVars == <<packet, receiving, discovered_peers, cleanup_due>>
worldVars == <<events, online, tunnel, static>>

\* An endpoint: where it comes from, when it was last confirmed, and whether it is
\* a peer's that was last heard of at another address.
Endpoint(source, t) == [source |-> source, known |-> t, moved |-> FALSE]
Unknown == Endpoint("None", 0)

\* A lookup: where it is and what it has found, when it asked the registry, which
\* peers have been healthy since it began, and how old what it handed out was.
Waiting == [at |-> "idle", endpoint |-> Unknown, since |-> 0, steady |-> {}, age |-> 0]

\* Some peers may have been heard of already.
DiscoveryInit ==
  /\ now = 0 /\ events = MaxEvents
  /\ online = [p \in Peers |-> 1]
  /\ packet = [p \in Peers |-> Absent] /\ receiving = Absent
  /\ discovered_peers \in [Peers -> {Absent, [addr |-> 1, last_seen |-> 0, healthy |-> TRUE,
                                             moved |-> FALSE, verified |-> 0]}]
  /\ cleanup_due = 0
  /\ tunnel = FALSE /\ static \in Statics
  /\ mesh_cache = Absent /\ cache = Absent
  /\ lookup = [u \in Users |-> Waiting]

healthy_peers == { p \in Peers : discovered_peers[p] # Absent /\ discovered_peers[p].healthy }

\* The fastest peer is taken, healthy or not; a slip no definition uses.
get_service_provider_Fastest == { p \in Peers : discovered_peers[p] # Absent }

\* The healthy provider with the lowest latency, which the model leaves open.
get_service_provider == healthy_peers

-------------------------------------------------------------------------------
(* LAN discovery                                                           *)

\* A packet is taken off the socket; the loop waits for the health check.
Receive(p) ==
  /\ receiving = Absent /\ packet[p] # Absent
  /\ receiving' = [peer |-> p, addr |-> packet[p], at |-> now]
  /\ packet' = [packet EXCEPT ![p] = Absent]
  /\ UNCHANGED <<now, worldVars, discovered_peers, cleanup_due, mesh_cache, cache, lookup>>

\* handle_discovery after verify_peer: an entry that exists keeps its address.
Discovered(healthy) ==
  LET p == receiving.peer
      old == discovered_peers[p]
  IN  discovered_peers' = [discovered_peers EXCEPT ![p] =
        [addr |-> IF old = Absent THEN receiving.addr ELSE old.addr,
         last_seen |-> receiving.at,
         healthy |-> healthy,
         moved |-> old # Absent /\ old.addr # receiving.addr,
         verified |-> IF healthy /\ (old = Absent \/ old.addr = receiving.addr) THEN now
                      ELSE IF old = Absent THEN 0 ELSE old.verified]]

\* Of the peers that were healthy when a lookup began, those that have been since.
StillSteady == lookup' = [u \in Users |->
  [lookup[u] EXCEPT !.steady = { p \in @ : discovered_peers'[p] # Absent
                                           /\ discovered_peers'[p].healthy }]]

\* /health answers, or does not within HEALTH_CHECK_TIMEOUT.
VerifyPeer ==
  /\ receiving # Absent
  /\ \/ online[receiving.peer] = receiving.addr /\ Discovered(TRUE)
     \/ Discovered(FALSE)
  /\ receiving' = Absent
  /\ StillSteady
  /\ UNCHANGED <<now, worldVars, packet, cleanup_due, mesh_cache, cache>>

CleanupPeers ==
  /\ now >= cleanup_due
  /\ cleanup_due' = cleanup_due + CLEANUP_INTERVAL
  /\ discovered_peers' = [p \in Peers |->
       IF discovered_peers[p] # Absent /\ now - discovered_peers[p].last_seen > PEER_TIMEOUT
       THEN Absent ELSE discovered_peers[p]]
  /\ StillSteady
  /\ UNCHANGED <<now, worldVars, packet, receiving, mesh_cache, cache>>

-------------------------------------------------------------------------------
(* get_endpoint and resolve_endpoint                                       *)

Found(u, e) == lookup' = [lookup EXCEPT ![u].at = "store", ![u].endpoint = e]
GoOn(u, l) == lookup' = [lookup EXCEPT ![u].at = l]
lookupUnchanged == UNCHANGED <<now, worldVars, lanVars, mesh_cache, cache>>

\* What an endpoint is worth when it is handed out.
HandOut(u, e) == lookup' = [lookup EXCEPT ![u] = [Waiting EXCEPT !.at = "done", !.endpoint = e,
                                                             !.age = now - e.known]]

\* A hit renews the entry; a slip no definition uses.
GetEndpoint_Renews(u) ==
  /\ lookup[u].at \in {"idle", "done"}
  /\ IF cache # Absent /\ now - cache.cached_at < ROUTER_TTL
     THEN HandOut(u, cache.endpoint) /\ cache' = [cache EXCEPT !.cached_at = now]
     ELSE /\ lookup' = [lookup EXCEPT ![u] =
                          [Waiting EXCEPT !.at = IF static = "Local" THEN "local" ELSE "tunnel",
                                          !.steady = healthy_peers]]
          /\ UNCHANGED cache
  /\ UNCHANGED <<now, worldVars, lanVars, mesh_cache>>

GetEndpoint(u) ==
  /\ lookup[u].at \in {"idle", "done"}
  /\ IF cache # Absent /\ now - cache.cached_at < ROUTER_TTL
     THEN HandOut(u, cache.endpoint)
     ELSE lookup' = [lookup EXCEPT ![u] =
                     [Waiting EXCEPT !.at = IF static = "Local" THEN "local" ELSE "tunnel",
                                     !.steady = healthy_peers]]
  /\ lookupUnchanged

LocalService(u) ==
  /\ lookup[u].at = "local"
  /\ Found(u, Endpoint("Local", now))
  /\ lookupUnchanged

CheckTunnel(u) ==
  /\ lookup[u].at = "tunnel"
  /\ IF tunnel THEN Found(u, Endpoint("Tunnel", now)) ELSE GoOn(u, "url")
  /\ lookupUnchanged

\* The URL is that of one provider, ...
CheckLanUrl(u) ==
  /\ lookup[u].at = "url"
  /\ \/ \E p \in get_service_provider :
          /\ discovered_peers[p] # Absent
          /\ lookup' = [lookup EXCEPT ![u].at = "provider",
                        ![u].endpoint = [source |-> "LanPeer",
                                         known |-> discovered_peers[p].verified,
                                         moved |-> discovered_peers[p].moved]]
     \/ get_service_provider = {} /\ GoOn(u, "mesh")
  /\ lookupUnchanged

\* ... whether it is healthy is asked of the provider found by a second look.
CheckLanPeer(u) ==
  /\ lookup[u].at = "provider"
  /\ \/ \E p \in get_service_provider :
          GoOn(u, IF discovered_peers[p].healthy THEN "store" ELSE "mesh")
     \/ get_service_provider = {} /\ GoOn(u, "mesh")
  /\ lookupUnchanged

CheckMesh(u) ==
  /\ lookup[u].at = "mesh"
  /\ IF mesh_cache # Absent /\ now - mesh_cache.cached_at < MESH_TTL
     THEN Found(u, mesh_cache.endpoint)
     ELSE lookup' = [lookup EXCEPT ![u].at = "request", ![u].since = now]
  /\ lookupUnchanged

\* The registry may have made up its answer any time after it was asked.
MeshResolved(u) ==
  /\ lookup[u].at = "request"
  /\ LET e == Endpoint("Mesh", lookup[u].since)
     IN  mesh_cache' = [endpoint |-> e, cached_at |-> now] /\ Found(u, e)
  /\ UNCHANGED <<now, worldVars, lanVars, cache>>

\* Refused, unreachable or too slow: what is configured, if anything.
MeshFails(u) ==
  /\ lookup[u].at = "request"
  /\ Found(u, Endpoint(static, now))
  /\ lookupUnchanged

StoreEndpoint(u) ==
  /\ lookup[u].at = "store"
  /\ cache' = [endpoint |-> lookup[u].endpoint, cached_at |-> now]
  /\ HandOut(u, lookup[u].endpoint)
  /\ UNCHANGED <<now, worldVars, lanVars, mesh_cache>>

-------------------------------------------------------------------------------
(* The peers, the tunnel and the time                                      *)

\* A broadcast may be lost: the next one takes its place.
Broadcast(p) ==
  /\ online[p] # Absent /\ events > 0
  /\ events' = events - 1
  /\ packet' = [packet EXCEPT ![p] = online[p]]
  /\ UNCHANGED <<now, online, tunnel, static, receiving, discovered_peers, cleanup_due,
                 mesh_cache, cache, lookup>>

\* A peer leaves, or comes back, at its old address or at a new one.
PeerChanges(p) ==
  /\ events > 0
  /\ events' = events - 1
  /\ \E a \in IF online[p] = Absent THEN {1, 2} ELSE {Absent} : online' = [online EXCEPT ![p] = a]
  /\ UNCHANGED <<now, tunnel, static, lanVars, mesh_cache, cache, lookup>>

TunnelChanges ==
  /\ events > 0
  /\ events' = events - 1
  /\ tunnel' = ~tunnel
  /\ UNCHANGED <<now, online, static, lanVars, mesh_cache, cache, lookup>>

\* Nobody has something to do at once, and no wait is over.
Elapse ==
  /\ now < MaxTime /\ now < cleanup_due
  /\ receiving # Absent => now < receiving.at + HEALTH_CHECK_TIMEOUT
  /\ \A u \in Users : \/ lookup[u].at \in {"idle", "done"}
                      \/ lookup[u].at = "request" /\ now < lookup[u].since + MESH_TIMEOUT
  /\ now' = now + 1
  /\ UNCHANGED <<worldVars, lanVars, mesh_cache, cache, lookup>>

DiscoveryNext ==
  \/ \E p \in Peers : Receive(p) \/ Broadcast(p) \/ PeerChanges(p)
  \/ VerifyPeer \/ CleanupPeers \/ TunnelChanges \/ Elapse
  \/ \E u \in Users : \/ GetEndpoint(u) \/ LocalService(u) \/ CheckTunnel(u)
                      \/ CheckLanUrl(u) \/ CheckLanPeer(u) \/ CheckMesh(u)
                      \/ MeshResolved(u) \/ MeshFails(u) \/ StoreEndpoint(u)

DiscoverySpec == DiscoveryInit /\ [][DiscoveryNext]_discoveryVars

-------------------------------------------------------------------------------
(* Properties                                                              *)

\* How old what is behind an endpoint may be when it is found: the timeouts and the
\* cache it has gone through one after the other.
AgeFound(source) ==
  IF source = "LanPeer" THEN PEER_TIMEOUT + CLEANUP_INTERVAL
  ELSE IF source = "Mesh" THEN MESH_TIMEOUT + MESH_TTL - 1
  ELSE 0

\* Whoever asks the router, while peers come and go, packets are delayed and
\* lookups overtake one another, gets an endpoint that was confirmed no longer ago
\* than the timeouts allow together: a peer by its health check, a mesh endpoint by
\* the registry.  A peer that has come back at another address is the exception:
\* the new address is checked, and the entry keeps the old one.
EndpointIsFresh ==
  \A u \in Users : LET e == lookup[u].endpoint IN
    lookup[u].at = "done" =>
      \/ lookup[u].age <= AgeFound(e.source) + ROUTER_TTL - 1
      \/ e.moved

\* A lookup does not pass over the LAN while one peer is healthy all the time,
\* although it looks twice and the entries of the others change in between.
SteadyPeerIsUsed ==
  \A u \in Users : lookup[u].at \in {"mesh", "request"} => lookup[u].steady = {}
===============================================================================
