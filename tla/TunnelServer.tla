----------------------------- MODULE TunnelServer -----------------------------
(***************************************************************************)
(* The tunnel server: one run_server task per WebSocket session            *)
(* (services/tunnel/server.rs), the map of connected clients               *)
(* (state/tunnel_state.rs) and the port listeners that outlive the         *)
(* sessions (state/port_listener_manager.rs).                              *)
(*                                                                         *)
(* A session stands for its own message channel: `clients` and `bound`     *)
(* hold the session whose ws_tx they keep, and ClientOf gives the          *)
(* client_id stored next to it.  A client introduces itself once, with     *)
(* Config (run_client) or, in the process that an update starts, with      *)
(* Takeover (run_client_takeover).  Every map and every listener has a     *)
(* lock of its own, so a step touches one of them.  Ports are bound in the *)
(* order of the client's configuration; the model takes every order.       *)
(* Traffic on the ports and the HTTP proxy are TunnelLink's.               *)
(***************************************************************************)
EXTENDS Integers, FiniteSets

CONSTANTS
  Sessions,            \* WebSocket sessions
  Clients,             \* client ids
  ClientOf,            \* the client id a session introduces itself with
  Ports,               \* remote ports
  PortsOf,             \* the remote ports in a client's mappings
  Takeovers,           \* the sessions that open with Takeover
  Unlistenable,        \* ports the operating system may refuse to listen on
  ConnectionsMayDrop,  \* can a session end without being told to?
  NoSession            \* an Option that is None

ASSUME TunnelAssumption ==
  /\ ClientOf \in [Sessions -> Clients]
  /\ PortsOf \in [Clients -> SUBSET Ports]
  /\ Takeovers \subseteq Sessions
  /\ Unlistenable \subseteq Ports
  /\ ConnectionsMayDrop \in BOOLEAN
  /\ NoSession \notin Sessions

VARIABLES
  pc,         \* where the run_server of each session is
  clients,    \* TunnelServerState.clients: client id -> session, or NoSession
  listening,  \* the keys of PortListenerManager.listeners
  bound,      \* bound_client of each listener: port -> session, or NoSession
  left,       \* the ports a session has still to bind, switch or unbind
  old,        \* the session a takeover found in `clients`
  told,       \* the sessions that have been sent TakeoverComplete
  met         \* sessions that overlapped another one of the same client

vars == <<pc, clients, listening, bound, left, old, told, met>>

SessionStates == {"idle", "open", "displacing", "joining", "binding",
                  "switching", "updating", "creating", "served", "leaving",
                  "unbinding", "unregistered", "gone"}

Mapped(s) == PortsOf[ClientOf[s]]

Init ==
  /\ pc = [s \in Sessions |-> "idle"]
  /\ clients = [c \in Clients |-> NoSession]
  /\ listening = {}
  /\ bound = [p \in Ports |-> NoSession]
  /\ left = [s \in Sessions |-> {}]
  /\ old = [s \in Sessions |-> NoSession]
  /\ told = {}
  /\ met = {}

\* A session's step from one point of run_server to the next.
At(s, from, to) == pc[s] = from /\ pc' = [pc EXCEPT ![s] = to]

\* switch_client_binding and unbind_client hold the read lock on `listeners`
\* over their loops; ensure_listener needs the write lock to add a listener.
ListenersReadLocked == \E s \in Sessions : pc[s] \in {"switching", "unbinding"}

-------------------------------------------------------------------------------
(* Slips a programmer could make.  No definition below uses them: each one *)
(* stands in for the operation it names when the properties are tested for *)
(* their power to notice it.                                               *)

\* unbind does not compare the client ids.
unbind_AnyClient(p, c) == bound' = [bound EXCEPT ![p] = NoSession]

\* The cleanup leaves the ports to the next client that binds them.
LeaveRemove_KeepsPorts(s) ==
  /\ At(s, "leaving", "unbinding")
  /\ clients' = [clients EXCEPT ![ClientOf[s]] = NoSession]
  /\ left' = [left EXCEPT ![s] = {}]
  /\ UNCHANGED <<listening, bound, old, told, met>>

\* A refused port ends the registration but not the client's entry.
ConfigRefused_KeepsClient(s) ==
  /\ At(s, "binding", "unregistered")
  /\ \E p \in left[s] : p \in Unlistenable \ listening
  /\ ~ ListenersReadLocked
  /\ left' = [left EXCEPT ![s] = {}]
  /\ UNCHANGED <<clients, listening, bound, old, told, met>>

\* TakeoverComplete is sent without asking whether there was an old session.
TakeoverCreate_TellsNobody(s) ==
  /\ At(s, "creating", "served")
  /\ clients' = [clients EXCEPT ![ClientOf[s]] = s]
  /\ told' = told \cup {old[s]}
  /\ UNCHANGED <<listening, bound, left, old, met>>

-------------------------------------------------------------------------------
(* TunnelServerState and PortListener                                      *)

has_client(c) == clients[c] # NoSession

add_client(c, s) == clients' = [clients EXCEPT ![c] = s]

remove_client(c) == clients' = [clients EXCEPT ![c] = NoSession]

\* PortListener::bind replaces whatever client was bound.
bind(p, s) == bound' = [bound EXCEPT ![p] = s]

\* PortListener::unbind compares client ids, not sessions.
unbind(p, c) ==
  bound' = [bound EXCEPT ![p] = IF @ # NoSession /\ ClientOf[@] = c
                                THEN NoSession ELSE @]

-------------------------------------------------------------------------------
(* run_server: the first message                                           *)

\* The WebSocket is accepted and run_server waits for the first message.
Connect(s) ==
  LET others == { t \in Sessions : /\ t # s
                                   /\ ClientOf[t] = ClientOf[s]
                                   /\ pc[t] \notin {"idle", "gone"} }
  IN  /\ At(s, "idle", "open")
      /\ met' = met \cup others \cup (IF others = {} THEN {} ELSE {s})
      /\ UNCHANGED <<clients, listening, bound, left, old, told>>

\* Config: is there a client of this id already?
ConfigCheck(s) ==
  /\ s \notin Takeovers
  /\ At(s, "open", IF has_client(ClientOf[s]) THEN "displacing" ELSE "joining")
  /\ UNCHANGED <<clients, listening, bound, left, old, told, met>>

ConfigDisplace(s) ==
  /\ At(s, "displacing", "joining")
  /\ remove_client(ClientOf[s])
  /\ UNCHANGED <<listening, bound, left, old, told, met>>

ConfigAdd(s) ==
  /\ At(s, "joining", "binding")
  /\ add_client(ClientOf[s], s)
  /\ left' = [left EXCEPT ![s] = Mapped(s)]
  /\ UNCHANGED <<listening, bound, old, told, met>>

\* bind_ports_for_client, one port: ensure_listener and bind.
ConfigBind(s) ==
  /\ pc[s] = "binding"
  /\ \E p \in left[s] :
       /\ p \in listening \/ ~ ListenersReadLocked
       /\ listening' = listening \cup {p}
       /\ bind(p, s)
       /\ left' = [left EXCEPT ![s] = @ \ {p}]
  /\ UNCHANGED <<pc, clients, old, told, met>>

\* ensure_listener fails after its retries: the client's entry is removed, the
\* session stays open without a client id, and what was bound stays bound.
ConfigRefused(s) ==
  /\ At(s, "binding", "unregistered")
  /\ \E p \in left[s] : p \in Unlistenable \ listening
  /\ ~ ListenersReadLocked
  /\ remove_client(ClientOf[s])
  /\ left' = [left EXCEPT ![s] = {}]
  /\ UNCHANGED <<listening, bound, old, told, met>>

ConfigDone(s) ==
  /\ left[s] = {}
  /\ At(s, "binding", "served")
  /\ UNCHANGED <<clients, listening, bound, left, old, told, met>>

\* Takeover: the old session's channel is looked up, switch_client_binding
\* begins.
TakeoverBegin(s) ==
  /\ s \in Takeovers
  /\ At(s, "open", "switching")
  /\ old' = [old EXCEPT ![s] = clients[ClientOf[s]]]
  /\ left' = [left EXCEPT ![s] = Mapped(s)]
  /\ UNCHANGED <<clients, listening, bound, told, met>>

\* One port: bound to the new session, whoever had it, if it has a listener.
TakeoverSwitch(s) ==
  /\ pc[s] = "switching"
  /\ \E p \in left[s] :
       /\ IF p \in listening THEN bind(p, s) ELSE UNCHANGED bound
       /\ left' = [left EXCEPT ![s] = @ \ {p}]
  /\ UNCHANGED <<pc, clients, listening, old, told, met>>

\* No port switched: TakeoverFailed, and the session stays without a client id.
\* Otherwise, has the client an entry?
TakeoverOutcome(s) ==
  /\ left[s] = {}
  /\ At(s, "switching",
        IF Mapped(s) # {} /\ Mapped(s) \cap listening = {} THEN "unregistered"
        ELSE IF has_client(ClientOf[s]) THEN "updating" ELSE "creating")
  /\ UNCHANGED <<clients, listening, bound, left, old, told, met>>

\* TakeoverReady to the new session, TakeoverComplete to the old one.
TellOld(s) == told' = told \cup ({old[s]} \ {NoSession})

\* get_mut: the entry is given the new channel if it is still there.
TakeoverUpdate(s) ==
  /\ At(s, "updating", "served")
  /\ clients' = [clients EXCEPT ![ClientOf[s]] = IF @ = NoSession THEN @ ELSE s]
  /\ TellOld(s)
  /\ UNCHANGED <<listening, bound, left, old, met>>

TakeoverCreate(s) ==
  /\ At(s, "creating", "served")
  /\ add_client(ClientOf[s], s)
  /\ TellOld(s)
  /\ UNCHANGED <<listening, bound, left, old, met>>

-------------------------------------------------------------------------------
(* run_server: the end of the session                                      *)

\* The client was told that another process has taken over, and closes; only
\* run_client listens for that message, run_client_takeover does not.  Or the
\* connection is lost.  A session without a client id has nothing to clean up.
SessionEnds(s) ==
  /\ ConnectionsMayDrop \/ s \in told \ Takeovers
  /\ \/ At(s, "served", "leaving")
     \/ At(s, "open", "gone")
     \/ At(s, "unregistered", "gone")
  /\ UNCHANGED <<clients, listening, bound, left, old, told, met>>

\* The cleanup goes by client id: whatever session has the entry now.
LeaveRemove(s) ==
  /\ At(s, "leaving", "unbinding")
  /\ remove_client(ClientOf[s])
  /\ left' = [left EXCEPT ![s] = listening]
  /\ UNCHANGED <<listening, bound, old, told, met>>

\* unbind_client, one listener.
LeaveUnbind(s) ==
  /\ pc[s] = "unbinding"
  /\ \E p \in left[s] :
       /\ unbind(p, ClientOf[s])
       /\ left' = [left EXCEPT ![s] = @ \ {p}]
  /\ UNCHANGED <<pc, clients, listening, old, told, met>>

LeaveDone(s) ==
  /\ left[s] = {}
  /\ At(s, "unbinding", "gone")
  /\ UNCHANGED <<clients, listening, bound, left, old, told, met>>

-------------------------------------------------------------------------------
Config(s) ==
  \/ ConfigCheck(s)
  \/ ConfigDisplace(s)
  \/ ConfigAdd(s)
  \/ ConfigBind(s)
  \/ ConfigRefused(s)
  \/ ConfigDone(s)

Takeover(s) ==
  \/ TakeoverBegin(s)
  \/ TakeoverSwitch(s)
  \/ TakeoverOutcome(s)
  \/ TakeoverUpdate(s)
  \/ TakeoverCreate(s)

Leave(s) == LeaveRemove(s) \/ LeaveUnbind(s) \/ LeaveDone(s)

\* Every session of the model is over, or waits for its client.
Settled == \A s \in Sessions : pc[s] \in {"served", "unregistered", "gone"}

Next ==
  \/ \E s \in Sessions : \/ Connect(s)
                         \/ Config(s)
                         \/ Takeover(s)
                         \/ SessionEnds(s)
                         \/ Leave(s)
  \/ Settled /\ UNCHANGED vars

Spec == Init /\ [][Next]_vars

-------------------------------------------------------------------------------
(* Safety                                                                  *)

\* The type of every map and program counter of the server.
TypeOK ==
  /\ pc \in [Sessions -> SessionStates]
  /\ clients \in [Clients -> Sessions \cup {NoSession}]
  /\ listening \in SUBSET Ports
  /\ bound \in [Ports -> Sessions \cup {NoSession}]
  /\ left \in [Sessions -> SUBSET Ports]
  /\ old \in [Sessions -> Sessions \cup {NoSession}]
  /\ told \in SUBSET Sessions
  /\ met \in SUBSET Sessions

\* The session's cleanup will still visit the port.
WillUnbind(s, p) ==
  \/ pc[s] \in {"binding", "switching", "updating", "creating", "served",
                "leaving"}
  \/ pc[s] = "unbinding" /\ p \in left[s]

\* The session can only be refused a registration half done if one of its ports
\* may be refused.
AlwaysListens(s) == Mapped(s) \cap Unlistenable = {}

\* However sessions of one client or of several displace each other, a port is
\* never left bound to the channel of a session that will not unbind it: such a
\* port would go on accepting connections that nobody serves.  (A client that
\* is refused one of its ports is the exception, see ConfigRefused.)
PortBindingHasOwner ==
  \A p \in Ports :
    bound[p] # NoSession /\ AlwaysListens(bound[p]) => WillUnbind(bound[p], p)

\* The map of clients, by which the HTTP proxy finds its channel, never keeps a
\* session that is over or has no client id.
ClientEntryHasOwner ==
  \A c \in Clients :
    has_client(c) => /\ ClientOf[clients[c]] = c
                     /\ pc[clients[c]] \in {"binding", "served", "leaving"}

\* Another client maps the port too.
Contested(p, c) == \E d \in Clients \ {c} : p \in PortsOf[d]

\* A session that never overlapped with another one of its client is found by
\* the proxy, and has every port it mapped that has a listener and that no
\* other client maps: no other client's comings and goings take them away.
SoloSessionIsReachable ==
  \A s \in Sessions \ met :
    pc[s] = "served" =>
      /\ clients[ClientOf[s]] = s
      /\ \A p \in Mapped(s) \cap listening :
           bound[p] = s \/ Contested(p, ClientOf[s])

-------------------------------------------------------------------------------
(* What the repository says and the code does not do                       *)

\* "New requests use the new process seamlessly": while the session that has
\* taken a port over is open, the port is not left without a client.
TakeoverKeepsPorts ==
  [][ \A s \in Takeovers, p \in Ports :
        pc[s] = "served" /\ bound[p] = s => bound'[p] # NoSession ]_vars
===============================================================================
