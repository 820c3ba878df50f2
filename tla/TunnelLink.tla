------------------------------- MODULE TunnelLink -------------------------------
(***************************************************************************)
(* Traffic through one tunnel: user connections on a port of the server    *)
(* (state/port_listener_manager.rs), proxied HTTP requests (api/tunnel.rs) *)
(* and the client that serves both from its local services                 *)
(* (services/tunnel/client.rs).  TunnelServer models who owns the port;    *)
(* here one client owns it, loses its WebSocket and comes back.            *)
(*                                                                         *)
(* A message passes the server's channel, the wire, the client's loop, and *)
(* the other way round the client's channel, the wire, the server's loop.  *)
(* A loop does one thing at a time: while it waits for room in the channel *)
(* of a connection, or on the wire, it neither reads nor writes.  A task   *)
(* that waits for room in the server's channel holds a read lock, on       *)
(* bound_client or on clients, that the session's cleanup needs to write.  *)
(* Pings are left out; the n-th chunk a peer writes is the number n.  A    *)
(* client that returns before its old session is cleaned up is the subject *)
(* of TunnelServer; here it returns after that.                            *)
(***************************************************************************)
EXTENDS Integers, Sequences, FiniteSets

CONSTANTS
  Conns,        \* user connections
  Reqs,         \* proxied HTTP requests
  ChanCap,      \* room in the channels of the two loops (256 in the code)
  DataCap,      \* room in the channel of a connection (64 in the code)
  WireCap,      \* room on the wire in each direction
  MaxChunks,    \* bound on the chunks the two peers of a connection write
  MaxDrops,     \* bound on the times the WebSocket is lost
  None

\* The messages of the server, those of the client, and what a loop may hold.
DownMsgs ==
  [kind : {"Connect", "Data", "Close"}, id : Conns, n : Nat] \cup
  [kind : {"HttpRequest"}, id : Reqs, n : {0}]
UpMsgs ==
  [kind : {"Connected", "ConnectFailed", "Data", "Close"}, id : Conns, n : Nat] \cup
  [kind : {"HttpResponse"}, id : Reqs, n : {0}]
Chunks == [kind : {"Data"}, id : Conns, n : Nat]
ServerHolds == [to : {"wire"}, m : DownMsgs] \cup [to : {"conn"}, m : Chunks]
ClientHolds == [to : {"wire"}, m : UpMsgs] \cup [to : {"conn"}, m : Chunks]

ASSUME LinkAssumption ==
  /\ {ChanCap, DataCap, WireCap} \subseteq Nat \ {0}
  /\ {MaxChunks, MaxDrops} \subseteq Nat
  /\ None \notin ServerHolds \cup ClientHolds

VARIABLES
  wire,      \* is the WebSocket up?
  sess,      \* the server's session: "up", "leaving", "unbinding" or "down"
  cli,       \* the client's run_client: "up" or "down"
  msg, down, \* server to client: the session's channel, and what is on the wire
  local, up, \* client to server: local_tx, and what is on the wire
  sBusy,     \* what the server's loop is waiting to hand on, or None
  cBusy,     \* what the client's loop is waiting to hand on, or None
  srv,       \* handle_connection of each connection, and its tasks
  user,      \* the user's end of each connection
  tun,       \* the client's task of each connection, and its tasks
  svc,       \* the local service's end of each connection
  req,       \* the proxy handler of each request ("failed": answered with an error)
  pendingReq,\* pending_http_requests
  serving,   \* where the client is with each request
  drops      \* losses to come

linkVars == <<wire, sess, cli, msg, down, local, up, sBusy, cBusy, srv, user, tun,
              svc, req, pendingReq, serving, drops>>
wireVars == <<wire, sess, cli, drops>>
sideVars == <<srv, user, tun, svc>>
httpVars == <<req, pendingReq, serving>>
queueVars == <<msg, down, local, up, sBusy, cBusy>>

Peer == [open |-> "new", sent |-> 0, got |-> <<>>]

LinkInit ==
  /\ wire = TRUE /\ sess = "up" /\ cli = "up"
  /\ msg = <<>> /\ down = <<>> /\ local = <<>> /\ up = <<>>
  /\ sBusy = None /\ cBusy = None
  /\ srv = [c \in Conns |-> [at |-> "none", reader |-> "off", writer |-> "off",
                             active |-> FALSE, pending |-> FALSE,
                             ready |-> FALSE, queue |-> <<>>]]
  /\ tun = [c \in Conns |-> [at |-> "none", reader |-> "off", writer |-> "off",
                             entry |-> FALSE, stale |-> FALSE, queue |-> <<>>]]
  /\ user = [c \in Conns |-> Peer]
  /\ svc = [c \in Conns |-> Peer]
  /\ req = [q \in Reqs |-> "new"]
  /\ pendingReq = {}
  /\ serving = [q \in Reqs |-> "no"]
  /\ drops = MaxDrops

Msg(kind, id, n) == [kind |-> kind, id |-> id, n |-> n]

-------------------------------------------------------------------------------
(* Locks of the server                                                     *)

\* The tasks that are inside send_to_client, with bound_client read-locked.
PortSenders == { c \in Conns : srv[c].at = "connecting" \/ srv[c].reader \in {"sending", "saying bye"} }

\* The proxy handlers that hold the read lock on clients.
ProxySenders == { q \in Reqs : req[q] \in {"reading", "sending"} }

\* A writer that waits keeps new readers out.
bound_client_readable == sess # "unbinding"
clients_readable == sess # "leaving"

reachable == sess \in {"up", "leaving", "unbinding"}

\* The server's loop holds active_connections, the client's local_connections,
\* for reading while it waits for room in the channel of a connection.
active_connections_free == sBusy # None => sBusy.to = "wire"
local_connections_free(c) == ~tun[c].stale /\ cBusy # None => cBusy.to = "wire"

\* The session's receiver lives until run_server returns.
send_to_client(m, sent, failed) ==
  \/ /\ reachable /\ Len(msg) < ChanCap
     /\ msg' = Append(msg, m) /\ sent
  \/ /\ ~reachable
     /\ msg' = msg /\ failed

-------------------------------------------------------------------------------
(* Slips, each of the operation it is named after; no definition uses them. *)

\* The client confirms before it registers the connection.
ConnectLocal_ConfirmsFirst(c) ==
  /\ \/ /\ tun[c].at = "connecting" /\ ~tun[c].stale /\ Len(local) < ChanCap
        /\ local' = Append(local, Msg("Connected", c, 0))
        /\ tun' = [tun EXCEPT ![c].at = "confirmed"]
        /\ svc' = [svc EXCEPT ![c].open = "open"]
     \/ /\ tun[c].at = "confirmed"
        /\ tun' = [tun EXCEPT ![c].at = "forwarding", ![c].entry = TRUE,
                              ![c].reader = "on", ![c].writer = "on"]
        /\ UNCHANGED <<local, svc>>
  /\ UNCHANGED <<wireVars, msg, down, up, sBusy, cBusy, srv, user, httpVars>>

\* A timeout leaves the connection among the active ones.
ReadyTimeout_Forgets(c) ==
  /\ srv[c].at = "refused" \/ (srv[c].at = "waiting" /\ ~srv[c].ready)
  /\ srv' = [srv EXCEPT ![c].at = "ended", ![c].pending = FALSE]
  /\ user' = [user EXCEPT ![c].open = "closed"]
  /\ UNCHANGED <<wireVars, queueVars, tun, svc, httpVars>>

\* The write task does not wait for the channel to be closed.
WriteUserEnds_WhenEmpty(c) ==
  /\ srv[c].writer = "on" /\ srv[c].queue = <<>>
  /\ srv' = [srv EXCEPT ![c].writer = "ended"]
  /\ UNCHANGED <<wireVars, queueVars, user, tun, svc, httpVars>>

\* The timeout does not take the request out of the map.
ProxyTimeout_Leaves(q) ==
  /\ req[q] = "waiting"
  /\ req' = [req EXCEPT ![q] = "timeout"]
  /\ UNCHANGED <<wireVars, queueVars, sideVars, pendingReq, serving>>

-------------------------------------------------------------------------------
(* PortListener: accept and handle_connection                              *)

\* run_accept_loop drops the stream if no client is bound.
Accept(c) ==
  /\ user[c].open = "new" /\ bound_client_readable
  /\ IF reachable
     THEN /\ user' = [user EXCEPT ![c].open = "open"]
          /\ srv' = [srv EXCEPT ![c].at = "accepted"]
     ELSE /\ user' = [user EXCEPT ![c].open = "closed"]
          /\ srv' = srv
  /\ UNCHANGED <<wireVars, queueVars, tun, svc, httpVars>>

\* Registered before the client is told; then the task is in send_to_client.
Register(c) ==
  /\ srv[c].at = "accepted" /\ active_connections_free /\ bound_client_readable
  /\ srv' = [srv EXCEPT ![c].at = "connecting", ![c].active = TRUE, ![c].pending = TRUE]
  /\ UNCHANGED <<wireVars, queueVars, user, tun, svc, httpVars>>

\* cleanup_connection: both maps forget it; the sender in active_connections
\* was the last one, so the write task ends when it has emptied the channel.
cleanup_connection(conn) == [conn EXCEPT !.active = FALSE, !.pending = FALSE]

SendConnect(c) ==
  /\ srv[c].at = "connecting"
  /\ send_to_client(Msg("Connect", c, 0),
        srv' = [srv EXCEPT ![c].at = "waiting"],
        srv' = [srv EXCEPT ![c].at = "refused"])
  /\ UNCHANGED <<wireVars, down, local, up, sBusy, cBusy, user, tun, svc, httpVars>>

ConnectionReady(c) ==
  /\ srv[c].at = "waiting" /\ srv[c].ready
  /\ srv' = [srv EXCEPT ![c].at = "forwarding", ![c].reader = "on", ![c].writer = "on"]
  /\ UNCHANGED <<wireVars, queueVars, user, tun, svc, httpVars>>

\* No client, ready_tx dropped (ConnectFailed), or 30 s without an answer: the
\* stream closes.  The client is not told.
ReadyTimeout(c) ==
  /\ srv[c].at = "refused" \/ (srv[c].at = "waiting" /\ ~srv[c].ready)
  /\ active_connections_free
  /\ srv' = [srv EXCEPT ![c] = [cleanup_connection(@) EXCEPT !.at = "ended"]]
  /\ user' = [user EXCEPT ![c].open = "closed"]
  /\ UNCHANGED <<wireVars, queueVars, tun, svc, httpVars>>

\* The read task gets a chunk and enters send_to_client with it.
ReadUser(c) ==
  /\ srv[c].reader = "on" /\ user[c].open = "open" /\ user[c].sent + svc[c].sent < MaxChunks
  /\ bound_client_readable
  /\ user' = [user EXCEPT ![c].sent = @ + 1]
  /\ srv' = [srv EXCEPT ![c].reader = "sending"]
  /\ UNCHANGED <<wireVars, queueVars, tun, svc, httpVars>>

SendUserData(c) ==
  /\ srv[c].reader = "sending"
  /\ send_to_client(Msg("Data", c, user[c].sent),
                    srv' = [srv EXCEPT ![c].reader = "on"],
                    srv' = [srv EXCEPT ![c].reader = "closing"])
  /\ UNCHANGED <<wireVars, down, local, up, sBusy, cBusy, user, tun, svc, httpVars>>

\* Ok(0) or an error: the user has closed.
ReadUserEnds(c) ==
  /\ srv[c].reader = "on" /\ user[c].open = "closed"
  /\ srv' = [srv EXCEPT ![c].reader = "closing"]
  /\ UNCHANGED <<wireVars, queueVars, user, tun, svc, httpVars>>

EnterClose(c) ==
  /\ srv[c].reader = "closing" /\ bound_client_readable
  /\ srv' = [srv EXCEPT ![c].reader = "saying bye"]
  /\ UNCHANGED <<wireVars, queueVars, user, tun, svc, httpVars>>

SendClose(c) ==
  /\ srv[c].reader = "saying bye"
  /\ LET over == srv' = [srv EXCEPT ![c].reader = "ended"]
     IN  send_to_client(Msg("Close", c, 0), over, over)
  /\ UNCHANGED <<wireVars, down, local, up, sBusy, cBusy, user, tun, svc, httpVars>>

\* The write task hands a chunk to the user, or fails because he has closed.
WriteUser(c) ==
  /\ srv[c].writer = "on" /\ srv[c].queue # <<>>
  /\ IF user[c].open = "open"
     THEN /\ user' = [user EXCEPT ![c].got = Append(@, Head(srv[c].queue))]
          /\ srv' = [srv EXCEPT ![c].queue = Tail(@)]
     ELSE /\ srv' = [srv EXCEPT ![c].writer = "ended", ![c].queue = <<>>]
          /\ user' = user
  /\ UNCHANGED <<wireVars, queueVars, tun, svc, httpVars>>

WriteUserEnds(c) ==
  /\ srv[c].writer = "on" /\ srv[c].queue = <<>> /\ ~srv[c].active
  /\ srv' = [srv EXCEPT ![c].writer = "ended"]
  /\ UNCHANGED <<wireVars, queueVars, user, tun, svc, httpVars>>

\* select!: the first task to end ends the handler; the other is detached.
HandlerEnds(c) ==
  /\ srv[c].at = "forwarding"
  /\ srv[c].reader = "ended" \/ srv[c].writer = "ended"
  /\ active_connections_free
  /\ srv' = [srv EXCEPT ![c] = [cleanup_connection(@) EXCEPT !.at = "ended"]]
  /\ UNCHANGED <<wireVars, queueVars, user, tun, svc, httpVars>>

CloseUser(c) ==
  /\ user[c].open = "open"
  /\ user' = [user EXCEPT ![c].open = "closed"]
  /\ UNCHANGED <<wireVars, queueVars, srv, tun, svc, httpVars>>

ServerConnStep(c) ==
  \/ Register(c) \/ SendConnect(c) \/ ConnectionReady(c) \/ ReadyTimeout(c)
  \/ SendUserData(c) \/ ReadUserEnds(c) \/ EnterClose(c) \/ SendClose(c)
  \/ WriteUser(c) \/ WriteUserEnds(c) \/ HandlerEnds(c)

-------------------------------------------------------------------------------
(* tunnel_proxy_handler                                                    *)

\* From here to the end of the send the handler has clients read-locked.
ProxyRequest(q) ==
  /\ req[q] = "new" /\ clients_readable
  /\ req' = [req EXCEPT ![q] = IF sess = "up" THEN "reading" ELSE "failed"]
  /\ UNCHANGED <<wireVars, queueVars, sideVars, pendingReq, serving>>

\* The body has arrived and the request is registered, or it could not be read.
ProxyReadBody(q) ==
  /\ req[q] = "reading"
  /\ \/ req' = [req EXCEPT ![q] = "sending"] /\ pendingReq' = pendingReq \cup {q}
     \/ req' = [req EXCEPT ![q] = "failed"] /\ pendingReq' = pendingReq
  /\ UNCHANGED <<wireVars, queueVars, sideVars, serving>>

\* The send cannot fail: the session keeps its receiver until it has removed the
\* client, and for that it waits for this lock.
ProxySend(q) ==
  /\ req[q] = "sending" /\ Len(msg) < ChanCap
  /\ msg' = Append(msg, Msg("HttpRequest", q, 0))
  /\ req' = [req EXCEPT ![q] = "waiting"]
  /\ UNCHANGED <<wireVars, down, local, up, sBusy, cBusy, sideVars, pendingReq, serving>>

ProxyTimeout(q) ==
  /\ req[q] = "waiting"
  /\ req' = [req EXCEPT ![q] = "timeout"]
  /\ pendingReq' = pendingReq \ {q}
  /\ UNCHANGED <<wireVars, queueVars, sideVars, serving>>

\* The caller goes away: axum drops the handler where it waits.
ProxyDropped(q) ==
  /\ req[q] \in {"reading", "sending", "waiting"}
  /\ req' = [req EXCEPT ![q] = "dropped"]
  /\ UNCHANGED <<wireVars, queueVars, sideVars, pendingReq, serving>>

-------------------------------------------------------------------------------
(* run_server: the loop of the session                                     *)

ServerSends ==
  /\ sess = "up" /\ sBusy = None /\ msg # <<>>
  /\ sBusy' = [to |-> "wire", m |-> Head(msg)]
  /\ msg' = Tail(msg)
  /\ UNCHANGED <<wireVars, down, local, up, cBusy, sideVars, httpVars>>

ServerSent ==
  /\ sess = "up" /\ wire /\ sBusy # None /\ sBusy.to = "wire"
  /\ Len(down) < WireCap
  /\ down' = Append(down, sBusy.m)
  /\ sBusy' = None
  /\ UNCHANGED <<wireVars, msg, local, up, cBusy, sideVars, httpVars>>

\* PortListener's handle_client_message; Data is handed on by ServerDelivers.
listener_handles(m) ==
  CASE m.kind = "Connected" /\ srv[m.id].pending ->
         [srv EXCEPT ![m.id].pending = FALSE, ![m.id].ready = TRUE]
    [] m.kind = "ConnectFailed" -> [srv EXCEPT ![m.id] = cleanup_connection(@)]
    [] m.kind = "Close" -> [srv EXCEPT ![m.id].active = FALSE]
    [] OTHER -> srv

\* HttpResponse and HttpError: the handler that waits for it gets the answer.
answered(q) ==
  /\ pendingReq' = pendingReq \ {q}
  /\ req' = IF q \in pendingReq /\ req[q] = "waiting"
            THEN [req EXCEPT ![q] = "answered"] ELSE req

ServerReceives ==
  /\ sess = "up" /\ sBusy = None /\ up # <<>>
  /\ up' = Tail(up)
  /\ LET m == Head(up)
     IN  /\ sBusy' = IF m.kind = "Data" /\ srv[m.id].active
                     THEN [to |-> "conn", m |-> m] ELSE None
         /\ srv' = listener_handles(m)
         /\ IF m.kind = "HttpResponse" THEN answered(m.id) ELSE UNCHANGED <<pendingReq, req>>
  /\ UNCHANGED <<wireVars, msg, down, local, cBusy, user, tun, svc, serving>>

\* There is room in the connection's channel, or its write task is gone.
ServerDelivers ==
  /\ sBusy # None /\ sBusy.to = "conn"
  /\ LET c == sBusy.m.id
     IN  \/ /\ srv[c].writer # "ended" /\ Len(srv[c].queue) < DataCap
            /\ srv' = [srv EXCEPT ![c].queue = Append(@, sBusy.m.n)]
         \/ /\ srv[c].writer = "ended"
            /\ srv' = srv
  /\ sBusy' = None
  /\ UNCHANGED <<wireVars, msg, down, local, up, cBusy, user, tun, svc, httpVars>>

\* The loop sees that the WebSocket is gone, by reading or by writing; what it
\* has not read by then is lost.
ServerLeaves ==
  /\ sess = "up" /\ ~wire
  /\ (sBusy # None => sBusy.to = "wire")
  /\ sess' = "leaving" /\ sBusy' = None /\ up' = <<>>
  /\ UNCHANGED <<wire, cli, drops, msg, down, local, cBusy, sideVars, httpVars>>

\* remove_client, then unbind_client; the receiver of msg goes with the session.
RemoveClient ==
  /\ sess = "leaving" /\ ProxySenders = {}
  /\ sess' = "unbinding"
  /\ UNCHANGED <<wire, cli, drops, queueVars, sideVars, httpVars>>

UnbindClient ==
  /\ sess = "unbinding" /\ PortSenders = {}
  /\ sess' = "down" /\ msg' = <<>>
  /\ UNCHANGED <<wire, cli, drops, down, local, up, sBusy, cBusy, sideVars, httpVars>>

ServerStep ==
  \/ ServerSends \/ ServerSent \/ ServerReceives \/ ServerDelivers
  \/ ServerLeaves \/ RemoveClient \/ UnbindClient

-------------------------------------------------------------------------------
(* run_client and handle_server_message                                    *)

ClientSends ==
  /\ cli = "up" /\ cBusy = None /\ local # <<>>
  /\ cBusy' = [to |-> "wire", m |-> Head(local)]
  /\ local' = Tail(local)
  /\ UNCHANGED <<wireVars, msg, down, up, sBusy, sideVars, httpVars>>

ClientSent ==
  /\ cli = "up" /\ wire /\ cBusy # None /\ cBusy.to = "wire"
  /\ Len(up) < WireCap
  /\ up' = Append(up, cBusy.m)
  /\ cBusy' = None
  /\ UNCHANGED <<wireVars, msg, down, local, sBusy, sideVars, httpVars>>

\* handle_server_message: Connect and HttpRequest start a task, Data is handed on
\* by ClientDelivers.  The server binds only ports of the client's mappings, so
\* the answer to a Connect for another port is left out.
handle_server_message(m) ==
  /\ tun' = CASE m.kind = "Connect" -> [tun EXCEPT ![m.id].at = "connecting"]
              [] m.kind = "Close" /\ ~tun[m.id].stale -> [tun EXCEPT ![m.id].entry = FALSE]
              [] OTHER -> tun
  /\ serving' = IF m.kind = "HttpRequest"
                THEN [serving EXCEPT ![m.id] = "asking"] ELSE serving

ClientReceives ==
  /\ cli = "up" /\ cBusy = None /\ down # <<>>
  /\ down' = Tail(down)
  /\ LET m == Head(down)
     IN  /\ cBusy' = IF m.kind = "Data" /\ tun[m.id].entry /\ ~tun[m.id].stale
                     THEN [to |-> "conn", m |-> m] ELSE None
         /\ handle_server_message(m)
  /\ UNCHANGED <<wireVars, msg, local, up, sBusy, srv, user, svc, req, pendingReq>>

ClientDelivers ==
  /\ cBusy # None /\ cBusy.to = "conn"
  /\ LET c == cBusy.m.id
     IN  \/ /\ tun[c].writer # "ended" /\ Len(tun[c].queue) < DataCap
            /\ tun' = [tun EXCEPT ![c].queue = Append(@, cBusy.m.n)]
         \/ /\ tun[c].writer = "ended"
            /\ tun' = tun
  /\ cBusy' = None
  /\ UNCHANGED <<wireVars, msg, down, local, up, sBusy, srv, user, svc, httpVars>>

\* The loop ends: local_connections is cleared, local_rx goes with it, and so
\* every task it started holds a closed local_tx and a map nobody reads.
ClientLeaves ==
  /\ cli = "up" /\ ~wire
  /\ (cBusy # None => cBusy.to = "wire")
  /\ cli' = "down" /\ cBusy' = None /\ local' = <<>> /\ down' = <<>>
  /\ tun' = [c \in Conns |-> [tun[c] EXCEPT !.entry = FALSE, !.stale = @ \/ tun[c].at # "none"]]
  /\ serving' = [q \in Reqs |-> IF serving[q] = "asking" THEN "done" ELSE serving[q]]
  /\ UNCHANGED <<wire, sess, drops, msg, up, sBusy, srv, user, svc, req, pendingReq>>

\* Sending into local_tx: room, or an error once the loop has gone.
to_server(stale, m, sent, failed) ==
  \/ /\ ~stale /\ Len(local) < ChanCap
     /\ local' = Append(local, m) /\ sent
  \/ /\ stale
     /\ local' = local /\ failed

\* The local connection is registered before the server is told.
ConnectLocal(c) ==
  /\ tun[c].at = "connecting"
  /\ local_connections_free(c)
  /\ tun' = [tun EXCEPT ![c].at = "announcing", ![c].entry = TRUE]
  /\ svc' = [svc EXCEPT ![c].open = "open"]
  /\ UNCHANGED <<wireVars, queueVars, srv, user, httpVars>>

ConnectLocalFails(c) ==
  /\ tun[c].at = "connecting"
  /\ LET over == tun' = [tun EXCEPT ![c].at = "ended"]
     IN  to_server(tun[c].stale, Msg("ConnectFailed", c, 0), over, over)
  /\ UNCHANGED <<wireVars, msg, down, up, sBusy, cBusy, srv, user, svc, httpVars>>

Announce(c) ==
  /\ tun[c].at = "announcing"
  /\ LET on == tun' = [tun EXCEPT ![c].at = "forwarding", ![c].reader = "on", ![c].writer = "on"]
     IN  to_server(tun[c].stale, Msg("Connected", c, 0), on, on)
  /\ UNCHANGED <<wireVars, msg, down, up, sBusy, cBusy, srv, user, svc, httpVars>>

ReadLocal(c) ==
  /\ tun[c].reader = "on" /\ svc[c].open = "open" /\ user[c].sent + svc[c].sent < MaxChunks
  /\ svc' = [svc EXCEPT ![c].sent = @ + 1]
  /\ tun' = [tun EXCEPT ![c].reader = "sending"]
  /\ UNCHANGED <<wireVars, queueVars, srv, user, httpVars>>

SendLocalData(c) ==
  /\ tun[c].reader = "sending"
  /\ to_server(tun[c].stale, Msg("Data", c, svc[c].sent),
               tun' = [tun EXCEPT ![c].reader = "on"],
               tun' = [tun EXCEPT ![c].reader = "closing"])
  /\ UNCHANGED <<wireVars, msg, down, up, sBusy, cBusy, srv, user, svc, httpVars>>

ReadLocalEnds(c) ==
  /\ tun[c].reader = "on" /\ svc[c].open = "closed"
  /\ tun' = [tun EXCEPT ![c].reader = "closing"]
  /\ UNCHANGED <<wireVars, queueVars, srv, user, svc, httpVars>>

SendLocalClose(c) ==
  /\ tun[c].reader = "closing"
  /\ LET over == tun' = [tun EXCEPT ![c].reader = "removing"]
     IN  to_server(tun[c].stale, Msg("Close", c, 0), over, over)
  /\ UNCHANGED <<wireVars, msg, down, up, sBusy, cBusy, srv, user, svc, httpVars>>

LocalReaderRemoves(c) ==
  /\ tun[c].reader = "removing"
  /\ local_connections_free(c)
  /\ tun' = [tun EXCEPT ![c].reader = "ended", ![c].entry = FALSE]
  /\ UNCHANGED <<wireVars, queueVars, srv, user, svc, httpVars>>

WriteLocal(c) ==
  /\ tun[c].writer = "on" /\ tun[c].queue # <<>>
  /\ IF svc[c].open = "open"
     THEN /\ svc' = [svc EXCEPT ![c].got = Append(@, Head(tun[c].queue))]
          /\ tun' = [tun EXCEPT ![c].queue = Tail(@)]
     ELSE /\ tun' = [tun EXCEPT ![c].writer = "ended", ![c].queue = <<>>]
          /\ svc' = svc
  /\ UNCHANGED <<wireVars, queueVars, srv, user, httpVars>>

WriteLocalEnds(c) ==
  /\ tun[c].writer = "on" /\ tun[c].queue = <<>> /\ ~tun[c].entry
  /\ tun' = [tun EXCEPT ![c].writer = "ended"]
  /\ UNCHANGED <<wireVars, queueVars, srv, user, svc, httpVars>>

CloseService(c) ==
  /\ svc[c].open = "open"
  /\ svc' = [svc EXCEPT ![c].open = "closed"]
  /\ UNCHANGED <<wireVars, queueVars, srv, user, tun, httpVars>>

\* The local agent has answered, or could not be reached (HttpError).
AnswerRequest(q) ==
  /\ serving[q] = "asking"
  /\ LET over == serving' = [serving EXCEPT ![q] = "done"]
     IN  to_server(FALSE, Msg("HttpResponse", q, 0), over, over)
  /\ UNCHANGED <<wireVars, msg, down, up, sBusy, cBusy, sideVars, req, pendingReq>>

ClientStep ==
  \/ ClientSends \/ ClientSent \/ ClientReceives \/ ClientDelivers \/ ClientLeaves

ClientConnStep(c) ==
  \/ ConnectLocal(c) \/ ConnectLocalFails(c) \/ Announce(c)
  \/ SendLocalData(c) \/ ReadLocalEnds(c) \/ SendLocalClose(c) \/ LocalReaderRemoves(c)
  \/ WriteLocal(c) \/ WriteLocalEnds(c)

-------------------------------------------------------------------------------
(* The WebSocket                                                           *)

Lose ==
  /\ wire /\ drops > 0
  /\ wire' = FALSE /\ drops' = drops - 1
  /\ UNCHANGED <<sess, cli, queueVars, sideVars, httpVars>>

\* start connects again and the server binds the port to the new session.
Reconnect ==
  /\ ~wire /\ cli = "down" /\ sess = "down"
  /\ wire' = TRUE /\ cli' = "up" /\ sess' = "up"
  /\ UNCHANGED <<drops, queueVars, sideVars, httpVars>>

LinkNext ==
  \/ ServerStep \/ ClientStep \/ Lose \/ Reconnect
  \/ \E c \in Conns :
       \/ Accept(c) \/ ReadUser(c) \/ CloseUser(c) \/ ServerConnStep(c)
       \/ ReadLocal(c) \/ CloseService(c) \/ ClientConnStep(c)
  \/ \E q \in Reqs :
       \/ ProxyRequest(q) \/ ProxyReadBody(q) \/ ProxySend(q)
       \/ ProxyTimeout(q) \/ ProxyDropped(q) \/ AnswerRequest(q)

LinkSpec == LinkInit /\ [][LinkNext]_linkVars

\* Every task of the two processes is polled, and callers send the body they
\* announced; peers need not write or close.
LinkFairness ==
  /\ WF_linkVars(ServerStep) /\ WF_linkVars(ClientStep) /\ WF_linkVars(Reconnect)
  /\ \A c \in Conns : WF_linkVars(ServerConnStep(c)) /\ WF_linkVars(ClientConnStep(c))
  /\ \A q \in Reqs : WF_linkVars(ProxyReadBody(q)) /\ WF_linkVars(ProxySend(q))

-------------------------------------------------------------------------------
(* Properties                                                              *)

Upstream == INSTANCE Pipe WITH Ends <- Conns,
  sent <- [c \in Conns |-> user[c].sent], got <- [c \in Conns |-> svc[c].got]

Downstream == INSTANCE Pipe WITH Ends <- Conns,
  sent <- [c \in Conns |-> svc[c].sent], got <- [c \in Conns |-> user[c].got]

\* Each direction of the tunnel implements Pipe: nothing is lost in the middle,
\* doubled or overtaken, through both loops, a lost WebSocket and the next one,
\* and whoever closes first.
TunnelIsAPipe == Upstream!Spec /\ Downstream!Spec

\* No entry of a connection outlives the task that would remove it: not among
\* the server's active or pending ones, not among the client's.
EntriesHaveOwner ==
  \A c \in Conns :
    /\ srv[c].active \/ srv[c].pending =>
         srv[c].at \in {"connecting", "refused", "waiting", "forwarding"}
    /\ tun[c].entry => tun[c].at = "announcing" \/ tun[c].reader # "ended"

\* A request that waits for an answer can still get it, and one that does not
\* is forgotten, unless its caller has gone away.
PendingRequestIsAwaited ==
  \A q \in Reqs :
    /\ req[q] \in {"sending", "waiting"} => q \in pendingReq
    /\ q \in pendingReq => req[q] \in {"sending", "waiting", "dropped"}

\* A user is not cut off while both ends and the WebSocket have been up all
\* along: as long as neither peer has closed and nothing was lost, a connection
\* that began to forward goes on doing so.
OpenConnectionStays ==
  \A c \in Conns :
    srv[c].at = "ended" /\ srv[c].ready /\ drops = MaxDrops
    => user[c].open = "closed" \/ svc[c].open = "closed"

\* "Unbind the ports (the listeners stay and wait for the next binding)": a
\* session that has lost its WebSocket gives the port back.
LostSessionUnbinds == (sess = "up" /\ ~wire) ~> (sess = "down")
===============================================================================
