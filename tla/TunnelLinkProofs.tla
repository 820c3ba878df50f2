---------------------------- MODULE TunnelLinkProofs ----------------------------
(***************************************************************************)
(* The properties of TunnelLink for any connections and requests, any room *)
(* in the channels and any number of losses of the WebSocket.              *)
(***************************************************************************)
EXTENDS TunnelLinkInv, SequenceTheorems, TLAPS

-------------------------------------------------------------------------------
(* Types                                                                   *)

\* The messages that the tasks send have the types of the queues.
LEMMA MsgType ==
  /\ \A c \in Conns, n \in Nat : /\ Msg("Connect", c, 0) \in DownMsgs
                                 /\ Msg("Data", c, n) \in DownMsgs \cap UpMsgs
                                 /\ Msg("Close", c, 0) \in DownMsgs \cap UpMsgs
                                 /\ Msg("Connected", c, 0) \in UpMsgs
                                 /\ Msg("ConnectFailed", c, 0) \in UpMsgs
  /\ \A q \in Reqs : Msg("HttpRequest", q, 0) \in DownMsgs /\ Msg("HttpResponse", q, 0) \in UpMsgs
BY DEF Msg, DownMsgs, UpMsgs

\* A message of a connection's kind names a connection, the others a request.
LEMMA MsgId ==
  /\ \A m \in DownMsgs : m.kind \in {"Connect", "Data", "Close"} => m.id \in Conns /\ m.n \in Nat
  /\ \A m \in UpMsgs : m.kind \in {"Connected", "ConnectFailed", "Data", "Close"} =>
                         m.id \in Conns /\ m.n \in Nat
  /\ \A m \in DownMsgs : m.kind \in {"Connect", "Data", "Close"} \/ (m.kind = "HttpRequest" /\ m.id \in Reqs)
  /\ \A m \in UpMsgs : m.kind \in {"Connected", "ConnectFailed", "Data", "Close"}
                       \/ (m.kind = "HttpResponse" /\ m.id \in Reqs)
BY DEF DownMsgs, UpMsgs

LEMMA LinkTypeInit == LinkInit => LinkTypeOK
BY LinkAssumption DEF LinkInit, LinkTypeOK, Peer, PeerRecords, SrvRecords, TunRecords

-------------------------------------------------------------------------------
(* The records of a connection                                             *)

\* Every record a step gives a peer is one.
LEMMA PeerUpdates ==
  ASSUME NEW p \in PeerRecords
  PROVE  /\ p.sent \in Nat /\ p.got \in Seq(Nat)
         /\ [p EXCEPT !.open = "open"] \in PeerRecords
         /\ [p EXCEPT !.open = "closed"] \in PeerRecords
         /\ [p EXCEPT !.sent = @ + 1] \in PeerRecords
         /\ \A n \in Nat : [p EXCEPT !.got = Append(@, n)] \in PeerRecords
<1>1. p.sent + 1 \in Nat
  BY DEF PeerRecords
<1>2. ASSUME NEW n \in Nat
      PROVE  [p EXCEPT !.got = Append(@, n)] \in PeerRecords
  <2>1. Append(p.got, n) \in Seq(Nat)
    BY DEF PeerRecords
  <2>2. QED
    BY <2>1 DEF PeerRecords
<1>3. QED
  BY <1>1, <1>2 DEF PeerRecords

\* Every record a step gives a connection at the server is one.
LEMMA SrvUpdates ==
  ASSUME NEW r \in SrvRecords
  PROVE  /\ r.queue \in Seq(Nat)
         /\ [r EXCEPT !.at = "accepted"] \in SrvRecords
         /\ [r EXCEPT !.at = "connecting", !.active = TRUE, !.pending = TRUE] \in SrvRecords
         /\ [r EXCEPT !.at = "waiting"] \in SrvRecords
         /\ [r EXCEPT !.at = "refused"] \in SrvRecords
         /\ [r EXCEPT !.at = "forwarding", !.reader = "on", !.writer = "on"] \in SrvRecords
         /\ [cleanup_connection(r) EXCEPT !.at = "ended"] \in SrvRecords
         /\ cleanup_connection(r) \in SrvRecords
         /\ [r EXCEPT !.active = FALSE] \in SrvRecords
         /\ [r EXCEPT !.pending = FALSE, !.ready = TRUE] \in SrvRecords
         /\ \A x \in {"on", "sending", "closing", "saying bye", "ended"} :
              [r EXCEPT !.reader = x] \in SrvRecords
         /\ r.queue # <<>> => [r EXCEPT !.queue = Tail(@)] \in SrvRecords
         /\ \A n \in Nat : [r EXCEPT !.queue = Append(@, n)] \in SrvRecords
         /\ [r EXCEPT !.writer = "ended", !.queue = <<>>] \in SrvRecords
         /\ [r EXCEPT !.writer = "ended"] \in SrvRecords
<1>1. r.queue \in Seq(Nat)
  BY DEF SrvRecords
<1>2. r.queue # <<>> => Tail(r.queue) \in Seq(Nat)
  BY <1>1, HeadTailProperties
<1>3. \A n \in Nat : Append(r.queue, n) \in Seq(Nat)
  BY <1>1
<1>4. <<>> \in Seq(Nat)
  OBVIOUS
<1>5. cleanup_connection(r) \in SrvRecords
  BY DEF SrvRecords, cleanup_connection
<1>6. QED
  BY <1>1, <1>2, <1>3, <1>4, <1>5 DEF SrvRecords

\* Every record a step gives a connection at the client is one.
LEMMA TunUpdates ==
  ASSUME NEW r \in TunRecords
  PROVE  /\ r.queue \in Seq(Nat)
         /\ [r EXCEPT !.at = "connecting"] \in TunRecords
         /\ [r EXCEPT !.at = "ended"] \in TunRecords
         /\ [r EXCEPT !.at = "announcing", !.entry = TRUE] \in TunRecords
         /\ [r EXCEPT !.at = "forwarding", !.reader = "on", !.writer = "on"] \in TunRecords
         /\ [r EXCEPT !.entry = FALSE] \in TunRecords
         /\ [r EXCEPT !.entry = FALSE, !.stale = @ \/ r.at # "none"] \in TunRecords
         /\ [r EXCEPT !.reader = "ended", !.entry = FALSE] \in TunRecords
         /\ \A x \in {"on", "sending", "closing", "removing"} :
              [r EXCEPT !.reader = x] \in TunRecords
         /\ r.queue # <<>> => [r EXCEPT !.queue = Tail(@)] \in TunRecords
         /\ \A n \in Nat : [r EXCEPT !.queue = Append(@, n)] \in TunRecords
         /\ [r EXCEPT !.writer = "ended", !.queue = <<>>] \in TunRecords
         /\ [r EXCEPT !.writer = "ended"] \in TunRecords
<1>1. r.queue \in Seq(Nat)
  BY DEF TunRecords
<1>2. r.queue # <<>> => Tail(r.queue) \in Seq(Nat)
  BY <1>1, HeadTailProperties
<1>3. \A n \in Nat : Append(r.queue, n) \in Seq(Nat)
  BY <1>1
<1>4. <<>> \in Seq(Nat)
  OBVIOUS
<1>5. [r EXCEPT !.entry = FALSE, !.stale = @ \/ r.at # "none"] \in TunRecords
  BY DEF TunRecords
<1>6. /\ r.queue # <<>> => [r EXCEPT !.queue = Tail(@)] \in TunRecords
      /\ \A n \in Nat : [r EXCEPT !.queue = Append(@, n)] \in TunRecords
  BY <1>2, <1>3 DEF TunRecords
<1>7. /\ [r EXCEPT !.at = "connecting"] \in TunRecords
      /\ [r EXCEPT !.at = "ended"] \in TunRecords
      /\ [r EXCEPT !.at = "announcing", !.entry = TRUE] \in TunRecords
      /\ [r EXCEPT !.at = "forwarding", !.reader = "on", !.writer = "on"] \in TunRecords
      /\ [r EXCEPT !.entry = FALSE] \in TunRecords
  BY DEF TunRecords
<1>8. /\ [r EXCEPT !.reader = "ended", !.entry = FALSE] \in TunRecords
      /\ \A x \in {"on", "sending", "closing", "removing"} :
           [r EXCEPT !.reader = x] \in TunRecords
      /\ [r EXCEPT !.writer = "ended", !.queue = <<>>] \in TunRecords
      /\ [r EXCEPT !.writer = "ended"] \in TunRecords
  BY <1>4 DEF TunRecords
<1>9. QED
  BY <1>1, <1>5, <1>6, <1>7, <1>8

-------------------------------------------------------------------------------
(* The shape of the steps                                                  *)

\* A step of the server for the connection c touches the records of c alone, and
\* at most sends a message of c.
ServerShape(c) ==
  /\ srv' = [srv EXCEPT ![c] = srv'[c]] /\ srv'[c] \in SrvRecords
  /\ user' = [user EXCEPT ![c] = user'[c]] /\ user'[c] \in PeerRecords
  /\ \/ msg' = msg
     \/ \E m \in DownMsgs : /\ m.id = c /\ m.kind \in {"Connect", "Data", "Close"}
                            /\ msg' = Append(msg, m) /\ reachable
  /\ UNCHANGED <<wireVars, down, local, up, sBusy, cBusy, tun, svc, httpVars>>

\* A step of a connection at the server changes that connection's records, and
\* sends one message at most.
LEMMA ServerConnShape ==
  ASSUME LinkTypeOK, NEW c \in Conns,
         Accept(c) \/ ReadUser(c) \/ CloseUser(c) \/ ServerConnStep(c)
  PROVE  ServerShape(c)
<1>1. srv \in [Conns -> SrvRecords] /\ user \in [Conns -> PeerRecords]
  BY DEF LinkTypeOK
<1>2. srv[c] \in SrvRecords /\ user[c] \in PeerRecords /\ user[c].sent \in Nat /\ srv[c].queue \in Seq(Nat)
  BY <1>1, PeerUpdates, SrvUpdates
<1>3. srv[c].queue # <<>> => Head(srv[c].queue) \in Nat
  BY <1>2, HeadTailProperties
<1>5. CASE \/ Accept(c) \/ ReadUser(c) \/ CloseUser(c) \/ Register(c) \/ ConnectionReady(c)
           \/ ReadyTimeout(c) \/ ReadUserEnds(c) \/ EnterClose(c) \/ WriteUserEnds(c) \/ HandlerEnds(c)
  <2>1. srv' = [srv EXCEPT ![c] = srv'[c]] /\ srv'[c] \in SrvRecords
    BY <1>1, <1>2, <1>5, SrvUpdates
       DEF Accept, ReadUser, CloseUser, Register, ConnectionReady, ReadyTimeout, ReadUserEnds,
           EnterClose, WriteUserEnds, HandlerEnds
  <2>2. user' = [user EXCEPT ![c] = user'[c]] /\ user'[c] \in PeerRecords
    BY <1>1, <1>2, <1>5, PeerUpdates
       DEF Accept, ReadUser, CloseUser, Register, ConnectionReady, ReadyTimeout, ReadUserEnds,
           EnterClose, WriteUserEnds, HandlerEnds
  <2>3. UNCHANGED <<msg, wireVars, down, local, up, sBusy, cBusy, tun, svc, httpVars>>
    BY <1>5 DEF Accept, ReadUser, CloseUser, Register, ConnectionReady, ReadyTimeout, ReadUserEnds,
           EnterClose, WriteUserEnds, HandlerEnds, queueVars
  <2>4. QED
    BY <2>1, <2>2, <2>3 DEF ServerShape
<1>6. CASE WriteUser(c)
  <2>1. UNCHANGED <<msg, wireVars, down, local, up, sBusy, cBusy, tun, svc, httpVars>>
    BY <1>6 DEF WriteUser, queueVars
  <2>2. CASE user[c].open = "open"
    <3>1. [user[c] EXCEPT !.got = Append(@, Head(srv[c].queue))] \in PeerRecords
      BY <1>2, <1>3, <1>6, PeerUpdates DEF WriteUser
    <3>2. [srv[c] EXCEPT !.queue = Tail(@)] \in SrvRecords
      BY <1>2, <1>6, SrvUpdates DEF WriteUser
    <3>3. user' = [user EXCEPT ![c] = [user[c] EXCEPT !.got = Append(@, Head(srv[c].queue))]]
      BY <1>6, <2>2 DEF WriteUser
    <3>4. srv' = [srv EXCEPT ![c] = [srv[c] EXCEPT !.queue = Tail(@)]]
      BY <1>6, <2>2 DEF WriteUser
    <3>5. QED
      BY <1>1, <2>1, <3>1, <3>2, <3>3, <3>4, Zenon DEF ServerShape
  <2>3. CASE user[c].open # "open"
    BY <1>1, <1>2, <1>3, <1>6, <2>1, <2>3, SrvUpdates, PeerUpdates DEF WriteUser, ServerShape
  <2>4. QED
    BY <2>2, <2>3
<1>7. CASE SendConnect(c) \/ SendUserData(c) \/ SendClose(c)
  <2>1. srv' = [srv EXCEPT ![c] = srv'[c]] /\ srv'[c] \in SrvRecords
    BY <1>1, <1>2, <1>7, SrvUpdates DEF SendConnect, SendUserData, SendClose, send_to_client
  <2>2. user' = user /\ UNCHANGED <<wireVars, down, local, up, sBusy, cBusy, tun, svc, httpVars>>
    BY <1>7 DEF SendConnect, SendUserData, SendClose
  <2>3. ASSUME NEW k \in {"Connect", "Data", "Close"}, NEW n \in Nat
        PROVE  Msg(k, c, n) \in DownMsgs /\ Msg(k, c, n).id = c /\ Msg(k, c, n).kind = k
    BY DEF Msg, DownMsgs
  <2>4. \/ msg' = msg
        \/ reachable /\ \E k \in {"Connect", "Data", "Close"}, n \in Nat : msg' = Append(msg, Msg(k, c, n))
    BY <1>2, <1>7 DEF SendConnect, SendUserData, SendClose, send_to_client
  <2>5. QED
    BY <1>1, <1>2, <2>1, <2>2, <2>3, <2>4 DEF ServerShape
<1>8. QED
  BY <1>5, <1>6, <1>7 DEF ServerConnStep

\* The same for a step of the client.
ClientShape(c) ==
  /\ tun' = [tun EXCEPT ![c] = tun'[c]] /\ tun'[c] \in TunRecords
  /\ svc' = [svc EXCEPT ![c] = svc'[c]] /\ svc'[c] \in PeerRecords
  /\ \/ local' = local
     \/ \E m \in UpMsgs : /\ m.id = c /\ m.kind \in {"Connected", "ConnectFailed", "Data", "Close"}
                          /\ local' = Append(local, m) /\ ~tun[c].stale
  /\ UNCHANGED <<wireVars, msg, down, up, sBusy, cBusy, srv, user, httpVars>>

\* The same at the client.
LEMMA ClientConnShape ==
  ASSUME LinkTypeOK, NEW c \in Conns,
         ReadLocal(c) \/ CloseService(c) \/ ClientConnStep(c)
  PROVE  ClientShape(c)
<1>1. tun \in [Conns -> TunRecords] /\ svc \in [Conns -> PeerRecords]
  BY DEF LinkTypeOK
<1>2. tun[c] \in TunRecords /\ svc[c] \in PeerRecords /\ svc[c].sent \in Nat /\ tun[c].queue \in Seq(Nat)
  BY <1>1, PeerUpdates, TunUpdates
<1>3. tun[c].queue # <<>> => Head(tun[c].queue) \in Nat
  BY <1>2, HeadTailProperties
<1>5. CASE \/ ReadLocal(c) \/ CloseService(c) \/ ConnectLocal(c) \/ ReadLocalEnds(c)
           \/ LocalReaderRemoves(c) \/ WriteLocalEnds(c)
  <2>1. tun' = [tun EXCEPT ![c] = tun'[c]] /\ tun'[c] \in TunRecords
    BY <1>1, <1>2, <1>5, TunUpdates
       DEF ReadLocal, CloseService, ConnectLocal, ReadLocalEnds, LocalReaderRemoves, WriteLocalEnds
  <2>2. svc' = [svc EXCEPT ![c] = svc'[c]] /\ svc'[c] \in PeerRecords
    BY <1>1, <1>2, <1>5, PeerUpdates
       DEF ReadLocal, CloseService, ConnectLocal, ReadLocalEnds, LocalReaderRemoves, WriteLocalEnds
  <2>3. UNCHANGED <<local, wireVars, msg, down, up, sBusy, cBusy, srv, user, httpVars>>
    BY <1>5 DEF ReadLocal, CloseService, ConnectLocal, ReadLocalEnds, LocalReaderRemoves,
                WriteLocalEnds, queueVars
  <2>4. QED
    BY <2>1, <2>2, <2>3 DEF ClientShape
<1>6. CASE WriteLocal(c)
  <2>1. UNCHANGED <<local, wireVars, msg, down, up, sBusy, cBusy, srv, user, httpVars>>
    BY <1>6 DEF WriteLocal, queueVars
  <2>2. CASE svc[c].open = "open"
    <3>1. [svc[c] EXCEPT !.got = Append(@, Head(tun[c].queue))] \in PeerRecords
      BY <1>2, <1>3, <1>6, PeerUpdates DEF WriteLocal
    <3>2. [tun[c] EXCEPT !.queue = Tail(@)] \in TunRecords
      BY <1>2, <1>6, TunUpdates DEF WriteLocal
    <3>3. svc' = [svc EXCEPT ![c] = [svc[c] EXCEPT !.got = Append(@, Head(tun[c].queue))]]
      BY <1>6, <2>2 DEF WriteLocal
    <3>4. tun' = [tun EXCEPT ![c] = [tun[c] EXCEPT !.queue = Tail(@)]]
      BY <1>6, <2>2 DEF WriteLocal
    <3>5. QED
      BY <1>1, <2>1, <3>1, <3>2, <3>3, <3>4, Zenon DEF ClientShape
  <2>3. CASE svc[c].open # "open"
    BY <1>1, <1>2, <1>6, <2>1, <2>3, TunUpdates DEF WriteLocal, ClientShape
  <2>4. QED
    BY <2>2, <2>3
<1>7. CASE ConnectLocalFails(c) \/ Announce(c) \/ SendLocalData(c) \/ SendLocalClose(c)
  <2>1. tun' = [tun EXCEPT ![c] = tun'[c]] /\ tun'[c] \in TunRecords
    BY <1>1, <1>2, <1>7, TunUpdates
       DEF ConnectLocalFails, Announce, SendLocalData, SendLocalClose, to_server
  <2>2. svc' = svc /\ UNCHANGED <<wireVars, msg, down, up, sBusy, cBusy, srv, user, httpVars>>
    BY <1>7 DEF ConnectLocalFails, Announce, SendLocalData, SendLocalClose
  <2>3. ASSUME NEW k \in {"Connected", "ConnectFailed", "Data", "Close"}, NEW n \in Nat
        PROVE  Msg(k, c, n) \in UpMsgs /\ Msg(k, c, n).id = c /\ Msg(k, c, n).kind = k
    BY DEF Msg, UpMsgs
  <2>4. \/ local' = local
        \/ ~tun[c].stale /\ \E k \in {"Connected", "ConnectFailed", "Data", "Close"}, n \in Nat :
                                 local' = Append(local, Msg(k, c, n))
    BY <1>2, <1>7 DEF ConnectLocalFails, Announce, SendLocalData, SendLocalClose, to_server
  <2>5. QED
    BY <1>1, <1>2, <2>1, <2>2, <2>3, <2>4 DEF ClientShape
<1>8. QED
  BY <1>5, <1>6, <1>7 DEF ClientConnStep

-------------------------------------------------------------------------------
\* A function that is changed at one connection is unchanged at the others.
LEMMA OneRecord ==
  ASSUME NEW S, NEW c \in Conns, NEW f \in [Conns -> S], NEW g,
         g = [f EXCEPT ![c] = g[c]], g[c] \in S
  PROVE  g \in [Conns -> S] /\ \A d \in Conns : d # c => g[d] = f[d]
<1>1. \A r \in S : [f EXCEPT ![c] = r] \in [Conns -> S]
  OBVIOUS
<1>2. \A r \in S, d \in Conns : d # c => [f EXCEPT ![c] = r][d] = f[d]
  OBVIOUS
<1>3. QED
  BY <1>1, <1>2, Zenon

\* What the loops take from a channel and hold has the type of the channel.
LEMMA QueueTypes ==
  ASSUME LinkTypeOK
  PROVE  /\ msg # <<>> => Head(msg) \in DownMsgs /\ Tail(msg) \in Seq(DownMsgs)
         /\ down # <<>> => Head(down) \in DownMsgs /\ Tail(down) \in Seq(DownMsgs)
         /\ local # <<>> => Head(local) \in UpMsgs /\ Tail(local) \in Seq(UpMsgs)
         /\ up # <<>> => Head(up) \in UpMsgs /\ Tail(up) \in Seq(UpMsgs)
         /\ sBusy # None /\ sBusy.to = "wire" => sBusy.m \in DownMsgs
         /\ sBusy # None /\ sBusy.to = "conn" => sBusy.m.id \in Conns /\ sBusy.m.n \in Nat /\ sBusy.m.kind = "Data"
         /\ cBusy # None /\ cBusy.to = "wire" => cBusy.m \in UpMsgs
         /\ cBusy # None /\ cBusy.to = "conn" => cBusy.m.id \in Conns /\ cBusy.m.n \in Nat /\ cBusy.m.kind = "Data"
<1>1. /\ msg \in Seq(DownMsgs) /\ down \in Seq(DownMsgs)
      /\ local \in Seq(UpMsgs) /\ up \in Seq(UpMsgs)
      /\ sBusy \in ServerHolds \cup {None} /\ cBusy \in ClientHolds \cup {None}
  BY DEF LinkTypeOK
<1>2. /\ \A h \in ServerHolds : h.to = "wire" => h.m \in DownMsgs
      /\ \A h \in ServerHolds : h.to = "conn" => h.m.id \in Conns /\ h.m.n \in Nat /\ h.m.kind = "Data"
  BY DEF ServerHolds, Chunks
<1>3. /\ \A h \in ClientHolds : h.to = "wire" => h.m \in UpMsgs
      /\ \A h \in ClientHolds : h.to = "conn" => h.m.id \in Conns /\ h.m.n \in Nat /\ h.m.kind = "Data"
  BY DEF ClientHolds, Chunks
<1>4. QED
  BY <1>1, <1>2, <1>3, HeadTailProperties

\* What a loop takes from a queue is something it may hold.
LEMMA HoldTypes ==
  /\ \A m \in DownMsgs : [to |-> "wire", m |-> m] \in ServerHolds
  /\ \A m \in UpMsgs : [to |-> "wire", m |-> m] \in ClientHolds
  /\ \A m \in DownMsgs : m.kind = "Data" => [to |-> "conn", m |-> m] \in ClientHolds
  /\ \A m \in UpMsgs : m.kind = "Data" => [to |-> "conn", m |-> m] \in ServerHolds
<1>1. \A m \in DownMsgs \cup UpMsgs : m.kind = "Data" => m \in Chunks
  BY DEF DownMsgs, UpMsgs, Chunks
<1>2. QED
  BY <1>1 DEF ServerHolds, ClientHolds

LEMMA LinkTypeNext == LinkTypeOK /\ [LinkNext]_linkVars => LinkTypeOK'
<1> SUFFICES ASSUME LinkTypeOK, [LinkNext]_linkVars
             PROVE  LinkTypeOK'
  OBVIOUS
<1> USE DEF queueVars, sideVars, httpVars, wireVars
<1>a. /\ msg \in Seq(DownMsgs) /\ down \in Seq(DownMsgs)
      /\ local \in Seq(UpMsgs) /\ up \in Seq(UpMsgs)
      /\ <<>> \in Seq(UpMsgs) /\ <<>> \in Seq(DownMsgs)
  BY EmptySeq DEF LinkTypeOK
<1>b. /\ srv \in [Conns -> SrvRecords] /\ tun \in [Conns -> TunRecords]
      /\ \A c \in Conns : srv[c] \in SrvRecords /\ tun[c] \in TunRecords
  BY DEF LinkTypeOK
<1>c. /\ \A m \in DownMsgs : Append(msg, m) \in Seq(DownMsgs) /\ Append(down, m) \in Seq(DownMsgs)
      /\ \A m \in UpMsgs : Append(local, m) \in Seq(UpMsgs) /\ Append(up, m) \in Seq(UpMsgs)
  BY <1>a, AppendProperties
<1>d. /\ \A c \in Conns, r \in SrvRecords : [srv EXCEPT ![c] = r] \in [Conns -> SrvRecords]
      /\ \A c \in Conns, r \in TunRecords : [tun EXCEPT ![c] = r] \in [Conns -> TunRecords]
  BY <1>b
<1>1. ASSUME NEW c \in Conns, ServerShape(c)
      PROVE  LinkTypeOK'
  <2>1. srv' \in [Conns -> SrvRecords] /\ user' \in [Conns -> PeerRecords]
    BY <1>1, OneRecord DEF ServerShape, LinkTypeOK
  <2>2. msg' \in Seq(DownMsgs)
    BY <1>a, <1>c, <1>1, Zenon DEF ServerShape
  <2>3. QED
    BY <1>1, <2>1, <2>2 DEF ServerShape, LinkTypeOK
<1>2. ASSUME NEW c \in Conns, ClientShape(c)
      PROVE  LinkTypeOK'
  <2>1. tun' \in [Conns -> TunRecords] /\ svc' \in [Conns -> PeerRecords]
    BY <1>2, OneRecord DEF ClientShape, LinkTypeOK
  <2>2. local' \in Seq(UpMsgs)
    BY <1>a, <1>c, <1>2, Zenon DEF ClientShape
  <2>3. QED
    BY <1>2, <2>1, <2>2 DEF ClientShape, LinkTypeOK
<1>3. ASSUME NEW q \in Reqs,
             \/ ProxyRequest(q) \/ ProxyReadBody(q) \/ ProxySend(q)
             \/ ProxyTimeout(q) \/ ProxyDropped(q) \/ AnswerRequest(q)
      PROVE  LinkTypeOK'
  <2>1. CASE ProxyRequest(q) \/ ProxyReadBody(q) \/ ProxyTimeout(q) \/ ProxyDropped(q)
    BY <2>1 DEF ProxyRequest, ProxyReadBody, ProxyTimeout, ProxyDropped, LinkTypeOK
  <2>2. CASE ProxySend(q)
    <3>1. msg' \in Seq(DownMsgs)
      BY <2>2, MsgType DEF ProxySend, LinkTypeOK
    <3>2. QED
      BY <2>2, <3>1 DEF ProxySend, LinkTypeOK
  <2>3. CASE AnswerRequest(q)
    <3>1. local' \in Seq(UpMsgs)
      BY <1>a, <1>c, <2>3, MsgType DEF AnswerRequest, to_server
    <3>2. serving' \in [Reqs -> {"no", "asking", "done"}]
      BY <2>3 DEF AnswerRequest, to_server, LinkTypeOK
    <3>3. QED
      BY <2>3, <3>1, <3>2 DEF AnswerRequest, LinkTypeOK
  <2>4. QED
    BY <1>3, <2>1, <2>2, <2>3
<1>4. CASE ServerSends \/ ServerSent
  <2>1. msg' \in Seq(DownMsgs) /\ down' \in Seq(DownMsgs)
    BY <1>a, <1>4, QueueTypes, AppendProperties DEF ServerSends, ServerSent
  <2>2. sBusy' \in ServerHolds \cup {None}
    BY <1>4, QueueTypes, HoldTypes DEF ServerSends, ServerSent
  <2>3. QED
    BY <1>4, <2>1, <2>2 DEF ServerSends, ServerSent, LinkTypeOK
<1>5. CASE ServerReceives
  <2> DEFINE m == Head(up)
  <2>1. m \in UpMsgs /\ up' \in Seq(UpMsgs)
    BY <1>5, QueueTypes DEF ServerReceives
  <2>2. sBusy' \in ServerHolds \cup {None}
    BY <1>5, <2>1, HoldTypes DEF ServerReceives
  <2>3. srv' = listener_handles(m)
    BY <1>5 DEF ServerReceives
  <2>4. ASSUME NEW c \in Conns
        PROVE  /\ srv[c] \in SrvRecords
               /\ [srv EXCEPT ![c].pending = FALSE, ![c].ready = TRUE] \in [Conns -> SrvRecords]
               /\ [srv EXCEPT ![c] = cleanup_connection(@)] \in [Conns -> SrvRecords]
               /\ [srv EXCEPT ![c].active = FALSE] \in [Conns -> SrvRecords]
    <3>1. srv \in [Conns -> SrvRecords] /\ srv[c] \in SrvRecords
      BY DEF LinkTypeOK
    <3>2. [srv EXCEPT ![c].pending = FALSE, ![c].ready = TRUE]
            = [srv EXCEPT ![c] = [srv[c] EXCEPT !.pending = FALSE, !.ready = TRUE]]
      BY <3>1
    <3>3. QED
      BY <3>1, <3>2, SrvUpdates
  <2>5. listener_handles(m) \in [Conns -> SrvRecords]
    <3>1. CASE m.kind \in {"Connected", "ConnectFailed", "Close"}
      BY <2>1, <2>4, <3>1, MsgId DEF listener_handles, LinkTypeOK
    <3>2. CASE m.kind \notin {"Connected", "ConnectFailed", "Close"}
      BY <3>2 DEF listener_handles, LinkTypeOK
    <3>3. QED
      BY <3>1, <3>2
  <2>6. /\ req' \in [Reqs -> {"new", "reading", "sending", "waiting", "answered", "timeout",
                              "dropped", "failed"}]
        /\ pendingReq' \subseteq Reqs
    BY <1>5 DEF ServerReceives, answered, LinkTypeOK
  <2>7. UNCHANGED <<wireVars, msg, down, local, cBusy, user, tun, svc, serving>>
    BY <1>5 DEF ServerReceives
  <2> HIDE DEF m
  <2>8. QED
    BY <2>1, <2>2, <2>3, <2>5, <2>6, <2>7 DEF LinkTypeOK
<1>6. CASE ServerDelivers
  <2> DEFINE c == sBusy.m.id
  <2>1. c \in Conns /\ sBusy.m.n \in Nat
    BY <1>6, QueueTypes DEF ServerDelivers
  <2>2. srv' = srv \/ srv' = [srv EXCEPT ![c].queue = Append(@, sBusy.m.n)]
    BY <1>6 DEF ServerDelivers
  <2>3. srv' = srv \/ srv' = [srv EXCEPT ![c] = [srv[c] EXCEPT !.queue = Append(@, sBusy.m.n)]]
    BY <2>2
  <2>4. srv' \in [Conns -> SrvRecords]
    <3>1. [srv[c] EXCEPT !.queue = Append(@, sBusy.m.n)] \in SrvRecords
      BY <1>b, <2>1, SrvUpdates
    <3>2. QED
      BY <1>b, <1>d, <2>1, <2>3, <3>1, Zenon
  <2>5. QED
    BY <1>6, <2>4 DEF ServerDelivers, LinkTypeOK
<1>7. CASE ServerLeaves \/ RemoveClient \/ UnbindClient
  BY <1>a, <1>7 DEF ServerLeaves, RemoveClient, UnbindClient, LinkTypeOK
<1>8. CASE Lose \/ Reconnect
  <2>1. drops' \in 0..MaxDrops
    BY <1>8, LinkAssumption DEF Lose, Reconnect, LinkTypeOK
  <2>2. QED
    BY <1>8, <2>1 DEF Lose, Reconnect, LinkTypeOK
<1>9. CASE ClientSends \/ ClientSent
  <2>1. local' \in Seq(UpMsgs) /\ up' \in Seq(UpMsgs)
    BY <1>a, <1>9, QueueTypes, AppendProperties DEF ClientSends, ClientSent
  <2>2. cBusy' \in ClientHolds \cup {None}
    BY <1>9, QueueTypes, HoldTypes DEF ClientSends, ClientSent
  <2>3. QED
    BY <1>9, <2>1, <2>2 DEF ClientSends, ClientSent, LinkTypeOK
<1>10. CASE ClientReceives
  <2> DEFINE m == Head(down)
  <2>1. m \in DownMsgs /\ down' \in Seq(DownMsgs)
    BY <1>10, QueueTypes DEF ClientReceives
  <2>2. cBusy' \in ClientHolds \cup {None}
    BY <1>10, <2>1, HoldTypes DEF ClientReceives
  <2>3. handle_server_message(m)
    BY <1>10 DEF ClientReceives
  <2>4. tun' \in [Conns -> TunRecords]
    <3>1. \A c \in Conns : /\ [tun[c] EXCEPT !.at = "connecting"] \in TunRecords
                            /\ [tun[c] EXCEPT !.entry = FALSE] \in TunRecords
      BY <1>b, TunUpdates
    <3>2. \/ tun' = tun
          \/ m.id \in Conns /\ tun' = [tun EXCEPT ![m.id] = [tun[m.id] EXCEPT !.at = "connecting"]]
          \/ m.id \in Conns /\ tun' = [tun EXCEPT ![m.id] = [tun[m.id] EXCEPT !.entry = FALSE]]
      BY <2>1, <2>3, MsgId DEF handle_server_message
    <3>3. QED
      BY <1>b, <1>d, <3>1, <3>2
  <2>5. serving' \in [Reqs -> {"no", "asking", "done"}]
    BY <2>1, <2>3, MsgId DEF handle_server_message, LinkTypeOK
  <2>6. UNCHANGED <<wireVars, msg, local, up, sBusy, srv, user, svc, req, pendingReq>>
    BY <1>10 DEF ClientReceives
  <2> HIDE DEF m
  <2>7. QED
    BY <2>1, <2>2, <2>4, <2>5, <2>6 DEF LinkTypeOK
<1>11. CASE ClientDelivers
  <2> DEFINE c == cBusy.m.id
  <2>1. c \in Conns /\ cBusy.m.n \in Nat
    BY <1>11, QueueTypes DEF ClientDelivers
  <2>2. tun' = tun \/ tun' = [tun EXCEPT ![c].queue = Append(@, cBusy.m.n)]
    BY <1>11 DEF ClientDelivers
  <2>3. tun' = tun \/ tun' = [tun EXCEPT ![c] = [tun[c] EXCEPT !.queue = Append(@, cBusy.m.n)]]
    BY <2>2
  <2>4. tun' \in [Conns -> TunRecords]
    <3>1. [tun[c] EXCEPT !.queue = Append(@, cBusy.m.n)] \in TunRecords
      BY <1>b, <2>1, TunUpdates
    <3>2. QED
      BY <1>b, <1>d, <2>1, <2>3, <3>1, Zenon
  <2>5. QED
    BY <1>11, <2>4 DEF ClientDelivers, LinkTypeOK
<1>12. CASE ClientLeaves
  <2>1. tun' \in [Conns -> TunRecords]
    BY <1>12, TunUpdates DEF ClientLeaves, LinkTypeOK
  <2>2. serving' \in [Reqs -> {"no", "asking", "done"}]
    BY <1>12 DEF ClientLeaves, LinkTypeOK
  <2>3. QED
    BY <1>a, <1>12, <2>1, <2>2 DEF ClientLeaves, LinkTypeOK
<1>13. CASE UNCHANGED linkVars
  BY <1>13 DEF linkVars, LinkTypeOK
<1>14. QED
  BY <1>1, <1>2, <1>3, <1>4, <1>5, <1>6, <1>7, <1>8, <1>9, <1>10, <1>11, <1>12, <1>13,
     ServerConnShape, ClientConnShape DEF LinkNext, ServerStep, ClientStep

-------------------------------------------------------------------------------
(* Messages on their way                                                   *)

\* The messages of a queue after it was extended or shortened.
LEMMA RangeFacts ==
  ASSUME NEW S, NEW q \in Seq(S)
  PROVE  /\ \A m \in S : Range(Append(q, m)) = Range(q) \cup {m}
         /\ q # <<>> => Head(q) \in Range(q) /\ Range(Tail(q)) \subseteq Range(q)
         /\ Range(q) \subseteq S
         /\ Range(<<>>) = {}
<1>1. ASSUME NEW m \in S
      PROVE  Range(Append(q, m)) = Range(q) \cup {m}
  <2> DEFINE p == Append(q, m)
  <2>1. /\ Len(q) \in Nat /\ DOMAIN q = 1..Len(q) /\ DOMAIN p = 1..(Len(q) + 1)
        /\ \A i \in 1..Len(q) : p[i] = q[i]
        /\ p[Len(q) + 1] = m
    BY AppendProperties, LenProperties
  <2> HIDE DEF p
  <2>2. Range(q) \subseteq Range(p) /\ m \in Range(p)
    BY <2>1 DEF Range
  <2>3. ASSUME NEW i \in 1..(Len(q) + 1)
        PROVE  p[i] \in Range(q) \cup {m}
    <3>1. CASE i = Len(q) + 1
      BY <2>1, <3>1
    <3>2. CASE i # Len(q) + 1
      BY <2>1, <3>2 DEF Range
    <3>3. QED
      BY <3>1, <3>2
  <2>4. Range(p) \subseteq Range(q) \cup {m}
    BY <2>1, <2>3 DEF Range
  <2>5. QED
    BY <2>2, <2>4 DEF p
<1>2. ASSUME q # <<>>
      PROVE  Head(q) \in Range(q) /\ Range(Tail(q)) \subseteq Range(q)
  <2>1. Len(q) \in Nat \ {0} /\ Head(q) = q[1]
    BY <1>2
  <2>2. Len(Tail(q)) = Len(q) - 1 /\ \A i \in 1..Len(Tail(q)) : Tail(q)[i] = q[i + 1]
    BY <1>2
  <2>3. QED
    BY <1>2, <2>1, <2>2 DEF Range
<1>3. Range(q) \subseteq S
  <2>1. DOMAIN q = 1..Len(q) /\ \A i \in 1..Len(q) : q[i] \in S
    BY ElementOfSeq, LenProperties
  <2>2. QED
    BY <2>1 DEF Range
<1>4. Range(<<>>) = {}
  BY DEF Range
<1>5. QED
  BY <1>1, <1>2, <1>3, <1>4

\* A connection's step at the server puts one message at most on its way to the
\* client.
LEMMA ServerFlight ==
  ASSUME LinkTypeOK, NEW c \in Conns, ServerShape(c)
  PROVE  /\ UpFlight' = UpFlight
         /\ \/ DownFlight' = DownFlight
            \/ \E m \in DownMsgs : /\ m.id = c /\ m.kind \in {"Connect", "Data", "Close"}
                                   /\ msg' = Append(msg, m) /\ DownFlight' = DownFlight \cup {m}
<1>1. UNCHANGED <<local, cBusy, up, sBusy, down>>
  BY DEF ServerShape
<1>2. \A m \in DownMsgs : Range(Append(msg, m)) = Range(msg) \cup {m}
  BY RangeFacts DEF LinkTypeOK
<1>3. CASE msg' = msg
  BY <1>1, <1>3, Zenon DEF DownFlight, UpFlight, Wired
<1>4. ASSUME NEW m \in DownMsgs, m.id = c, m.kind \in {"Connect", "Data", "Close"}, msg' = Append(msg, m)
      PROVE  UpFlight' = UpFlight /\ DownFlight' = DownFlight \cup {m}
  <2>1. Range(msg') = Range(msg) \cup {m}
    BY <1>2, <1>4
  <2>2. UpFlight' = UpFlight /\ Wired(sBusy)' = Wired(sBusy)
    BY <1>1 DEF UpFlight, Wired
  <2>3. DownFlight' = Range(msg') \cup Wired(sBusy) \cup Range(down)
    BY <1>1, <2>2 DEF DownFlight
  <2>4. QED
    BY <2>1, <2>2, <2>3 DEF DownFlight
<1>5. QED
  BY <1>3, <1>4 DEF ServerShape

\* A connection's step at the client puts one message at most on its way to the
\* server.
LEMMA ClientFlight ==
  ASSUME LinkTypeOK, NEW c \in Conns, ClientShape(c)
  PROVE  /\ DownFlight' = DownFlight
         /\ \/ UpFlight' = UpFlight
            \/ \E m \in UpMsgs : /\ m.id = c /\ m.kind \in {"Connected", "ConnectFailed", "Data", "Close"}
                                 /\ local' = Append(local, m) /\ UpFlight' = UpFlight \cup {m}
<1>1. UNCHANGED <<msg, cBusy, up, sBusy, down>>
  BY DEF ClientShape
<1>2. \A m \in UpMsgs : Range(Append(local, m)) = Range(local) \cup {m}
  BY RangeFacts DEF LinkTypeOK
<1>3. CASE local' = local
  BY <1>1, <1>3, Zenon DEF DownFlight, UpFlight, Wired
<1>4. ASSUME NEW m \in UpMsgs, m.id = c, m.kind \in {"Connected", "ConnectFailed", "Data", "Close"},
             local' = Append(local, m)
      PROVE  DownFlight' = DownFlight /\ UpFlight' = UpFlight \cup {m}
  <2>1. Range(local') = Range(local) \cup {m}
    BY <1>2, <1>4
  <2>2. DownFlight' = DownFlight /\ Wired(cBusy)' = Wired(cBusy)
    BY <1>1 DEF DownFlight, Wired
  <2>3. UpFlight' = Range(local') \cup Wired(cBusy) \cup Range(up)
    BY <1>1, <2>2 DEF UpFlight
  <2>4. QED
    BY <2>1, <2>2, <2>3 DEF UpFlight
<1>5. QED
  BY <1>3, <1>4 DEF ClientShape

\* The loops move messages on and drop them; they make none.
LEMMA LoopFlight ==
  ASSUME LinkTypeOK, ServerStep \/ ClientStep \/ Lose \/ Reconnect
  PROVE  DownFlight' \subseteq DownFlight /\ UpFlight' \subseteq UpFlight
<1>1. /\ msg # <<>> => Head(msg) \in Range(msg) /\ Range(Tail(msg)) \subseteq Range(msg)
      /\ down # <<>> => Range(Tail(down)) \subseteq Range(down)
      /\ local # <<>> => Head(local) \in Range(local) /\ Range(Tail(local)) \subseteq Range(local)
      /\ up # <<>> => Range(Tail(up)) \subseteq Range(up)
  BY RangeFacts DEF LinkTypeOK
<1>2. /\ \A m \in DownMsgs : Range(Append(down, m)) = Range(down) \cup {m}
      /\ \A m \in UpMsgs : Range(Append(up, m)) = Range(up) \cup {m}
  BY RangeFacts DEF LinkTypeOK
<1>3. Range(<<>>) = {}
  BY DEF Range
<1> USE DEF DownFlight, UpFlight, Wired, wireVars, queueVars, httpVars, sideVars
<1>4. CASE ServerSends \/ ServerSent
  <2>1. CASE ServerSends
    BY <1>1, <2>1 DEF ServerSends
  <2>2. CASE ServerSent
    BY <1>2, <2>2, QueueTypes DEF ServerSent
  <2>3. QED
    BY <1>4, <2>1, <2>2
<1>5. CASE ServerReceives \/ ServerDelivers
  <2>1. UNCHANGED <<msg, down, local, cBusy>> /\ (up' = up \/ (up # <<>> /\ up' = Tail(up)))
    BY <1>5 DEF ServerReceives, ServerDelivers
  <2>2. Wired(sBusy)' = {}
    BY <1>5 DEF ServerReceives, ServerDelivers
  <2>3. QED
    BY <1>1, <2>1, <2>2
<1>6. CASE ServerLeaves \/ RemoveClient \/ UnbindClient
  BY <1>3, <1>6 DEF ServerLeaves, RemoveClient, UnbindClient
<1>7. CASE ClientSends
  BY <1>1, <1>7 DEF ClientSends
<1>8. CASE ClientSent
  BY <1>2, <1>8, QueueTypes DEF ClientSent
<1>9. CASE ClientReceives \/ ClientDelivers
  <2>1. UNCHANGED <<msg, up, local, sBusy>> /\ (down' = down \/ (down # <<>> /\ down' = Tail(down)))
    BY <1>9 DEF ClientReceives, ClientDelivers
  <2>2. Wired(cBusy)' = {}
    BY <1>9 DEF ClientReceives, ClientDelivers
  <2>3. QED
    BY <1>1, <2>1, <2>2
<1>10. CASE ClientLeaves
  BY <1>3, <1>10 DEF ClientLeaves
<1>11. CASE Lose \/ Reconnect
  BY <1>11 DEF Lose, Reconnect
<1>12. QED
  BY <1>4, <1>5, <1>6, <1>7, <1>8, <1>9, <1>10, <1>11 DEF ServerStep, ClientStep

-------------------------------------------------------------------------------
(* Proxied requests                                                        *)

\* A handler that has sent its request does not go back.
LEMMA EarlyIsPast ==
  ASSUME LinkTypeOK, LinkNext, NEW q \in Reqs, req'[q] \in Early
  PROVE  req[q] \in Early
<1> USE DEF Early, LinkTypeOK, httpVars
<1>1. CASE UNCHANGED req
  BY <1>1
<1>2. ASSUME NEW p \in Reqs, ProxyRequest(p) \/ ProxyReadBody(p) \/ ProxySend(p)
                             \/ ProxyTimeout(p) \/ ProxyDropped(p)
      PROVE  req[q] \in Early
  BY <1>2 DEF ProxyRequest, ProxyReadBody, ProxySend, ProxyTimeout, ProxyDropped
<1>3. CASE ServerReceives
  <2>1. req' = req \/ \E p : req[p] = "waiting" /\ req' = [req EXCEPT ![p] = "answered"]
    BY <1>3, Zenon DEF ServerReceives, answered
  <2>2. QED
    BY <2>1
<1>4. ASSUME NEW p \in Reqs, AnswerRequest(p)
      PROVE  UNCHANGED req
  BY <1>4 DEF AnswerRequest
<1>5. ASSUME ServerStep \/ ClientStep \/ Lose \/ Reconnect, ~ServerReceives
      PROVE  UNCHANGED req
  BY <1>5, Zenon DEF ServerStep, ClientStep, Lose, Reconnect, ServerSends, ServerSent, ServerDelivers,
     ServerLeaves, RemoveClient, UnbindClient, ClientSends, ClientSent, ClientReceives, ClientDelivers,
     ClientLeaves
<1>6. ASSUME NEW c \in Conns, ServerShape(c) \/ ClientShape(c)
      PROVE  UNCHANGED req
  BY <1>6, Zenon DEF ServerShape, ClientShape
<1> HIDE DEF Early, LinkTypeOK, httpVars
<1>7. QED
  BY <1>1, <1>2, <1>3, <1>4, <1>5, <1>6, ServerConnShape, ClientConnShape DEF LinkNext

LEMMA RequestInvNext ==
  ASSUME LinkTypeOK, RequestInv, [LinkNext]_linkVars
  PROVE  RequestInv'
<1>0. ASSUME NEW m \in DownFlight \cup UpFlight, m.kind \in {"HttpRequest", "HttpResponse"}
      PROVE  m.id \in Reqs
  <2>1. Range(msg) \subseteq DownMsgs /\ Range(down) \subseteq DownMsgs
        /\ Range(local) \subseteq UpMsgs /\ Range(up) \subseteq UpMsgs
    BY RangeFacts DEF LinkTypeOK
  <2>2. Wired(sBusy) \subseteq DownMsgs /\ Wired(cBusy) \subseteq UpMsgs
    BY QueueTypes DEF Wired
  <2>3. m \in DownMsgs \cup UpMsgs
    BY <2>1, <2>2 DEF DownFlight, UpFlight
  <2>4. QED
    BY <1>0, <2>3, MsgId
<1>1. CASE UNCHANGED linkVars
  BY <1>1 DEF linkVars, RequestInv, DownFlight, UpFlight, Wired
<1>2. CASE LinkNext
  <2>1. \A q \in Reqs : req[q] \notin Early => req'[q] \notin Early
    BY <1>2, EarlyIsPast
  <2>2. SUFFICES /\ \A m \in DownFlight' : m.kind = "HttpRequest" =>
                        m \in DownFlight \/ (m.id \in Reqs /\ req'[m.id] \notin Early)
                 /\ \A m \in UpFlight' : m.kind = "HttpResponse" =>
                        m \in UpFlight \/ (m.id \in Reqs /\ req'[m.id] \notin Early)
                 /\ \A q \in Reqs : serving'[q] = "asking" =>
                        serving[q] = "asking" \/ req'[q] \notin Early
    BY <1>0, <2>1 DEF RequestInv, Early
  <2>3. ASSUME NEW c \in Conns, ServerShape(c) \/ ClientShape(c)
        PROVE  /\ \A m \in DownFlight' : m.kind = "HttpRequest" => m \in DownFlight
               /\ \A m \in UpFlight' : m.kind = "HttpResponse" => m \in UpFlight
               /\ serving' = serving
    <3>1. serving' = serving
      BY <2>3, Zenon DEF ServerShape, ClientShape, httpVars
    <3>2. CASE ServerShape(c)
      BY <3>1, <3>2, ServerFlight
    <3>3. CASE ClientShape(c)
      BY <3>1, <3>3, ClientFlight
    <3>4. QED
      BY <2>3, <3>2, <3>3
  <2>4. CASE ServerStep \/ ClientStep \/ Lose \/ Reconnect
    <3>1. DownFlight' \subseteq DownFlight /\ UpFlight' \subseteq UpFlight
      BY <2>4, LoopFlight
    <3>2. ASSUME NEW q \in Reqs, serving'[q] = "asking", serving[q] # "asking"
          PROVE  req'[q] \notin Early
      <4>1. CASE ClientReceives
        <5>1. Head(down) \in DownFlight
          BY <4>1, RangeFacts DEF ClientReceives, LinkTypeOK, DownFlight
        <5>2. Head(down).kind = "HttpRequest" /\ Head(down).id = q
          BY <3>2, <4>1, MsgId, QueueTypes DEF ClientReceives, handle_server_message, LinkTypeOK
        <5>3. QED
          BY <2>1, <5>1, <5>2 DEF RequestInv
      <4>2. CASE ClientLeaves
        BY <3>2, <4>2 DEF ClientLeaves
      <4>3. CASE ~ClientReceives /\ ~ClientLeaves
        <5>1. serving' = serving
          BY <2>4, <4>3, Zenon DEF ServerStep, ClientStep, Lose, Reconnect, ServerSends, ServerSent,
             ServerReceives, ServerDelivers, ServerLeaves, RemoveClient, UnbindClient, ClientSends,
             ClientSent, ClientDelivers, httpVars
        <5>2. QED
          BY <3>2, <5>1
      <4>4. QED
        BY <4>1, <4>2, <4>3
    <3>3. QED
      BY <3>1, <3>2
  <2>5. ASSUME NEW q \in Reqs, ProxyRequest(q) \/ ProxyReadBody(q) \/ ProxyTimeout(q) \/ ProxyDropped(q)
        PROVE  DownFlight' = DownFlight /\ UpFlight' = UpFlight /\ serving' = serving
    <3>1. UNCHANGED <<queueVars, serving>>
      BY <2>5, Zenon DEF ProxyRequest, ProxyReadBody, ProxyTimeout, ProxyDropped
    <3>2. QED
      BY <3>1 DEF queueVars, DownFlight, UpFlight, Wired
  <2>6. ASSUME NEW q \in Reqs, ProxySend(q)
        PROVE  /\ DownFlight' = DownFlight \cup {Msg("HttpRequest", q, 0)}
               /\ UpFlight' = UpFlight /\ serving' = serving /\ req'[q] \notin Early
    <3>1. Range(msg') = Range(msg) \cup {Msg("HttpRequest", q, 0)}
      BY <2>6, MsgType, RangeFacts DEF ProxySend, LinkTypeOK
    <3>2. UNCHANGED <<down, local, up, sBusy, cBusy, serving>> /\ req'[q] \notin Early
      BY <2>6 DEF ProxySend, LinkTypeOK, Early
    <3>3. UpFlight' = UpFlight /\ DownFlight' = Range(msg') \cup Wired(sBusy) \cup Range(down)
      BY <3>2 DEF DownFlight, UpFlight, Wired
    <3>4. QED
      BY <3>1, <3>2, <3>3 DEF DownFlight
  <2>7. ASSUME NEW q \in Reqs, AnswerRequest(q)
        PROVE  /\ UpFlight' = UpFlight \cup {Msg("HttpResponse", q, 0)} /\ DownFlight' = DownFlight
               /\ serving[q] = "asking" /\ serving' = [serving EXCEPT ![q] = "done"]
    <3>1. local' = Append(local, Msg("HttpResponse", q, 0))
      BY <2>7 DEF AnswerRequest, to_server
    <3>2. Range(local') = Range(local) \cup {Msg("HttpResponse", q, 0)}
      BY <3>1, MsgType, RangeFacts DEF LinkTypeOK
    <3>3. UNCHANGED <<msg, down, up, sBusy, cBusy>>
      BY <2>7 DEF AnswerRequest
    <3>4. DownFlight' = DownFlight /\ UpFlight' = Range(local') \cup Wired(cBusy) \cup Range(up)
      BY <3>3 DEF DownFlight, UpFlight, Wired
    <3>5. QED
      BY <2>7, <3>2, <3>4 DEF UpFlight, AnswerRequest, to_server
  <2>8. CASE \E q \in Reqs : ProxySend(q) \/ AnswerRequest(q)
    <3>1. \A q \in Reqs : Msg("HttpRequest", q, 0).id = q /\ Msg("HttpResponse", q, 0).id = q
      BY DEF Msg
    <3>2. PICK q \in Reqs : ProxySend(q) \/ AnswerRequest(q)
      BY <2>8
    <3>3. CASE ProxySend(q)
      BY <2>6, <3>1, <3>3
    <3>4. CASE AnswerRequest(q)
      <4>1. req'[q] \notin Early
        BY <2>1, <2>7, <3>4 DEF RequestInv
      <4>2. \A p \in Reqs : serving'[p] = "asking" => serving[p] = "asking"
        BY <2>7, <3>4 DEF LinkTypeOK
      <4>3. QED
        BY <2>7, <3>1, <3>4, <4>1, <4>2
    <3>5. QED
      BY <3>2, <3>3, <3>4
  <2>9. QED
    BY <1>2, <2>3, <2>4, <2>5, <2>8, ServerConnShape, ClientConnShape DEF LinkNext
<1>3. QED
  BY <1>1, <1>2

\* The handler's own entry: it is there while the handler may get an answer and is
\* gone when the handler is, unless its caller has dropped it.
LEMMA PendingNext ==
  ASSUME LinkTypeOK, RequestInv, PendingRequestIsAwaited, [LinkNext]_linkVars
  PROVE  PendingRequestIsAwaited'
<1>1. CASE UNCHANGED <<req, pendingReq>>
  BY <1>1 DEF PendingRequestIsAwaited
<1>2. ASSUME NEW q \in Reqs, ProxyRequest(q) \/ ProxyReadBody(q) \/ ProxySend(q)
                             \/ ProxyTimeout(q) \/ ProxyDropped(q)
      PROVE  PendingRequestIsAwaited'
  BY <1>2 DEF ProxyRequest, ProxyReadBody, ProxySend, ProxyTimeout, ProxyDropped,
              PendingRequestIsAwaited, LinkTypeOK
<1>3. CASE ServerReceives /\ ~UNCHANGED <<req, pendingReq>>
  <2> DEFINE q == Head(up).id
  <2>1. Head(up).kind = "HttpResponse" /\ answered(q)
    BY <1>3, Zenon DEF ServerReceives
  <2>2. Head(up) \in UpFlight
    BY <1>3, RangeFacts DEF ServerReceives, LinkTypeOK, UpFlight
  <2>3. q \in Reqs
    BY <1>3, <2>1, QueueTypes, MsgId DEF ServerReceives
  <2>4. req[q] \notin Early
    BY <2>1, <2>2 DEF RequestInv
  <2> HIDE DEF q
  <2>5. QED
    BY <2>1, <2>3, <2>4 DEF answered, Early, PendingRequestIsAwaited, LinkTypeOK
<1>4. ASSUME NEW q \in Reqs, AnswerRequest(q)
      PROVE  UNCHANGED <<req, pendingReq>>
  BY <1>4 DEF AnswerRequest
<1>5. ASSUME ServerStep \/ ClientStep \/ Lose \/ Reconnect, ~ServerReceives
      PROVE  UNCHANGED <<req, pendingReq>>
  BY <1>5, Zenon DEF ServerStep, ClientStep, Lose, Reconnect, ServerSends, ServerSent, ServerDelivers,
     ServerLeaves, RemoveClient, UnbindClient, ClientSends, ClientSent, ClientReceives, ClientDelivers,
     ClientLeaves, httpVars
<1>6. ASSUME NEW c \in Conns, ServerShape(c) \/ ClientShape(c)
      PROVE  UNCHANGED <<req, pendingReq>>
  BY <1>6, Zenon DEF ServerShape, ClientShape, httpVars
<1>7. CASE UNCHANGED linkVars
  BY <1>1, <1>7, Zenon DEF linkVars
<1>8. QED
  BY <1>1, <1>2, <1>3, <1>4, <1>5, <1>6, <1>7, ServerConnShape, ClientConnShape DEF LinkNext

\* tunnel_proxy_handler never waits for an answer that the server would throw
\* away, and leaves no entry behind, whichever of answer, timeout and hang-up
\* come first and however many sessions come and go.
THEOREM RequestsAreAwaited == LinkSpec => []PendingRequestIsAwaited
<1> DEFINE Inv == LinkTypeOK /\ RequestInv /\ PendingRequestIsAwaited
<1>1. LinkInit => Inv
  BY LinkTypeInit DEF LinkInit, RequestInv, PendingRequestIsAwaited, DownFlight, UpFlight, Wired, Range
<1>2. Inv /\ [LinkNext]_linkVars => Inv'
  BY LinkTypeNext, RequestInvNext, PendingNext
<1>3. Inv => PendingRequestIsAwaited
  OBVIOUS
<1>4. QED
  BY <1>1, <1>2, <1>3, PTL DEF LinkSpec

-------------------------------------------------------------------------------
(* What the steps of a connection do to its records, field by field        *)

LEMMA ConnTypes ==
  ASSUME LinkTypeOK, NEW c \in Conns
  PROVE  /\ srv \in [Conns -> SrvRecords] /\ srv[c] \in SrvRecords
         /\ tun \in [Conns -> TunRecords] /\ tun[c] \in TunRecords
         /\ user \in [Conns -> PeerRecords] /\ user[c] \in PeerRecords
         /\ svc \in [Conns -> PeerRecords] /\ svc[c] \in PeerRecords
BY DEF LinkTypeOK

SrvEq(s, at, reader, writer, active, pending, ready, queue) ==
  /\ s.at = at /\ s.reader = reader /\ s.writer = writer
  /\ s.active = active /\ s.pending = pending /\ s.ready = ready /\ s.queue = queue
TunEq(t, at, reader, writer, entry, stale, queue) ==
  /\ t.at = at /\ t.reader = reader /\ t.writer = writer
  /\ t.entry = entry /\ t.stale = stale /\ t.queue = queue
PeerEq(p, open, sent, got) == p.open = open /\ p.sent = sent /\ p.got = got

\* The server's end.
LEMMA AcceptEffect ==
  ASSUME LinkTypeOK, NEW c \in Conns, Accept(c), reachable
  PROVE  LET s == srv[c]  p == user[c] IN
         /\ SrvEq(srv'[c], "accepted", s.reader, s.writer, s.active, s.pending, s.ready, s.queue)
         /\ PeerEq(user'[c], "open", p.sent, p.got)
<1>1. /\ srv'[c] = [srv[c] EXCEPT !.at = "accepted"]
      /\ user'[c] = [user[c] EXCEPT !.open = "open"]
  BY ConnTypes DEF Accept
<1>2. QED
  BY <1>1, ConnTypes DEF SrvEq, PeerEq, SrvRecords, PeerRecords

LEMMA RefuseEffect ==
  ASSUME LinkTypeOK, NEW c \in Conns, Accept(c), ~reachable
  PROVE  LET s == srv[c]  p == user[c] IN
         /\ SrvEq(srv'[c], s.at, s.reader, s.writer, s.active, s.pending, s.ready, s.queue)
         /\ PeerEq(user'[c], "closed", p.sent, p.got)
<1>1. /\ srv'[c] = srv[c]
      /\ user'[c] = [user[c] EXCEPT !.open = "closed"]
  BY ConnTypes DEF Accept
<1>2. QED
  BY <1>1, ConnTypes DEF SrvEq, PeerEq, SrvRecords, PeerRecords

LEMMA RegisterEffect ==
  ASSUME LinkTypeOK, NEW c \in Conns, Register(c)
  PROVE  LET s == srv[c]  p == user[c] IN
         /\ SrvEq(srv'[c], "connecting", s.reader, s.writer, TRUE, TRUE, s.ready, s.queue)
         /\ PeerEq(user'[c], p.open, p.sent, p.got)
<1>1. /\ srv'[c] = [srv[c] EXCEPT !.at = "connecting", !.active = TRUE, !.pending = TRUE]
      /\ user'[c] = user[c]
  BY ConnTypes DEF Register
<1>2. QED
  BY <1>1, ConnTypes DEF SrvEq, PeerEq, SrvRecords, PeerRecords

LEMMA SendConnectEffect ==
  ASSUME LinkTypeOK, NEW c \in Conns, SendConnect(c), reachable
  PROVE  LET s == srv[c]  p == user[c] IN
         /\ SrvEq(srv'[c], "waiting", s.reader, s.writer, s.active, s.pending, s.ready, s.queue)
         /\ PeerEq(user'[c], p.open, p.sent, p.got)
<1>1. /\ srv'[c] = [srv[c] EXCEPT !.at = "waiting"]
      /\ user'[c] = user[c]
  BY ConnTypes DEF SendConnect, send_to_client
<1>2. QED
  BY <1>1, ConnTypes DEF SrvEq, PeerEq, SrvRecords, PeerRecords

LEMMA SendConnectFailsEffect ==
  ASSUME LinkTypeOK, NEW c \in Conns, SendConnect(c), ~reachable
  PROVE  LET s == srv[c]  p == user[c] IN
         /\ SrvEq(srv'[c], "refused", s.reader, s.writer, s.active, s.pending, s.ready, s.queue)
         /\ PeerEq(user'[c], p.open, p.sent, p.got)
<1>1. /\ srv'[c] = [srv[c] EXCEPT !.at = "refused"]
      /\ user'[c] = user[c]
  BY ConnTypes DEF SendConnect, send_to_client
<1>2. QED
  BY <1>1, ConnTypes DEF SrvEq, PeerEq, SrvRecords, PeerRecords

LEMMA ConnectionReadyEffect ==
  ASSUME LinkTypeOK, NEW c \in Conns, ConnectionReady(c)
  PROVE  LET s == srv[c]  p == user[c] IN
         /\ SrvEq(srv'[c], "forwarding", "on", "on", s.active, s.pending, s.ready, s.queue)
         /\ PeerEq(user'[c], p.open, p.sent, p.got)
<1>1. /\ srv'[c] = [srv[c] EXCEPT !.at = "forwarding", !.reader = "on", !.writer = "on"]
      /\ user'[c] = user[c]
  BY ConnTypes DEF ConnectionReady
<1>2. QED
  BY <1>1, ConnTypes DEF SrvEq, PeerEq, SrvRecords, PeerRecords

LEMMA ReadyTimeoutEffect ==
  ASSUME LinkTypeOK, NEW c \in Conns, ReadyTimeout(c)
  PROVE  LET s == srv[c]  p == user[c] IN
         /\ SrvEq(srv'[c], "ended", s.reader, s.writer, FALSE, FALSE, s.ready, s.queue)
         /\ PeerEq(user'[c], "closed", p.sent, p.got)
<1>1. /\ srv'[c] = [cleanup_connection(srv[c]) EXCEPT !.at = "ended"]
      /\ user'[c] = [user[c] EXCEPT !.open = "closed"]
  BY ConnTypes DEF ReadyTimeout
<1>2. QED
  BY <1>1, ConnTypes DEF SrvEq, PeerEq, SrvRecords, PeerRecords, cleanup_connection

LEMMA ReadUserEffect ==
  ASSUME LinkTypeOK, NEW c \in Conns, ReadUser(c)
  PROVE  LET s == srv[c]  p == user[c] IN
         /\ SrvEq(srv'[c], s.at, "sending", s.writer, s.active, s.pending, s.ready, s.queue)
         /\ PeerEq(user'[c], p.open, p.sent + 1, p.got)
<1>1. /\ srv'[c] = [srv[c] EXCEPT !.reader = "sending"]
      /\ user'[c] = [user[c] EXCEPT !.sent = @ + 1]
  BY ConnTypes DEF ReadUser
<1>2. QED
  BY <1>1, ConnTypes DEF SrvEq, PeerEq, SrvRecords, PeerRecords

LEMMA SendUserDataEffect ==
  ASSUME LinkTypeOK, NEW c \in Conns, SendUserData(c), reachable
  PROVE  LET s == srv[c]  p == user[c] IN
         /\ SrvEq(srv'[c], s.at, "on", s.writer, s.active, s.pending, s.ready, s.queue)
         /\ PeerEq(user'[c], p.open, p.sent, p.got)
<1>1. /\ srv'[c] = [srv[c] EXCEPT !.reader = "on"]
      /\ user'[c] = user[c]
  BY ConnTypes DEF SendUserData, send_to_client
<1>2. QED
  BY <1>1, ConnTypes DEF SrvEq, PeerEq, SrvRecords, PeerRecords

LEMMA SendUserDataFailsEffect ==
  ASSUME LinkTypeOK, NEW c \in Conns, SendUserData(c), ~reachable
  PROVE  LET s == srv[c]  p == user[c] IN
         /\ SrvEq(srv'[c], s.at, "closing", s.writer, s.active, s.pending, s.ready, s.queue)
         /\ PeerEq(user'[c], p.open, p.sent, p.got)
<1>1. /\ srv'[c] = [srv[c] EXCEPT !.reader = "closing"]
      /\ user'[c] = user[c]
  BY ConnTypes DEF SendUserData, send_to_client
<1>2. QED
  BY <1>1, ConnTypes DEF SrvEq, PeerEq, SrvRecords, PeerRecords

LEMMA ReadUserEndsEffect ==
  ASSUME LinkTypeOK, NEW c \in Conns, ReadUserEnds(c)
  PROVE  LET s == srv[c]  p == user[c] IN
         /\ SrvEq(srv'[c], s.at, "closing", s.writer, s.active, s.pending, s.ready, s.queue)
         /\ PeerEq(user'[c], p.open, p.sent, p.got)
<1>1. /\ srv'[c] = [srv[c] EXCEPT !.reader = "closing"]
      /\ user'[c] = user[c]
  BY ConnTypes DEF ReadUserEnds
<1>2. QED
  BY <1>1, ConnTypes DEF SrvEq, PeerEq, SrvRecords, PeerRecords

LEMMA EnterCloseEffect ==
  ASSUME LinkTypeOK, NEW c \in Conns, EnterClose(c)
  PROVE  LET s == srv[c]  p == user[c] IN
         /\ SrvEq(srv'[c], s.at, "saying bye", s.writer, s.active, s.pending, s.ready, s.queue)
         /\ PeerEq(user'[c], p.open, p.sent, p.got)
<1>1. /\ srv'[c] = [srv[c] EXCEPT !.reader = "saying bye"]
      /\ user'[c] = user[c]
  BY ConnTypes DEF EnterClose
<1>2. QED
  BY <1>1, ConnTypes DEF SrvEq, PeerEq, SrvRecords, PeerRecords

LEMMA SendCloseEffect ==
  ASSUME LinkTypeOK, NEW c \in Conns, SendClose(c)
  PROVE  LET s == srv[c]  p == user[c] IN
         /\ SrvEq(srv'[c], s.at, "ended", s.writer, s.active, s.pending, s.ready, s.queue)
         /\ PeerEq(user'[c], p.open, p.sent, p.got)
<1>1. /\ srv'[c] = [srv[c] EXCEPT !.reader = "ended"]
      /\ user'[c] = user[c]
  BY ConnTypes DEF SendClose, send_to_client
<1>2. QED
  BY <1>1, ConnTypes DEF SrvEq, PeerEq, SrvRecords, PeerRecords

LEMMA WriteUserEffect ==
  ASSUME LinkTypeOK, NEW c \in Conns, WriteUser(c), user[c].open = "open"
  PROVE  LET s == srv[c]  p == user[c] IN
         /\ SrvEq(srv'[c], s.at, s.reader, s.writer, s.active, s.pending, s.ready, Tail(s.queue))
         /\ PeerEq(user'[c], p.open, p.sent, Append(p.got, Head(s.queue)))
<1>1. /\ srv'[c] = [srv[c] EXCEPT !.queue = Tail(@)]
      /\ user'[c] = [user[c] EXCEPT !.got = Append(@, Head(srv[c].queue))]
  BY ConnTypes DEF WriteUser
<1>2. QED
  BY <1>1, ConnTypes DEF SrvEq, PeerEq, SrvRecords, PeerRecords

LEMMA WriteUserFailsEffect ==
  ASSUME LinkTypeOK, NEW c \in Conns, WriteUser(c), user[c].open # "open"
  PROVE  LET s == srv[c]  p == user[c] IN
         /\ SrvEq(srv'[c], s.at, s.reader, "ended", s.active, s.pending, s.ready, <<>>)
         /\ PeerEq(user'[c], p.open, p.sent, p.got)
<1>1. /\ srv'[c] = [srv[c] EXCEPT !.writer = "ended", !.queue = <<>>]
      /\ user'[c] = user[c]
  BY ConnTypes DEF WriteUser
<1>2. QED
  BY <1>1, ConnTypes DEF SrvEq, PeerEq, SrvRecords, PeerRecords

LEMMA WriteUserEndsEffect ==
  ASSUME LinkTypeOK, NEW c \in Conns, WriteUserEnds(c)
  PROVE  LET s == srv[c]  p == user[c] IN
         /\ SrvEq(srv'[c], s.at, s.reader, "ended", s.active, s.pending, s.ready, s.queue)
         /\ PeerEq(user'[c], p.open, p.sent, p.got)
<1>1. /\ srv'[c] = [srv[c] EXCEPT !.writer = "ended"]
      /\ user'[c] = user[c]
  BY ConnTypes DEF WriteUserEnds
<1>2. QED
  BY <1>1, ConnTypes DEF SrvEq, PeerEq, SrvRecords, PeerRecords

LEMMA HandlerEndsEffect ==
  ASSUME LinkTypeOK, NEW c \in Conns, HandlerEnds(c)
  PROVE  LET s == srv[c]  p == user[c] IN
         /\ SrvEq(srv'[c], "ended", s.reader, s.writer, FALSE, FALSE, s.ready, s.queue)
         /\ PeerEq(user'[c], p.open, p.sent, p.got)
<1>1. /\ srv'[c] = [cleanup_connection(srv[c]) EXCEPT !.at = "ended"]
      /\ user'[c] = user[c]
  BY ConnTypes DEF HandlerEnds
<1>2. QED
  BY <1>1, ConnTypes DEF SrvEq, PeerEq, SrvRecords, PeerRecords, cleanup_connection

LEMMA CloseUserEffect ==
  ASSUME LinkTypeOK, NEW c \in Conns, CloseUser(c)
  PROVE  LET s == srv[c]  p == user[c] IN
         /\ SrvEq(srv'[c], s.at, s.reader, s.writer, s.active, s.pending, s.ready, s.queue)
         /\ PeerEq(user'[c], "closed", p.sent, p.got)
<1>1. /\ srv'[c] = srv[c]
      /\ user'[c] = [user[c] EXCEPT !.open = "closed"]
  BY ConnTypes DEF CloseUser
<1>2. QED
  BY <1>1, ConnTypes DEF SrvEq, PeerEq, SrvRecords, PeerRecords

\* The client's end.
LEMMA ConnectLocalEffect ==
  ASSUME LinkTypeOK, NEW c \in Conns, ConnectLocal(c)
  PROVE  LET t == tun[c]  p == svc[c] IN
         /\ TunEq(tun'[c], "announcing", t.reader, t.writer, TRUE, t.stale, t.queue)
         /\ PeerEq(svc'[c], "open", p.sent, p.got)
<1>1. /\ tun'[c] = [tun[c] EXCEPT !.at = "announcing", !.entry = TRUE]
      /\ svc'[c] = [svc[c] EXCEPT !.open = "open"]
  BY ConnTypes DEF ConnectLocal
<1>2. QED
  BY <1>1, ConnTypes DEF TunEq, PeerEq, TunRecords, PeerRecords

LEMMA ConnectLocalFailsEffect ==
  ASSUME LinkTypeOK, NEW c \in Conns, ConnectLocalFails(c)
  PROVE  LET t == tun[c]  p == svc[c] IN
         /\ TunEq(tun'[c], "ended", t.reader, t.writer, t.entry, t.stale, t.queue)
         /\ PeerEq(svc'[c], p.open, p.sent, p.got)
<1>1. /\ tun'[c] = [tun[c] EXCEPT !.at = "ended"]
      /\ svc'[c] = svc[c]
  BY ConnTypes DEF ConnectLocalFails, to_server
<1>2. QED
  BY <1>1, ConnTypes DEF TunEq, PeerEq, TunRecords, PeerRecords

LEMMA AnnounceEffect ==
  ASSUME LinkTypeOK, NEW c \in Conns, Announce(c)
  PROVE  LET t == tun[c]  p == svc[c] IN
         /\ TunEq(tun'[c], "forwarding", "on", "on", t.entry, t.stale, t.queue)
         /\ PeerEq(svc'[c], p.open, p.sent, p.got)
<1>1. /\ tun'[c] = [tun[c] EXCEPT !.at = "forwarding", !.reader = "on", !.writer = "on"]
      /\ svc'[c] = svc[c]
  BY ConnTypes DEF Announce, to_server
<1>2. QED
  BY <1>1, ConnTypes DEF TunEq, PeerEq, TunRecords, PeerRecords

LEMMA ReadLocalEffect ==
  ASSUME LinkTypeOK, NEW c \in Conns, ReadLocal(c)
  PROVE  LET t == tun[c]  p == svc[c] IN
         /\ TunEq(tun'[c], t.at, "sending", t.writer, t.entry, t.stale, t.queue)
         /\ PeerEq(svc'[c], p.open, p.sent + 1, p.got)
<1>1. /\ tun'[c] = [tun[c] EXCEPT !.reader = "sending"]
      /\ svc'[c] = [svc[c] EXCEPT !.sent = @ + 1]
  BY ConnTypes DEF ReadLocal
<1>2. QED
  BY <1>1, ConnTypes DEF TunEq, PeerEq, TunRecords, PeerRecords

LEMMA SendLocalDataEffect ==
  ASSUME LinkTypeOK, NEW c \in Conns, SendLocalData(c), ~tun[c].stale
  PROVE  LET t == tun[c]  p == svc[c] IN
         /\ TunEq(tun'[c], t.at, "on", t.writer, t.entry, t.stale, t.queue)
         /\ PeerEq(svc'[c], p.open, p.sent, p.got)
<1>1. /\ tun'[c] = [tun[c] EXCEPT !.reader = "on"]
      /\ svc'[c] = svc[c]
  BY ConnTypes DEF SendLocalData, to_server
<1>2. QED
  BY <1>1, ConnTypes DEF TunEq, PeerEq, TunRecords, PeerRecords

LEMMA SendLocalDataFailsEffect ==
  ASSUME LinkTypeOK, NEW c \in Conns, SendLocalData(c), tun[c].stale
  PROVE  LET t == tun[c]  p == svc[c] IN
         /\ TunEq(tun'[c], t.at, "closing", t.writer, t.entry, t.stale, t.queue)
         /\ PeerEq(svc'[c], p.open, p.sent, p.got)
<1>1. /\ tun'[c] = [tun[c] EXCEPT !.reader = "closing"]
      /\ svc'[c] = svc[c]
  BY ConnTypes DEF SendLocalData, to_server
<1>2. QED
  BY <1>1, ConnTypes DEF TunEq, PeerEq, TunRecords, PeerRecords

LEMMA ReadLocalEndsEffect ==
  ASSUME LinkTypeOK, NEW c \in Conns, ReadLocalEnds(c)
  PROVE  LET t == tun[c]  p == svc[c] IN
         /\ TunEq(tun'[c], t.at, "closing", t.writer, t.entry, t.stale, t.queue)
         /\ PeerEq(svc'[c], p.open, p.sent, p.got)
<1>1. /\ tun'[c] = [tun[c] EXCEPT !.reader = "closing"]
      /\ svc'[c] = svc[c]
  BY ConnTypes DEF ReadLocalEnds
<1>2. QED
  BY <1>1, ConnTypes DEF TunEq, PeerEq, TunRecords, PeerRecords

LEMMA SendLocalCloseEffect ==
  ASSUME LinkTypeOK, NEW c \in Conns, SendLocalClose(c)
  PROVE  LET t == tun[c]  p == svc[c] IN
         /\ TunEq(tun'[c], t.at, "removing", t.writer, t.entry, t.stale, t.queue)
         /\ PeerEq(svc'[c], p.open, p.sent, p.got)
<1>1. /\ tun'[c] = [tun[c] EXCEPT !.reader = "removing"]
      /\ svc'[c] = svc[c]
  BY ConnTypes DEF SendLocalClose, to_server
<1>2. QED
  BY <1>1, ConnTypes DEF TunEq, PeerEq, TunRecords, PeerRecords

LEMMA LocalReaderRemovesEffect ==
  ASSUME LinkTypeOK, NEW c \in Conns, LocalReaderRemoves(c)
  PROVE  LET t == tun[c]  p == svc[c] IN
         /\ TunEq(tun'[c], t.at, "ended", t.writer, FALSE, t.stale, t.queue)
         /\ PeerEq(svc'[c], p.open, p.sent, p.got)
<1>1. /\ tun'[c] = [tun[c] EXCEPT !.reader = "ended", !.entry = FALSE]
      /\ svc'[c] = svc[c]
  BY ConnTypes DEF LocalReaderRemoves
<1>2. QED
  BY <1>1, ConnTypes DEF TunEq, PeerEq, TunRecords, PeerRecords

LEMMA WriteLocalEffect ==
  ASSUME LinkTypeOK, NEW c \in Conns, WriteLocal(c), svc[c].open = "open"
  PROVE  LET t == tun[c]  p == svc[c] IN
         /\ TunEq(tun'[c], t.at, t.reader, t.writer, t.entry, t.stale, Tail(t.queue))
         /\ PeerEq(svc'[c], p.open, p.sent, Append(p.got, Head(t.queue)))
<1>1. /\ tun'[c] = [tun[c] EXCEPT !.queue = Tail(@)]
      /\ svc'[c] = [svc[c] EXCEPT !.got = Append(@, Head(tun[c].queue))]
  BY ConnTypes DEF WriteLocal
<1>2. QED
  BY <1>1, ConnTypes DEF TunEq, PeerEq, TunRecords, PeerRecords

LEMMA WriteLocalFailsEffect ==
  ASSUME LinkTypeOK, NEW c \in Conns, WriteLocal(c), svc[c].open # "open"
  PROVE  LET t == tun[c]  p == svc[c] IN
         /\ TunEq(tun'[c], t.at, t.reader, "ended", t.entry, t.stale, <<>>)
         /\ PeerEq(svc'[c], p.open, p.sent, p.got)
<1>1. /\ tun'[c] = [tun[c] EXCEPT !.writer = "ended", !.queue = <<>>]
      /\ svc'[c] = svc[c]
  BY ConnTypes DEF WriteLocal
<1>2. QED
  BY <1>1, ConnTypes DEF TunEq, PeerEq, TunRecords, PeerRecords

LEMMA WriteLocalEndsEffect ==
  ASSUME LinkTypeOK, NEW c \in Conns, WriteLocalEnds(c)
  PROVE  LET t == tun[c]  p == svc[c] IN
         /\ TunEq(tun'[c], t.at, t.reader, "ended", t.entry, t.stale, t.queue)
         /\ PeerEq(svc'[c], p.open, p.sent, p.got)
<1>1. /\ tun'[c] = [tun[c] EXCEPT !.writer = "ended"]
      /\ svc'[c] = svc[c]
  BY ConnTypes DEF WriteLocalEnds
<1>2. QED
  BY <1>1, ConnTypes DEF TunEq, PeerEq, TunRecords, PeerRecords

LEMMA CloseServiceEffect ==
  ASSUME LinkTypeOK, NEW c \in Conns, CloseService(c)
  PROVE  LET t == tun[c]  p == svc[c] IN
         /\ TunEq(tun'[c], t.at, t.reader, t.writer, t.entry, t.stale, t.queue)
         /\ PeerEq(svc'[c], "closed", p.sent, p.got)
<1>1. /\ tun'[c] = tun[c]
      /\ svc'[c] = [svc[c] EXCEPT !.open = "closed"]
  BY ConnTypes DEF CloseService
<1>2. QED
  BY <1>1, ConnTypes DEF TunEq, PeerEq, TunRecords, PeerRecords

\* What the loops do to the records of a connection d.
LEMMA ServerReceivesEffect ==
  ASSUME LinkTypeOK, ServerReceives, NEW d \in Conns
  PROVE  LET s == srv[d]  m == Head(up)  on == m.id = d IN
         SrvEq(srv'[d], s.at, s.reader, s.writer,
               s.active /\ ~(on /\ m.kind \in {"ConnectFailed", "Close"}),
               s.pending /\ ~(on /\ m.kind \in {"Connected", "ConnectFailed"}),
               s.ready \/ (on /\ m.kind = "Connected" /\ s.pending), s.queue)
<1> DEFINE s == srv[d]  m == Head(up)
<1>1. srv' = listener_handles(m)
  BY DEF ServerReceives
<1>2. CASE m.id # d
  BY <1>1, <1>2, ConnTypes DEF listener_handles, SrvEq, SrvRecords
<1>3. CASE m.id = d
  <2>1. srv'[d] = CASE m.kind = "Connected" /\ s.pending -> [s EXCEPT !.pending = FALSE, !.ready = TRUE]
                    [] m.kind = "ConnectFailed" -> cleanup_connection(s)
                    [] m.kind = "Close" -> [s EXCEPT !.active = FALSE]
                    [] OTHER -> s
    BY <1>1, <1>3, ConnTypes DEF listener_handles
  <2>2. CASE m.kind = "Connected" /\ s.pending
    <3>1. srv'[d] = [s EXCEPT !.pending = FALSE, !.ready = TRUE]
      BY <2>1, <2>2
    <3>2. QED
      BY <1>3, <2>2, <3>1, ConnTypes DEF SrvEq, SrvRecords
  <2>3. CASE m.kind = "ConnectFailed"
    BY <1>3, <2>1, <2>3, ConnTypes DEF SrvEq, SrvRecords, cleanup_connection
  <2>4. CASE m.kind = "Close"
    BY <1>3, <2>1, <2>4, ConnTypes DEF SrvEq, SrvRecords
  <2>5. CASE ~(m.kind = "Connected" /\ s.pending) /\ m.kind \notin {"ConnectFailed", "Close"}
    BY <1>3, <2>1, <2>5, ConnTypes DEF SrvEq, SrvRecords
  <2>6. QED
    BY <2>2, <2>3, <2>4, <2>5
<1>4. QED
  BY <1>2, <1>3

LEMMA ServerDeliversEffect ==
  ASSUME LinkTypeOK, ServerDelivers, NEW d \in Conns
  PROVE  LET s == srv[d] IN
         SrvEq(srv'[d], s.at, s.reader, s.writer, s.active, s.pending, s.ready,
               IF sBusy.m.id = d /\ s.writer # "ended" THEN Append(s.queue, sBusy.m.n) ELSE s.queue)
<1>1. srv'[d] = IF sBusy.m.id = d /\ srv[d].writer # "ended"
                THEN [srv[d] EXCEPT !.queue = Append(@, sBusy.m.n)] ELSE srv[d]
  BY ConnTypes DEF ServerDelivers
<1>2. QED
  BY <1>1, ConnTypes DEF SrvEq, SrvRecords

LEMMA ClientReceivesEffect ==
  ASSUME LinkTypeOK, ClientReceives, NEW d \in Conns
  PROVE  LET t == tun[d]  m == Head(down)  on == m.id = d IN
         TunEq(tun'[d], IF on /\ m.kind = "Connect" THEN "connecting" ELSE t.at, t.reader, t.writer,
               t.entry /\ ~(on /\ m.kind = "Close" /\ ~t.stale), t.stale, t.queue)
<1> DEFINE t == tun[d]  m == Head(down)
<1>1. tun' = CASE m.kind = "Connect" -> [tun EXCEPT ![m.id].at = "connecting"]
               [] m.kind = "Close" /\ ~tun[m.id].stale -> [tun EXCEPT ![m.id].entry = FALSE]
               [] OTHER -> tun
  BY DEF ClientReceives, handle_server_message
<1>2. CASE m.id # d
  BY <1>1, <1>2, ConnTypes DEF TunEq, TunRecords
<1>3. CASE m.id = d
  <2>1. tun'[d] = CASE m.kind = "Connect" -> [t EXCEPT !.at = "connecting"]
                    [] m.kind = "Close" /\ ~t.stale -> [t EXCEPT !.entry = FALSE]
                    [] OTHER -> t
    BY <1>1, <1>3, ConnTypes
  <2>2. CASE m.kind = "Connect"
    BY <1>3, <2>1, <2>2, ConnTypes DEF TunEq, TunRecords
  <2>3. CASE m.kind = "Close" /\ ~t.stale
    BY <1>3, <2>1, <2>3, ConnTypes DEF TunEq, TunRecords
  <2>4. CASE m.kind # "Connect" /\ ~(m.kind = "Close" /\ ~t.stale)
    BY <1>3, <2>1, <2>4, ConnTypes DEF TunEq, TunRecords
  <2>5. QED
    BY <2>2, <2>3, <2>4
<1>4. QED
  BY <1>2, <1>3

LEMMA ClientDeliversEffect ==
  ASSUME LinkTypeOK, ClientDelivers, NEW d \in Conns
  PROVE  LET t == tun[d] IN
         TunEq(tun'[d], t.at, t.reader, t.writer, t.entry, t.stale,
               IF cBusy.m.id = d /\ t.writer # "ended" THEN Append(t.queue, cBusy.m.n) ELSE t.queue)
<1>1. tun'[d] = IF cBusy.m.id = d /\ tun[d].writer # "ended"
                THEN [tun[d] EXCEPT !.queue = Append(@, cBusy.m.n)] ELSE tun[d]
  BY ConnTypes DEF ClientDelivers
<1>2. QED
  BY <1>1, ConnTypes DEF TunEq, TunRecords

LEMMA ClientLeavesEffect ==
  ASSUME LinkTypeOK, ClientLeaves, NEW d \in Conns
  PROVE  LET t == tun[d] IN
         TunEq(tun'[d], t.at, t.reader, t.writer, FALSE, t.stale \/ t.at # "none", t.queue)
<1>1. tun'[d] = [tun[d] EXCEPT !.entry = FALSE, !.stale = @ \/ tun[d].at # "none"]
  BY DEF ClientLeaves
<1>2. QED
  BY <1>1, ConnTypes DEF TunEq, TunRecords

-------------------------------------------------------------------------------
(* The life of a connection                                                *)

Life(c) == ServerLife(c) /\ ClientLife(c) /\ EndInv(c)

\* A connection whose records stay lives on as it did.
LEMMA SameLife ==
  ASSUME NEW d \in Conns, Life(d), drops < MaxDrops => drops' < MaxDrops,
         srv'[d] = srv[d], tun'[d] = tun[d], user'[d] = user[d], svc'[d] = svc[d]
  PROVE  Life(d)'
BY DEF Life, ServerLife, ClientLife, EndInv

\* The server's steps of a connection keep its life in order.
LEMMA ServerConnLife ==
  ASSUME LinkTypeOK, LoopsInv, NEW c \in Conns, Life(c),
         Accept(c) \/ ReadUser(c) \/ CloseUser(c) \/ ServerConnStep(c)
  PROVE  Life(c)'
<1>1. ServerShape(c)
  BY ServerConnShape
<1>2. tun'[c] = tun[c] /\ svc'[c] = svc[c] /\ drops' = drops
  BY <1>1 DEF ServerShape, wireVars
<1>3. user[c].sent \in Nat /\ user[c].open \in {"new", "open", "closed"}
  BY DEF LinkTypeOK, PeerRecords
<1>4. SUFFICES ServerLife(c)' /\ EndInv(c)'
  BY <1>2 DEF Life, ClientLife
<1>g. /\ Accept(c) => user[c].open = "new"
      /\ Register(c) => srv[c].at = "accepted"
      /\ SendConnect(c) => srv[c].at = "connecting"
      /\ ConnectionReady(c) => srv[c].at = "waiting" /\ srv[c].ready
      /\ ReadyTimeout(c) => srv[c].at \in {"refused", "waiting"}
      /\ ReadUser(c) => srv[c].reader = "on"
      /\ SendUserData(c) => srv[c].reader = "sending"
      /\ ReadUserEnds(c) => srv[c].reader = "on" /\ user[c].open = "closed"
      /\ EnterClose(c) => srv[c].reader = "closing"
      /\ SendClose(c) => srv[c].reader = "saying bye"
      /\ WriteUser(c) => srv[c].writer = "on"
      /\ WriteUserEnds(c) => srv[c].writer = "on" /\ ~srv[c].active
      /\ HandlerEnds(c) => srv[c].at = "forwarding" /\ (srv[c].reader = "ended" \/ srv[c].writer = "ended")
  BY DEF Accept, Register, SendConnect, ConnectionReady, ReadyTimeout, ReadUser, SendUserData, ReadUserEnds,
     EnterClose, SendClose, WriteUser, WriteUserEnds, HandlerEnds
<1>r. ReadUser(c) => user'[c].sent > 0 /\ user'[c].open = user[c].open
  <2>1. ReadUser(c) => user'[c].sent = user[c].sent + 1 /\ user'[c].open = user[c].open
    BY ReadUserEffect DEF PeerEq
  <2>2. QED
    BY <1>3, <2>1
<1> USE DEF SrvEq, PeerEq, Life, ServerLife, EndInv
<1>5. CASE Accept(c)
  <2>1. CASE reachable
    BY <1>2, <1>5, <2>1, <1>g, AcceptEffect
  <2>2. CASE ~reachable
    BY <1>2, <1>5, <2>2, <1>g, RefuseEffect
  <2>3. QED
    BY <2>1, <2>2
<1>6. CASE Register(c)
  BY <1>2, <1>6, <1>g, RegisterEffect
<1>7. CASE SendConnect(c)
  <2>1. CASE reachable
    BY <1>2, <1>7, <2>1, <1>g, SendConnectEffect
  <2>2. CASE ~reachable
    BY <1>2, <1>7, <2>2, <1>g, SendConnectFailsEffect
  <2>3. QED
    BY <2>1, <2>2
<1>8. CASE ConnectionReady(c)
  BY <1>2, <1>8, <1>g, ConnectionReadyEffect
<1>9. CASE ReadyTimeout(c)
  BY <1>2, <1>9, <1>g, ReadyTimeoutEffect
<1>10. CASE ReadUser(c)
  <2>1. srv[c].reader = "on"
    BY <1>g, <1>10
  <2>2. user'[c].sent > 0 /\ user'[c].open = user[c].open
    BY <1>10, <1>r
  <2>3. /\ srv'[c].at = srv[c].at /\ srv'[c].reader = "sending" /\ srv'[c].writer = srv[c].writer
        /\ srv'[c].active = srv[c].active /\ srv'[c].pending = srv[c].pending /\ srv'[c].ready = srv[c].ready
    BY <1>10, ReadUserEffect
  <2>4. QED
    BY <1>2, <2>1, <2>2, <2>3
<1>11. CASE SendUserData(c)
  <2>1. CASE reachable
    BY <1>2, <1>11, <2>1, <1>g, SendUserDataEffect
  <2>2. CASE ~reachable
    <3>1. drops < MaxDrops
      BY <2>2 DEF reachable, LoopsInv, LinkTypeOK
    <3>2. QED
      BY <1>2, <1>11, <2>2, <3>1, <1>g, SendUserDataFailsEffect
  <2>3. QED
    BY <2>1, <2>2
<1>12. CASE ReadUserEnds(c)
  BY <1>2, <1>12, <1>g, ReadUserEndsEffect
<1>13. CASE EnterClose(c)
  BY <1>2, <1>13, <1>g, EnterCloseEffect
<1>14. CASE SendClose(c)
  BY <1>2, <1>14, <1>g, SendCloseEffect
<1>15. CASE WriteUser(c)
  <2>1. CASE user[c].open = "open"
    BY <1>2, <1>15, <2>1, <1>g, WriteUserEffect
  <2>2. CASE user[c].open # "open"
    BY <1>2, <1>3, <1>15, <2>2, <1>g, WriteUserFailsEffect
  <2>3. QED
    BY <2>1, <2>2
<1>16. CASE WriteUserEnds(c)
  BY <1>2, <1>16, <1>g, WriteUserEndsEffect
<1>17. CASE HandlerEnds(c)
  BY <1>2, <1>17, <1>g, HandlerEndsEffect
<1>18. CASE CloseUser(c)
  BY <1>2, <1>18, <1>g, CloseUserEffect
<1>19. QED
  BY <1>5, <1>6, <1>7, <1>8, <1>9, <1>10, <1>11, <1>12, <1>13, <1>14, <1>15, <1>16, <1>17, <1>18
     DEF ServerConnStep

\* The client's steps of a connection keep its life in order.
LEMMA ClientConnLife ==
  ASSUME LinkTypeOK, LoopsInv, NEW c \in Conns, Life(c),
         ReadLocal(c) \/ CloseService(c) \/ ClientConnStep(c)
  PROVE  Life(c)'
<1>1. ClientShape(c)
  BY ClientConnShape
<1>2. srv'[c] = srv[c] /\ user'[c] = user[c] /\ drops' = drops
  BY <1>1 DEF ClientShape, wireVars
<1>3. svc[c].sent \in Nat /\ svc[c].open \in {"new", "open", "closed"}
  BY DEF LinkTypeOK, PeerRecords
<1>g. /\ ConnectLocal(c) => tun[c].at = "connecting"
      /\ ConnectLocalFails(c) => tun[c].at = "connecting"
      /\ Announce(c) => tun[c].at = "announcing"
      /\ ReadLocal(c) => tun[c].reader = "on"
      /\ SendLocalData(c) => tun[c].reader = "sending"
      /\ ReadLocalEnds(c) => tun[c].reader = "on" /\ svc[c].open = "closed"
      /\ SendLocalClose(c) => tun[c].reader = "closing"
      /\ LocalReaderRemoves(c) => tun[c].reader = "removing"
      /\ WriteLocal(c) => tun[c].writer = "on"
      /\ WriteLocalEnds(c) => tun[c].writer = "on"
      /\ CloseService(c) => svc[c].open = "open"
  BY DEF ConnectLocal, ConnectLocalFails, Announce, ReadLocal, SendLocalData, ReadLocalEnds, SendLocalClose,
     LocalReaderRemoves, WriteLocal, WriteLocalEnds, CloseService
<1>r. ReadLocal(c) => svc'[c].sent > 0 /\ svc'[c].open = svc[c].open
  <2>1. ReadLocal(c) => svc'[c].sent = svc[c].sent + 1 /\ svc'[c].open = svc[c].open
    BY ReadLocalEffect DEF PeerEq
  <2>2. QED
    BY <1>3, <2>1
<1> USE DEF TunEq, PeerEq, Life, ServerLife, ClientLife, EndInv
<1>4. CASE ConnectLocal(c)
  BY <1>2, <1>4, <1>g, ConnectLocalEffect
<1>5. CASE ConnectLocalFails(c)
  BY <1>2, <1>5, <1>g, ConnectLocalFailsEffect
<1>6. CASE Announce(c)
  BY <1>2, <1>6, <1>g, AnnounceEffect
<1>7. CASE ReadLocal(c)
  <2>1. tun[c].reader = "on"
    BY <1>g, <1>7
  <2>2. svc'[c].sent > 0 /\ svc'[c].open = svc[c].open
    BY <1>7, <1>r
  <2>3. /\ tun'[c].at = tun[c].at /\ tun'[c].reader = "sending" /\ tun'[c].writer = tun[c].writer
        /\ tun'[c].entry = tun[c].entry
    BY <1>7, ReadLocalEffect
  <2>4. QED
    BY <1>2, <2>1, <2>2, <2>3
<1>8. CASE SendLocalData(c)
  <2>1. CASE tun[c].stale
    BY <1>2, <1>8, <2>1, <1>g, SendLocalDataFailsEffect DEF LoopsInv
  <2>2. CASE ~tun[c].stale
    BY <1>2, <1>8, <2>2, <1>g, SendLocalDataEffect
  <2>3. QED
    BY <2>1, <2>2
<1>9. CASE ReadLocalEnds(c)
  BY <1>2, <1>9, <1>g, ReadLocalEndsEffect
<1>10. CASE SendLocalClose(c)
  BY <1>2, <1>10, <1>g, SendLocalCloseEffect
<1>11. CASE LocalReaderRemoves(c)
  BY <1>2, <1>11, <1>g, LocalReaderRemovesEffect
<1>12. CASE WriteLocal(c)
  <2>1. CASE svc[c].open = "open"
    BY <1>2, <1>12, <2>1, <1>g, WriteLocalEffect
  <2>2. CASE svc[c].open # "open"
    BY <1>2, <1>12, <2>2, <1>g, WriteLocalFailsEffect
  <2>3. QED
    BY <2>1, <2>2
<1>13. CASE WriteLocalEnds(c)
  BY <1>2, <1>13, <1>g, WriteLocalEndsEffect
<1>14. CASE CloseService(c)
  BY <1>2, <1>3, <1>14, <1>g, CloseServiceEffect
<1>15. QED
  BY <1>4, <1>5, <1>6, <1>7, <1>8, <1>9, <1>10, <1>11, <1>12, <1>13, <1>14 DEF ClientConnStep

\* What a loop is about to take is on its way.
LEMMA FlightTypes ==
  ASSUME LinkTypeOK
  PROVE  /\ DownFlight \subseteq DownMsgs /\ UpFlight \subseteq UpMsgs
         /\ msg # <<>> => Head(msg) \in DownFlight
         /\ down # <<>> => Head(down) \in DownFlight
         /\ up # <<>> => Head(up) \in UpFlight
<1>1. /\ Range(msg) \subseteq DownMsgs /\ Range(down) \subseteq DownMsgs
      /\ Range(local) \subseteq UpMsgs /\ Range(up) \subseteq UpMsgs
      /\ msg # <<>> => Head(msg) \in Range(msg)
      /\ down # <<>> => Head(down) \in Range(down)
      /\ up # <<>> => Head(up) \in Range(up)
  BY RangeFacts DEF LinkTypeOK
<1>2. Wired(sBusy) \subseteq DownMsgs /\ Wired(cBusy) \subseteq UpMsgs
  BY QueueTypes DEF Wired
<1>3. QED
  BY <1>1, <1>2 DEF DownFlight, UpFlight

\* The loops: only what they receive changes the life of a connection.
LEMMA LoopLife ==
  ASSUME LinkTypeOK, LinkLife, ServerStep \/ ClientStep \/ Lose \/ Reconnect, NEW d \in Conns
  PROVE  Life(d)'
<1>0. Life(d) /\ drops \in Nat /\ MaxDrops \in Nat
  BY LinkAssumption DEF LinkLife, Life, LinkTypeOK
<1>1. CASE UNCHANGED sideVars /\ (drops' = drops \/ drops' = drops - 1)
  <2>1. drops < MaxDrops => drops' < MaxDrops
    BY <1>0, <1>1
  <2>2. QED
    BY <1>0, <1>1, <2>1, SameLife DEF sideVars
<1>2. CASE ServerReceives
  <2> DEFINE m == Head(up)
  <2>1. UpTold(m) /\ m \in UpMsgs
    BY <1>2, FlightTypes DEF ServerReceives, LinkLife, ToldInv
  <2>2. tun'[d] = tun[d] /\ user'[d] = user[d] /\ svc'[d] = svc[d] /\ drops' = drops
    BY <1>2 DEF ServerReceives, wireVars
  <2>3. CASE m.id = d /\ m.kind = "Connected"
    <3>1. tun[d].at = "forwarding"
      BY <2>1, <2>3 DEF UpTold
    <3>2. QED
      BY <1>0, <1>2, <2>2, <2>3, <3>1, ServerReceivesEffect DEF SrvEq, Life, ServerLife, ClientLife, EndInv
  <2>4. CASE m.id = d /\ m.kind = "ConnectFailed"
    <3>1. tun[d].at = "ended"
      BY <2>1, <2>4 DEF UpTold
    <3>2. QED
      BY <1>0, <1>2, <2>2, <2>4, <3>1, ServerReceivesEffect DEF SrvEq, Life, ServerLife, ClientLife, EndInv
  <2>5. CASE m.id = d /\ m.kind = "Close"
    <3>1. svc[d].open = "closed" \/ drops < MaxDrops
      BY <2>1, <2>5 DEF UpTold
    <3>2. QED
      BY <1>0, <1>2, <2>2, <2>5, <3>1, ServerReceivesEffect DEF SrvEq, Life, ServerLife, ClientLife, EndInv
  <2>6. CASE ~(m.id = d /\ m.kind \in {"Connected", "ConnectFailed", "Close"})
    BY <1>0, <1>2, <2>2, <2>6, ServerReceivesEffect DEF SrvEq, Life, ServerLife, ClientLife, EndInv
  <2>7. QED
    BY <2>3, <2>4, <2>5, <2>6
<1>3. CASE ServerDelivers
  <2>1. tun'[d] = tun[d] /\ user'[d] = user[d] /\ svc'[d] = svc[d] /\ drops' = drops
    BY <1>3 DEF ServerDelivers, wireVars
  <2>2. QED
    BY <1>0, <1>3, <2>1, ServerDeliversEffect DEF SrvEq, Life, ServerLife, ClientLife, EndInv
<1>4. CASE ClientReceives
  <2> DEFINE m == Head(down)
  <2>1. m \in DownFlight /\ DownTold(m)
    BY <1>4, FlightTypes DEF ClientReceives, LinkLife, ToldInv
  <2>2. srv'[d] = srv[d] /\ user'[d] = user[d] /\ svc'[d] = svc[d] /\ drops' = drops
    BY <1>4 DEF ClientReceives, wireVars
  <2>3. CASE m.id = d /\ m.kind = "Connect"
    <3>1. m = ConnectMsg(d)
      BY <2>1, <2>3 DEF DownTold
    <3>2. tun[d].at = "none" /\ srv[d].at \notin {"none", "accepted", "connecting"}
      BY <2>1, <3>1 DEF LinkLife, ConnectInv
    <3>3. QED
      BY <1>0, <1>4, <2>2, <2>3, <3>2, ClientReceivesEffect DEF TunEq, Life, ServerLife, ClientLife, EndInv
  <2>4. CASE ~(m.id = d /\ m.kind = "Connect")
    BY <1>0, <1>4, <2>2, <2>4, ClientReceivesEffect DEF TunEq, Life, ServerLife, ClientLife, EndInv
  <2>5. QED
    BY <2>3, <2>4
<1>5. CASE ClientDelivers
  <2>1. srv'[d] = srv[d] /\ user'[d] = user[d] /\ svc'[d] = svc[d] /\ drops' = drops
    BY <1>5 DEF ClientDelivers, wireVars
  <2>2. QED
    BY <1>0, <1>5, <2>1, ClientDeliversEffect DEF TunEq, Life, ServerLife, ClientLife, EndInv
<1>6. CASE ClientLeaves
  <2>1. srv'[d] = srv[d] /\ user'[d] = user[d] /\ svc'[d] = svc[d] /\ drops' = drops
    BY <1>6 DEF ClientLeaves
  <2>2. QED
    BY <1>0, <1>6, <2>1, ClientLeavesEffect DEF TunEq, Life, ServerLife, ClientLife, EndInv
<1>7. CASE \/ ServerSends \/ ServerSent \/ ServerLeaves \/ RemoveClient \/ UnbindClient
           \/ ClientSends \/ ClientSent \/ Lose \/ Reconnect
  BY <1>1, <1>7, Zenon DEF ServerSends, ServerSent, ServerLeaves, RemoveClient, UnbindClient,
     ClientSends, ClientSent, Lose, Reconnect, wireVars
<1>8. QED
  BY <1>2, <1>3, <1>4, <1>5, <1>6, <1>7 DEF ServerStep, ClientStep

-------------------------------------------------------------------------------
(* The loops                                                               *)

\* The server's tasks send only while its session can be reached.
LEMMA ServerKeepsLoops ==
  ASSUME LinkTypeOK, LoopsInv, NEW c \in Conns, ServerShape(c)
  PROVE  LoopsInv'
<1>1. UNCHANGED <<wire, sess, cli, drops, down, local, up, sBusy, cBusy, tun, req, serving>>
  BY DEF ServerShape, wireVars, httpVars
<1>2. sess = "down" => msg' = msg
  BY DEF ServerShape, reachable
<1>3. QED
  BY <1>1, <1>2 DEF LoopsInv, ProxySenders

\* A step of the client for c does not tell it of c, and does not outlive its loop
\* unless c does.
LEMMA ClientKnows ==
  ASSUME LinkTypeOK, NEW c \in Conns, Life(c), ReadLocal(c) \/ CloseService(c) \/ ClientConnStep(c)
  PROVE  tun[c].at # "none" /\ tun'[c].at # "none" /\ tun'[c].stale = tun[c].stale
<1>1. svc[c].open = "open" => tun[c].at # "none"
  BY DEF Life, ClientLife
<1>2. tun[c].reader # "off" \/ tun[c].writer # "off" => tun[c].at # "none"
  BY DEF Life, ClientLife
<1> USE DEF TunEq
<1>3. CASE ReadLocal(c)
  BY <1>2, <1>3, ReadLocalEffect DEF ReadLocal
<1>4. CASE CloseService(c)
  BY <1>1, <1>4, CloseServiceEffect DEF CloseService
<1>5. CASE ConnectLocal(c)
  BY <1>5, ConnectLocalEffect DEF ConnectLocal
<1>6. CASE ConnectLocalFails(c)
  BY <1>6, ConnectLocalFailsEffect DEF ConnectLocalFails
<1>7. CASE Announce(c)
  BY <1>7, AnnounceEffect DEF Announce
<1>8. CASE SendLocalData(c)
  BY <1>2, <1>8, SendLocalDataEffect, SendLocalDataFailsEffect DEF SendLocalData
<1>9. CASE ReadLocalEnds(c)
  BY <1>2, <1>9, ReadLocalEndsEffect DEF ReadLocalEnds
<1>10. CASE SendLocalClose(c)
  BY <1>2, <1>10, SendLocalCloseEffect DEF SendLocalClose
<1>11. CASE LocalReaderRemoves(c)
  BY <1>2, <1>11, LocalReaderRemovesEffect DEF LocalReaderRemoves
<1>12. CASE WriteLocal(c)
  BY <1>2, <1>12, WriteLocalEffect, WriteLocalFailsEffect DEF WriteLocal
<1>13. CASE WriteLocalEnds(c)
  BY <1>2, <1>13, WriteLocalEndsEffect DEF WriteLocalEnds
<1>14. QED
  BY <1>3, <1>4, <1>5, <1>6, <1>7, <1>8, <1>9, <1>10, <1>11, <1>12, <1>13 DEF ClientConnStep

\* The client's tasks leave the loops as they are; those of a lost WebSocket
\* are stale and send nothing.
LEMMA ClientKeepsLoops ==
  ASSUME LinkTypeOK, LoopsInv, NEW c \in Conns, Life(c),
         ReadLocal(c) \/ CloseService(c) \/ ClientConnStep(c)
  PROVE  LoopsInv'
<1>1. ClientShape(c)
  BY ClientConnShape
<1>2. UNCHANGED <<wire, sess, cli, drops, msg, down, up, sBusy, cBusy, req, serving>>
  BY <1>1 DEF ClientShape, wireVars, httpVars
<1>3. tun[c].at # "none" /\ tun'[c].at # "none" /\ tun'[c].stale = tun[c].stale
  BY ClientKnows
<1>4. cli = "down" => local' = local
  BY <1>1, <1>3 DEF LoopsInv, ClientShape
<1>5. \A d \in Conns : d # c => tun'[d] = tun[d]
  BY <1>1, OneRecord, ConnTypes DEF ClientShape
<1>6. QED
  BY <1>2, <1>3, <1>4, <1>5 DEF LoopsInv, ProxySenders

\* The loops end, and a new WebSocket comes, in the order of LoopsInv.
LEMMA LoopsKeepLoops ==
  ASSUME LinkTypeOK, LoopsInv, ServerStep \/ ClientStep \/ Lose \/ Reconnect
  PROVE  LoopsInv'
<1>0. drops \in Nat /\ drops <= MaxDrops /\ MaxDrops \in Nat
  BY LinkAssumption DEF LinkTypeOK
<1> USE DEF LoopsInv, ProxySenders, wireVars, sideVars, httpVars, queueVars
<1>1. CASE ServerSends
  BY <1>1 DEF ServerSends
<1>2. CASE ServerSent
  BY <1>2 DEF ServerSent
<1>3. CASE ServerReceives
  <2>1. UNCHANGED <<wire, sess, cli, drops, msg, down, local, cBusy, tun, serving>> /\ sess = "up"
    BY <1>3 DEF ServerReceives
  <2>2. QED
    BY <2>1
<1>4. CASE ServerDelivers
  <2>1. UNCHANGED <<wire, sess, cli, drops, msg, down, local, up, cBusy, tun, req, serving>> /\ sess = "up"
    BY <1>4 DEF ServerDelivers
  <2>2. QED
    BY <2>1
<1>5. CASE ServerLeaves
  BY <1>5 DEF ServerLeaves
<1>6. CASE RemoveClient
  BY <1>6 DEF RemoveClient
<1>7. CASE UnbindClient
  BY <1>7 DEF UnbindClient
<1>8. CASE ClientSends
  BY <1>8 DEF ClientSends
<1>9. CASE ClientSent
  BY <1>9 DEF ClientSent
<1>10. CASE ClientReceives
  <2>1. UNCHANGED <<wire, sess, cli, drops, msg, local, up, sBusy, req>> /\ cli = "up"
    BY <1>10 DEF ClientReceives
  <2>2. \A d \in Conns : tun'[d].stale = tun[d].stale /\ (tun[d].at # "none" => tun'[d].at # "none")
    BY <1>10, ClientReceivesEffect DEF TunEq
  <2>3. QED
    BY <2>1, <2>2
<1>11. CASE ClientDelivers
  <2>1. UNCHANGED <<wire, sess, cli, drops, msg, down, local, up, sBusy, req, serving>> /\ cli = "up"
    BY <1>11 DEF ClientDelivers, LinkTypeOK
  <2>2. \A d \in Conns : tun'[d].stale = tun[d].stale /\ tun'[d].at = tun[d].at
    BY <1>11, ClientDeliversEffect DEF TunEq
  <2>3. QED
    BY <2>1, <2>2
<1>12. CASE ClientLeaves
  <2>1. \A d \in Conns : tun'[d].at = tun[d].at /\ (tun'[d].stale <=> tun[d].stale \/ tun[d].at # "none")
    BY <1>12, ClientLeavesEffect DEF TunEq
  <2>2. \A q \in Reqs : serving'[q] # "asking"
    BY <1>12 DEF ClientLeaves
  <2>3. /\ UNCHANGED <<wire, sess, drops, msg, up, sBusy, req>> /\ cli' = "down" /\ ~wire
        /\ cBusy' = None /\ local' = <<>> /\ down' = <<>>
    BY <1>12 DEF ClientLeaves
  <2>4. QED
    BY <2>1, <2>2, <2>3
<1>13. CASE Lose
  BY <1>0, <1>13 DEF Lose
<1>14. CASE Reconnect
  BY <1>14 DEF Reconnect
<1>15. QED
  BY <1>1, <1>2, <1>3, <1>4, <1>5, <1>6, <1>7, <1>8, <1>9, <1>10, <1>11, <1>12, <1>13, <1>14
     DEF ServerStep, ClientStep

\* Requests go to a session that is up, or was when they looked.
LEMMA RequestsKeepLoops ==
  ASSUME LinkTypeOK, LoopsInv, NEW q \in Reqs,
         \/ ProxyRequest(q) \/ ProxyReadBody(q) \/ ProxySend(q)
         \/ ProxyTimeout(q) \/ ProxyDropped(q) \/ AnswerRequest(q)
  PROVE  LoopsInv'
<1> USE DEF LoopsInv, ProxySenders, wireVars, sideVars, httpVars, queueVars, LinkTypeOK
<1>1. CASE ProxyRequest(q)
  BY <1>1 DEF ProxyRequest
<1>2. CASE ProxyReadBody(q)
  BY <1>2 DEF ProxyReadBody
<1>3. CASE ProxySend(q)
  BY <1>3 DEF ProxySend
<1>4. CASE ProxyTimeout(q) \/ ProxyDropped(q)
  BY <1>4 DEF ProxyTimeout, ProxyDropped
<1>5. CASE AnswerRequest(q)
  BY <1>5 DEF AnswerRequest, to_server
<1>6. QED
  BY <1>1, <1>2, <1>3, <1>4, <1>5

-------------------------------------------------------------------------------
(* One Connect                                                             *)

\* A message is once in a queue if it is added once.
LEMMA OnceFacts ==
  ASSUME NEW S, NEW q \in Seq(S), NEW m
  PROVE  /\ \A x \in S : Once(q, m) /\ (x = m => m \notin Range(q)) => Once(Append(q, x), m)
         /\ q # <<>> /\ Once(q, m) => Once(Tail(q), m) /\ (Head(q) = m => m \notin Range(Tail(q)))
         /\ Once(<<>>, m)
<1>1. ASSUME NEW x \in S, Once(q, m), x = m => m \notin Range(q)
      PROVE  Once(Append(q, x), m)
  <2>1. /\ Len(q) \in Nat /\ Len(Append(q, x)) = Len(q) + 1
        /\ \A i \in 1..Len(q) : Append(q, x)[i] = q[i]
        /\ Append(q, x)[Len(q) + 1] = x
    BY AppendProperties, LenProperties
  <2>2. \A i \in 1..Len(q) : q[i] \in Range(q)
    BY LenProperties DEF Range
  <2>3. QED
    BY <1>1, <2>1, <2>2 DEF Once
<1>2. ASSUME q # <<>>, Once(q, m)
      PROVE  Once(Tail(q), m) /\ (Head(q) = m => m \notin Range(Tail(q)))
  <2>1. Len(q) \in Nat \ {0} /\ Head(q) = q[1]
    BY <1>2
  <2>2. Len(Tail(q)) = Len(q) - 1 /\ \A i \in 1..Len(Tail(q)) : Tail(q)[i] = q[i + 1]
    BY <1>2
  <2>3. DOMAIN Tail(q) = 1..Len(Tail(q))
    BY <1>2, HeadTailProperties, LenProperties
  <2>4. QED
    BY <1>2, <2>1, <2>2, <2>3 DEF Once, Range
<1>3. Once(<<>>, m)
  BY DEF Once
<1>4. QED
  BY <1>1, <1>2, <1>3

\* The handler of the server goes on from the Connect and does not come back.
LEMMA ServerGoesOn ==
  ASSUME LinkTypeOK, NEW c \in Conns, Life(c),
         Accept(c) \/ ReadUser(c) \/ CloseUser(c) \/ ServerConnStep(c),
         srv[c].at \notin {"none", "accepted", "connecting"}
  PROVE  srv'[c].at \notin {"none", "accepted", "connecting"}
<1> USE DEF SrvEq
<1>1. CASE Accept(c)
  BY <1>1 DEF Accept, Life, ServerLife
<1>2. CASE Register(c) \/ SendConnect(c)
  BY <1>2 DEF Register, SendConnect
<1>3. CASE ConnectionReady(c) \/ ReadyTimeout(c) \/ HandlerEnds(c)
  BY <1>3, ConnectionReadyEffect, ReadyTimeoutEffect, HandlerEndsEffect
<1>4. CASE ReadUser(c) \/ ReadUserEnds(c) \/ EnterClose(c) \/ SendClose(c)
  BY <1>4, ReadUserEffect, ReadUserEndsEffect, EnterCloseEffect, SendCloseEffect
<1>5. CASE SendUserData(c)
  BY <1>5, SendUserDataEffect, SendUserDataFailsEffect
<1>6. CASE WriteUser(c) \/ WriteUserEnds(c) \/ CloseUser(c)
  BY <1>6, WriteUserEffect, WriteUserFailsEffect, WriteUserEndsEffect, CloseUserEffect
<1>7. QED
  BY <1>1, <1>2, <1>3, <1>4, <1>5, <1>6 DEF ServerConnStep

\* What a step of the server's end sends.
LEMMA ServerSays ==
  ASSUME LinkTypeOK, NEW c \in Conns,
         Accept(c) \/ ReadUser(c) \/ CloseUser(c) \/ ServerConnStep(c)
  PROVE  \/ msg' = msg
         \/ /\ srv[c].at = "connecting" /\ srv'[c].at = "waiting"
            /\ msg' = Append(msg, ConnectMsg(c))
         \/ /\ srv[c].reader = "sending" /\ SendUserData(c) /\ reachable
            /\ msg' = Append(msg, Msg("Data", c, user[c].sent))
         \/ msg' = Append(msg, Msg("Close", c, 0))
<1>1. CASE SendConnect(c)
  <2>1. reachable => srv'[c].at = "waiting"
    BY <1>1, SendConnectEffect DEF SrvEq
  <2>2. QED
    BY <1>1, <2>1 DEF SendConnect, send_to_client, ConnectMsg
<1>2. CASE SendUserData(c)
  <2>1. srv[c].reader = "sending" /\ (msg' = msg \/ (reachable /\ msg' = Append(msg, Msg("Data", c, user[c].sent))))
    BY <1>2 DEF SendUserData, send_to_client
  <2>2. QED
    BY <1>2, <2>1
<1>3. CASE SendClose(c)
  BY <1>3 DEF SendClose, send_to_client
<1>4. CASE ~SendConnect(c) /\ ~SendUserData(c) /\ ~SendClose(c)
  BY <1>4, Zenon DEF Accept, ReadUser, CloseUser, ServerConnStep, Register, ConnectionReady, ReadyTimeout,
     ReadUserEnds, EnterClose, WriteUser, WriteUserEnds, HandlerEnds, queueVars
<1>5. QED
  BY <1>1, <1>2, <1>3, <1>4

\* The handler of the server sends one Connect.
LEMMA ServerConnConnect ==
  ASSUME LinkTypeOK, LinkLife, NEW c \in Conns, NEW d \in Conns,
         Accept(c) \/ ReadUser(c) \/ CloseUser(c) \/ ServerConnStep(c)
  PROVE  ConnectInv(d)'
<1> DEFINE m == ConnectMsg(d)
<1>1. ServerShape(c) /\ ConnectInv(d) /\ Life(c) /\ Life(d)
  BY ServerConnShape DEF LinkLife, Life
<1>2. UNCHANGED <<down, sBusy, tun>> /\ \A e \in Conns : e # c => srv'[e] = srv[e]
  BY <1>1, OneRecord, ConnTypes DEF ServerShape
<1>3. srv[d].at \notin {"none", "accepted", "connecting"} => srv'[d].at \notin {"none", "accepted", "connecting"}
  BY <1>1, <1>2, ServerGoesOn
<1>4. /\ \A x \in DownMsgs : Range(Append(msg, x)) = Range(msg) \cup {x}
      /\ \A x \in DownMsgs : Once(msg, m) /\ (x = m => m \notin Range(msg)) => Once(Append(msg, x), m)
  BY RangeFacts, OnceFacts DEF LinkTypeOK
<1>5. CASE msg' = msg
  BY <1>1, <1>2, <1>3, <1>5 DEF ConnectInv, DownFlight, Wired
<1>6. ASSUME NEW x \in DownMsgs, x # m, msg' = Append(msg, x)
      PROVE  ConnectInv(d)'
  <2>1. Once(msg', m) /\ (m \in Range(msg') <=> m \in Range(msg))
    BY <1>1, <1>4, <1>6 DEF ConnectInv
  <2>2. Wired(sBusy)' = Wired(sBusy)
    BY <1>2 DEF Wired
  <2> HIDE DEF m
  <2>3. m \in DownFlight' <=> m \in DownFlight
    BY <1>2, <2>1, <2>2 DEF DownFlight
  <2>4. ConnectMsg(d)' = m
    BY DEF ConnectMsg, Msg, m
  <2>5. QED
    BY <1>1, <1>2, <1>3, <2>1, <2>2, <2>3, <2>4 DEF ConnectInv, m
<1>7. CASE c = d /\ srv[c].at = "connecting" /\ srv'[c].at = "waiting" /\ msg' = Append(msg, m)
  <2>1. m \notin DownFlight /\ m \in DownMsgs /\ tun[d].at = "none"
    BY <1>1, <1>7, MsgType DEF ConnectInv, ConnectMsg, Life, ServerLife
  <2>2. Once(msg', m)
    BY <1>1, <1>4, <1>7, <2>1 DEF ConnectInv, DownFlight
  <2>3. Wired(sBusy)' = Wired(sBusy) /\ m \notin Wired(sBusy) /\ m \notin Range(down)
    BY <1>2, <2>1 DEF Wired, DownFlight
  <2>4. QED
    BY <1>1, <1>2, <1>7, <2>1, <2>2, <2>3 DEF ConnectInv
<1>8. \A n \in Nat : /\ Msg("Data", c, n) \in DownMsgs /\ Msg("Data", c, n) # m
                     /\ Msg("Close", c, n) \in DownMsgs /\ Msg("Close", c, n) # m
                     /\ c # d => ConnectMsg(c) \in DownMsgs /\ ConnectMsg(c) # m
  BY DEF Msg, ConnectMsg, DownMsgs
<1>9. user[c].sent \in Nat
  BY DEF LinkTypeOK, PeerRecords
<1>10. QED
  BY <1>5, <1>6, <1>7, <1>8, <1>9, ServerSays

\* The client sends none.
LEMMA ClientConnConnect ==
  ASSUME LinkTypeOK, LinkLife, NEW c \in Conns, NEW d \in Conns,
         ReadLocal(c) \/ CloseService(c) \/ ClientConnStep(c)
  PROVE  ConnectInv(d)'
<1>1. ClientShape(c) /\ ConnectInv(d) /\ Life(c)
  BY ClientConnShape DEF LinkLife, Life
<1>2. UNCHANGED <<msg, down, sBusy, srv>> /\ \A e \in Conns : e # c => tun'[e] = tun[e]
  BY <1>1, OneRecord, ConnTypes DEF ClientShape
<1>3. tun[d].at = "none" => tun'[d].at = "none"
  BY <1>1, <1>2, ClientKnows
<1>4. QED
  BY <1>1, <1>2, <1>3 DEF ConnectInv, DownFlight, Wired

\* The loops pass it on; the client's starts the one task of the connection.
LEMMA LoopConnect ==
  ASSUME LinkTypeOK, LinkLife, ServerStep \/ ClientStep \/ Lose \/ Reconnect, NEW d \in Conns
  PROVE  ConnectInv(d)'
<1> DEFINE m == ConnectMsg(d)
<1>1. ConnectInv(d)
  BY DEF LinkLife
<1>2. /\ \A x \in DownMsgs : Range(Append(down, x)) = Range(down) \cup {x}
      /\ \A x \in DownMsgs : Once(down, m) /\ (x = m => m \notin Range(down)) => Once(Append(down, x), m)
  BY RangeFacts, OnceFacts DEF LinkTypeOK
<1>3. /\ msg # <<>> => /\ Head(msg) \in Range(msg) /\ Range(Tail(msg)) \subseteq Range(msg)
                       /\ Once(Tail(msg), m) /\ (Head(msg) = m => m \notin Range(Tail(msg)))
      /\ down # <<>> => /\ Head(down) \in Range(down) /\ Range(Tail(down)) \subseteq Range(down)
                        /\ Once(Tail(down), m) /\ (Head(down) = m => m \notin Range(Tail(down)))
  BY <1>1, RangeFacts, OnceFacts DEF LinkTypeOK, ConnectInv
<1>4. Range(<<>>) = {} /\ Once(<<>>, m)
  BY DEF Range, Once
<1>5. CASE ServerSends
  <2>1. Wired(sBusy) = {} /\ Wired(sBusy)' = {Head(msg)} /\ msg # <<>> /\ msg' = Tail(msg)
        /\ UNCHANGED <<down, srv, tun>>
    BY <1>5, LinkAssumption, QueueTypes, HoldTypes DEF ServerSends, Wired, sideVars
  <2>2. QED
    BY <1>1, <1>3, <2>1 DEF ConnectInv, DownFlight
<1>6. CASE ServerSent
  <2>1. /\ Wired(sBusy) = {sBusy.m} /\ Wired(sBusy)' = {} /\ down' = Append(down, sBusy.m)
        /\ UNCHANGED <<msg, srv, tun>> /\ sBusy.m \in DownMsgs
    BY <1>6, QueueTypes DEF ServerSent, Wired, sideVars
  <2>2. QED
    BY <1>1, <1>2, <2>1 DEF ConnectInv, DownFlight
<1>7. CASE ServerReceives \/ ServerDelivers
  <2>1. Wired(sBusy)' = {} /\ UNCHANGED <<msg, down, tun>>
    BY <1>7 DEF ServerReceives, ServerDelivers, Wired
  <2>2. srv'[d].at = srv[d].at
    BY <1>7, ServerReceivesEffect, ServerDeliversEffect DEF SrvEq
  <2>3. QED
    BY <1>1, <2>1, <2>2 DEF ConnectInv, DownFlight
<1>8. CASE ServerLeaves
  <2>1. Wired(sBusy)' = {} /\ UNCHANGED <<msg, down, srv, tun>>
    BY <1>8 DEF ServerLeaves, Wired, sideVars
  <2>2. QED
    BY <1>1, <2>1 DEF ConnectInv, DownFlight
<1>9. CASE RemoveClient \/ ClientSends \/ ClientSent \/ Lose \/ Reconnect
  <2>1. UNCHANGED <<msg, down, sBusy, srv, tun>>
    BY <1>9 DEF RemoveClient, ClientSends, ClientSent, Lose, Reconnect, sideVars, queueVars
  <2>2. QED
    BY <1>1, <2>1 DEF ConnectInv, DownFlight, Wired
<1>10. CASE UnbindClient
  <2>1. msg' = <<>> /\ UNCHANGED <<down, sBusy, srv, tun>>
    BY <1>10 DEF UnbindClient, sideVars
  <2>2. QED
    BY <1>1, <1>4, <2>1 DEF ConnectInv, DownFlight, Wired
<1>11. CASE ClientReceives
  <2>1. down # <<>> /\ down' = Tail(down) /\ UNCHANGED <<msg, sBusy, srv>>
    BY <1>11 DEF ClientReceives
  <2>2. Head(down) \in DownFlight /\ DownTold(Head(down))
    BY <2>1, FlightTypes DEF LinkLife, ToldInv
  <2>3. Head(down) # m => tun'[d].at = tun[d].at
    BY <1>11, <2>2, ClientReceivesEffect DEF TunEq, DownTold
  <2>4. Head(down) = m => m \notin DownFlight'
    BY <1>1, <1>3, <2>1 DEF ConnectInv, DownFlight, Wired
  <2>5. QED
    BY <1>1, <1>3, <2>1, <2>3, <2>4 DEF ConnectInv, DownFlight, Wired
<1>12. CASE ClientDelivers
  <2>1. UNCHANGED <<msg, down, sBusy, srv>>
    BY <1>12 DEF ClientDelivers
  <2>2. tun'[d].at = tun[d].at
    BY <1>12, ClientDeliversEffect DEF TunEq
  <2>3. QED
    BY <1>1, <2>1, <2>2 DEF ConnectInv, DownFlight, Wired
<1>13. CASE ClientLeaves
  <2>1. UNCHANGED <<msg, sBusy, srv>> /\ down' = <<>>
    BY <1>13 DEF ClientLeaves
  <2>2. tun'[d].at = tun[d].at
    BY <1>13, ClientLeavesEffect DEF TunEq
  <2>3. QED
    BY <1>1, <1>4, <2>1, <2>2 DEF ConnectInv, DownFlight, Wired
<1>14. QED
  BY <1>5, <1>6, <1>7, <1>8, <1>9, <1>10, <1>11, <1>12, <1>13 DEF ServerStep, ClientStep

\* Requests send none.
LEMMA RequestConnect ==
  ASSUME LinkTypeOK, LinkLife, NEW d \in Conns, NEW q \in Reqs,
         \/ ProxyRequest(q) \/ ProxyReadBody(q) \/ ProxySend(q)
         \/ ProxyTimeout(q) \/ ProxyDropped(q) \/ AnswerRequest(q)
  PROVE  ConnectInv(d)'
<1> DEFINE m == ConnectMsg(d)  x == Msg("HttpRequest", q, 0)
<1>1. ConnectInv(d)
  BY DEF LinkLife
<1>2. UNCHANGED <<down, sBusy, srv, tun>>
  BY Zenon DEF ProxyRequest, ProxyReadBody, ProxySend, ProxyTimeout, ProxyDropped, AnswerRequest, queueVars, sideVars
<1>3. msg' = msg \/ msg' = Append(msg, x)
  BY Zenon DEF ProxyRequest, ProxyReadBody, ProxySend, ProxyTimeout, ProxyDropped, AnswerRequest, queueVars
<1>4. x \in DownMsgs /\ x # m
  BY MsgType DEF Msg, ConnectMsg
<1>5. Once(Append(msg, x), m) /\ Range(Append(msg, x)) = Range(msg) \cup {x}
  BY <1>1, <1>4, RangeFacts, OnceFacts DEF LinkTypeOK, ConnectInv
<1> HIDE DEF x
<1>6. Once(msg', m) /\ (m \in Range(msg') <=> m \in Range(msg))
  BY <1>1, <1>3, <1>4, <1>5 DEF ConnectInv
<1>7. QED
  BY <1>1, <1>2, <1>6 DEF ConnectInv, DownFlight, Wired

-------------------------------------------------------------------------------
(* What the messages tell                                                  *)

\* What happens to a connection is not undone.
Onward(d) ==
  /\ drops < MaxDrops => drops' < MaxDrops
  /\ tun[d].at \in {"forwarding", "ended"} => tun'[d].at = tun[d].at
  /\ svc[d].open = "closed" => svc'[d].open = "closed"
  /\ svc[d].sent <= svc'[d].sent /\ user[d].sent <= user'[d].sent

\* What a message tells stays true, as connections only go onward, and new
\* messages tell what is true.
LEMMA ToldStays ==
  ASSUME LinkTypeOK, LinkTypeOK', ToldInv, \A d \in Conns : Onward(d),
         \A m \in UpFlight' : m \in UpFlight \/ UpTold(m)',
         \A m \in DownFlight' : m \in DownFlight \/ DownTold(m)',
         sBusy' # None /\ sBusy'.to = "conn" => sBusy' = sBusy \/ sBusy'.m \in UpFlight,
         cBusy' # None /\ cBusy'.to = "conn" => cBusy' = cBusy \/ cBusy'.m \in DownFlight
  PROVE  ToldInv'
<1>1. ASSUME NEW m \in UpMsgs \cup Chunks, UpTold(m)
      PROVE  UpTold(m)'
  <2>1. CASE m.kind = "HttpResponse"
    BY <2>1 DEF UpTold
  <2>2. CASE m.kind # "HttpResponse"
    <3>1. m.id \in Conns /\ m.n \in Nat
      BY <1>1, <2>2, MsgId DEF Chunks
    <3>2. svc[m.id].sent \in Nat /\ svc'[m.id].sent \in Nat
      BY <3>1 DEF LinkTypeOK, PeerRecords
    <3>3. Onward(m.id)
      BY <3>1
    <3>4. QED
      BY <1>1, <3>1, <3>2, <3>3 DEF UpTold, Onward
  <2>3. QED
    BY <2>1, <2>2
<1>2. ASSUME NEW m \in DownMsgs \cup Chunks, DownTold(m)
      PROVE  DownTold(m)'
  <2>1. CASE m.kind = "HttpRequest"
    BY <2>1 DEF DownTold
  <2>2. CASE m.kind # "HttpRequest"
    <3>1. m.id \in Conns /\ m.n \in Nat
      BY <1>2, <2>2, MsgId DEF Chunks
    <3>2. user[m.id].sent \in Nat /\ user'[m.id].sent \in Nat
      BY <3>1 DEF LinkTypeOK, PeerRecords
    <3>3. Onward(m.id)
      BY <3>1
    <3>4. QED
      BY <1>2, <3>1, <3>2, <3>3 DEF DownTold, Onward, ConnectMsg, Msg
  <2>3. QED
    BY <2>1, <2>2
<1>3. UpFlight \subseteq UpMsgs /\ DownFlight \subseteq DownMsgs
  BY FlightTypes
<1>4. /\ \A m \in UpFlight' : UpTold(m)'
      /\ \A m \in DownFlight' : DownTold(m)'
  BY <1>1, <1>2, <1>3 DEF ToldInv
<1>5. ASSUME sBusy' # None, sBusy'.to = "conn"
      PROVE  UpTold(sBusy.m)'
  <2>1. CASE sBusy'.m \in UpFlight
    BY <1>1, <1>3, <2>1 DEF ToldInv, UpTold
  <2>2. CASE sBusy' = sBusy
    <3>1. sBusy.m \in Chunks
      BY <1>5, <2>2 DEF LinkTypeOK, ServerHolds
    <3>2. UpTold(sBusy.m)
      BY <1>5, <2>2 DEF ToldInv
    <3>3. QED
      BY <1>1, <2>2, <3>1, <3>2 DEF UpTold
  <2>3. QED
    BY <1>5, <2>1, <2>2
<1>6. ASSUME cBusy' # None, cBusy'.to = "conn"
      PROVE  DownTold(cBusy.m)'
  <2>1. CASE cBusy'.m \in DownFlight
    BY <1>2, <1>3, <2>1 DEF ToldInv, DownTold
  <2>2. CASE cBusy' = cBusy
    <3>1. cBusy.m \in Chunks
      BY <1>6, <2>2 DEF LinkTypeOK, ClientHolds
    <3>2. DownTold(cBusy.m)
      BY <1>6, <2>2 DEF ToldInv
    <3>3. QED
      BY <1>2, <2>2, <3>1, <3>2 DEF DownTold
  <2>3. QED
    BY <1>6, <2>1, <2>2
<1>7. QED
  BY <1>4, <1>5, <1>6 DEF ToldInv

\* A connection never goes back: steps at the server.
LEMMA ServerConnOnward ==
  ASSUME LinkTypeOK, NEW c \in Conns, NEW d \in Conns,
         Accept(c) \/ ReadUser(c) \/ CloseUser(c) \/ ServerConnStep(c)
  PROVE  Onward(d)
<1>1. ServerShape(c)
  BY ServerConnShape
<1>2. tun'[d] = tun[d] /\ svc'[d] = svc[d] /\ drops' = drops /\ (d # c => user'[d] = user[d])
  BY <1>1, OneRecord, ConnTypes DEF ServerShape, wireVars
<1>3. user[d].sent \in Nat /\ svc[d].sent \in Nat
  BY DEF LinkTypeOK, PeerRecords
<1>4. user'[c].sent = user[c].sent \/ user'[c].sent = user[c].sent + 1
  <2>1. CASE UNCHANGED user
    BY <2>1
  <2>2. CASE Accept(c) \/ ReadUser(c) \/ CloseUser(c) \/ ReadyTimeout(c) \/ WriteUser(c)
    BY <2>2, AcceptEffect, RefuseEffect, ReadUserEffect, CloseUserEffect, ReadyTimeoutEffect,
       WriteUserEffect, WriteUserFailsEffect DEF PeerEq
  <2>3. QED
    BY <2>1, <2>2 DEF ServerConnStep, Register, SendConnect, ConnectionReady, SendUserData, ReadUserEnds,
       EnterClose, SendClose, WriteUserEnds, HandlerEnds
<1>5. QED
  BY <1>2, <1>3, <1>4 DEF Onward

\* ... steps at the client.
LEMMA ClientConnOnward ==
  ASSUME LinkTypeOK, NEW c \in Conns, NEW d \in Conns, Life(c),
         ReadLocal(c) \/ CloseService(c) \/ ClientConnStep(c)
  PROVE  Onward(d)
<1>1. ClientShape(c)
  BY ClientConnShape
<1>2. /\ user'[d] = user[d] /\ drops' = drops
      /\ d # c => tun'[d] = tun[d] /\ svc'[d] = svc[d]
  BY <1>1, OneRecord, ConnTypes DEF ClientShape, wireVars
<1>3. user[d].sent \in Nat /\ svc[d].sent \in Nat
  BY DEF LinkTypeOK, PeerRecords
<1>4. /\ tun[c].at \in {"forwarding", "ended"} => tun'[c].at = tun[c].at
      /\ svc[c].open = "closed" => svc'[c].open = "closed"
      /\ svc'[c].sent = svc[c].sent \/ svc'[c].sent = svc[c].sent + 1
  <2>1. CASE ConnectLocal(c)
    <3>1. tun[c].at = "connecting" /\ svc[c].open = "new"
      BY <2>1 DEF ConnectLocal, Life, ClientLife
    <3>2. QED
      BY <2>1, <3>1, ConnectLocalEffect DEF PeerEq
  <2>2. CASE ConnectLocalFails(c) \/ Announce(c)
    <3>1. tun[c].at \in {"connecting", "announcing"}
      BY <2>2 DEF ConnectLocalFails, Announce
    <3>2. QED
      BY <2>2, <3>1, ConnectLocalFailsEffect, AnnounceEffect DEF PeerEq
  <2>3. CASE ReadLocal(c) \/ CloseService(c) \/ SendLocalData(c)
    BY <2>3, ReadLocalEffect, CloseServiceEffect, SendLocalDataEffect, SendLocalDataFailsEffect DEF TunEq, PeerEq
  <2>4. CASE ReadLocalEnds(c) \/ SendLocalClose(c) \/ LocalReaderRemoves(c)
    BY <2>4, ReadLocalEndsEffect, SendLocalCloseEffect, LocalReaderRemovesEffect DEF TunEq, PeerEq
  <2>5. CASE WriteLocal(c) \/ WriteLocalEnds(c)
    BY <2>5, WriteLocalEffect, WriteLocalFailsEffect, WriteLocalEndsEffect DEF TunEq, PeerEq
  <2>6. QED
    BY <2>1, <2>2, <2>3, <2>4, <2>5 DEF ClientConnStep
<1>5. QED
  BY <1>2, <1>3, <1>4 DEF Onward

\* ... steps of the loops.
LEMMA LoopOnward ==
  ASSUME LinkTypeOK, LinkLife, ServerStep \/ ClientStep \/ Lose \/ Reconnect, NEW d \in Conns
  PROVE  Onward(d)
<1>1. /\ user[d].sent \in Nat /\ svc[d].sent \in Nat
      /\ drops \in Nat /\ MaxDrops \in Nat
  BY LinkAssumption DEF LinkTypeOK, PeerRecords
<1>2. UNCHANGED <<user, svc>> /\ (drops' = drops \/ drops' = drops - 1)
  BY Zenon DEF ServerStep, ClientStep, Lose, Reconnect, ServerSends, ServerSent, ServerReceives, ServerDelivers,
     ServerLeaves, RemoveClient, UnbindClient, ClientSends, ClientSent, ClientReceives, ClientDelivers,
     ClientLeaves, sideVars, wireVars
<1>3. tun[d].at \in {"forwarding", "ended"} => tun'[d].at = tun[d].at
  <2>1. CASE UNCHANGED tun
    BY <2>1
  <2>2. CASE ClientReceives
    <3>1. DownTold(Head(down)) /\ Head(down) \in DownFlight
      BY <2>2, FlightTypes DEF LinkLife, ToldInv, ClientReceives
    <3>2. Head(down).kind = "Connect" /\ Head(down).id = d => tun[d].at = "none"
      BY <3>1 DEF DownTold, LinkLife, ConnectInv
    <3>3. QED
      BY <2>2, <3>2, ClientReceivesEffect DEF TunEq
  <2>3. CASE ClientDelivers \/ ClientLeaves
    BY <2>3, ClientDeliversEffect, ClientLeavesEffect DEF TunEq
  <2>4. QED
    BY <2>1, <2>2, <2>3, Zenon DEF ServerStep, ClientStep, Lose, Reconnect, ServerSends, ServerSent,
     ServerReceives, ServerDelivers, ServerLeaves, RemoveClient, UnbindClient, ClientSends, ClientSent, sideVars
<1>4. drops < MaxDrops => drops' < MaxDrops
  BY <1>1, <1>2
<1>5. QED
  BY <1>1, <1>2, <1>3, <1>4 DEF Onward

\* What a step of the client's end sends.
LEMMA ClientSays ==
  ASSUME LinkTypeOK, NEW c \in Conns, Life(c), ReadLocal(c) \/ CloseService(c) \/ ClientConnStep(c)
  PROVE  \/ local' = local
         \/ /\ tun'[c].at = "forwarding" /\ local' = Append(local, Msg("Connected", c, 0))
         \/ /\ tun'[c].at = "ended" /\ local' = Append(local, Msg("ConnectFailed", c, 0))
         \/ /\ tun[c].reader = "sending" /\ ~tun[c].stale /\ SendLocalData(c)
            /\ local' = Append(local, Msg("Data", c, svc[c].sent))
         \/ /\ tun[c].reader = "closing" /\ local' = Append(local, Msg("Close", c, 0))
<1>1. CASE ConnectLocalFails(c)
  <2>1. tun'[c].at = "ended"
    BY <1>1, ConnectLocalFailsEffect DEF TunEq
  <2>2. QED
    BY <1>1, <2>1 DEF ConnectLocalFails, to_server
<1>2. CASE Announce(c)
  <2>1. tun'[c].at = "forwarding"
    BY <1>2, AnnounceEffect DEF TunEq
  <2>2. QED
    BY <1>2, <2>1 DEF Announce, to_server
<1>3. CASE SendLocalData(c)
  <2>1. tun[c].reader = "sending"
        /\ (local' = local \/ (~tun[c].stale /\ local' = Append(local, Msg("Data", c, svc[c].sent))))
    BY <1>3 DEF SendLocalData, to_server
  <2>2. QED
    BY <1>3, <2>1
<1>4. CASE SendLocalClose(c)
  BY <1>4 DEF SendLocalClose, to_server
<1>5. CASE ~ConnectLocalFails(c) /\ ~Announce(c) /\ ~SendLocalData(c) /\ ~SendLocalClose(c)
  BY <1>5, Zenon DEF ReadLocal, CloseService, ClientConnStep, ConnectLocal, ReadLocalEnds,
     LocalReaderRemoves, WriteLocal, WriteLocalEnds, queueVars
<1>6. QED
  BY <1>1, <1>2, <1>3, <1>4, <1>5

LEMMA ServerConnTold ==
  ASSUME LinkTypeOK, LinkTypeOK', LinkLife, NEW c \in Conns,
         Accept(c) \/ ReadUser(c) \/ CloseUser(c) \/ ServerConnStep(c)
  PROVE  ToldInv'
<1>1. ServerShape(c) /\ ServerLife(c) /\ ToldInv
  BY ServerConnShape DEF LinkLife
<1>2. UNCHANGED <<sBusy, cBusy>>
  BY <1>1 DEF ServerShape
<1>3. \A d \in Conns : Onward(d)
  BY ServerConnOnward
<1>4. user[c].sent \in Nat /\ user'[c].sent \in Nat /\ user[c].sent <= user'[c].sent
  BY <1>3 DEF Onward, LinkTypeOK, PeerRecords
<1>5. ASSUME NEW m \in DownFlight'
      PROVE  m \in DownFlight \/ DownTold(m)'
  <2>1. CASE msg' = msg
    BY <1>1, <1>2, <1>5, <2>1 DEF ServerShape, DownFlight, Wired
  <2>2. ASSUME NEW x \in DownMsgs, msg' = Append(msg, x), m # x
        PROVE  m \in DownFlight
    <3>1. Range(msg') = Range(msg) \cup {x}
      BY <2>2, RangeFacts DEF LinkTypeOK
    <3>2. QED
      BY <1>1, <1>2, <1>5, <2>2, <3>1 DEF ServerShape, DownFlight, Wired
  <2>3. /\ m = ConnectMsg(c) \/ m = Msg("Close", c, 0) => DownTold(m)'
        /\ m = Msg("Data", c, user[c].sent) /\ srv[c].reader = "sending" => DownTold(m)'
    <3>1. srv[c].reader = "sending" => user[c].sent \in 1..user'[c].sent
      BY <1>1, <1>4 DEF ServerLife
    <3>2. QED
      BY <3>1 DEF DownTold, ConnectMsg, Msg
  <2>4. /\ ConnectMsg(c) \in DownMsgs /\ Msg("Close", c, 0) \in DownMsgs
        /\ Msg("Data", c, user[c].sent) \in DownMsgs
    BY <1>4, MsgType DEF ConnectMsg
  <2>5. QED
    BY <2>1, <2>2, <2>3, <2>4, ServerSays
<1>6. UpFlight' = UpFlight
  BY <1>1, ServerFlight
<1>7. QED
  BY <1>1, <1>2, <1>3, <1>5, <1>6, ToldStays

LEMMA ClientConnTold ==
  ASSUME LinkTypeOK, LinkTypeOK', LinkLife, NEW c \in Conns,
         ReadLocal(c) \/ CloseService(c) \/ ClientConnStep(c)
  PROVE  ToldInv'
<1>1. ClientShape(c) /\ Life(c) /\ ToldInv
  BY ClientConnShape DEF LinkLife, Life
<1>2. UNCHANGED <<sBusy, cBusy>>
  BY <1>1 DEF ClientShape
<1>3. \A d \in Conns : Onward(d)
  BY <1>1, ClientConnOnward
<1>4. svc[c].sent \in Nat /\ svc'[c].sent \in Nat /\ svc[c].sent <= svc'[c].sent
  BY <1>3 DEF Onward, LinkTypeOK, PeerRecords
<1>5. ASSUME NEW m \in UpFlight'
      PROVE  m \in UpFlight \/ UpTold(m)'
  <2>1. CASE local' = local
    BY <1>1, <1>2, <1>5, <2>1 DEF ClientShape, UpFlight, Wired
  <2>2. ASSUME NEW x \in UpMsgs, local' = Append(local, x), m # x
        PROVE  m \in UpFlight
    <3>1. Range(local') = Range(local) \cup {x}
      BY <2>2, RangeFacts DEF LinkTypeOK
    <3>2. QED
      BY <1>1, <1>2, <1>5, <2>2, <3>1 DEF ClientShape, UpFlight, Wired
  <2>3. /\ m = Msg("Connected", c, 0) /\ tun'[c].at = "forwarding" => UpTold(m)'
        /\ m = Msg("ConnectFailed", c, 0) /\ tun'[c].at = "ended" => UpTold(m)'
    BY DEF UpTold, Msg
  <2>4. m = Msg("Close", c, 0) /\ tun[c].reader = "closing" => UpTold(m)'
    <3>1. tun[c].reader = "closing" => svc'[c].open = "closed" \/ drops' < MaxDrops
      BY <1>1, <1>3 DEF Onward, Life, EndInv
    <3>2. QED
      BY <3>1 DEF UpTold, Msg
  <2>5. m = Msg("Data", c, svc[c].sent) /\ tun[c].reader = "sending" => UpTold(m)'
    <3>1. tun[c].reader = "sending" => svc[c].sent \in 1..svc'[c].sent
      BY <1>1, <1>4 DEF Life, ClientLife
    <3>2. QED
      BY <3>1 DEF UpTold, Msg
  <2>6. /\ Msg("Connected", c, 0) \in UpMsgs /\ Msg("ConnectFailed", c, 0) \in UpMsgs
        /\ Msg("Close", c, 0) \in UpMsgs /\ Msg("Data", c, svc[c].sent) \in UpMsgs
    BY <1>4, MsgType
  <2>7. QED
    BY <1>1, <2>1, <2>2, <2>3, <2>4, <2>5, <2>6, ClientSays
<1>6. DownFlight' = DownFlight
  BY <1>1, ClientFlight
<1>7. QED
  BY <1>1, <1>2, <1>3, <1>5, <1>6, ToldStays

LEMMA LoopTold ==
  ASSUME LinkTypeOK, LinkTypeOK', LinkLife, ServerStep \/ ClientStep \/ Lose \/ Reconnect
  PROVE  ToldInv'
<1>1. /\ \A d \in Conns : Onward(d)
      /\ DownFlight' \subseteq DownFlight /\ UpFlight' \subseteq UpFlight /\ ToldInv
  BY LoopOnward, LoopFlight DEF LinkLife
<1>2. sBusy' # None /\ sBusy'.to = "conn" => sBusy' = sBusy \/ sBusy'.m \in UpFlight
  <2>1. CASE ServerReceives
    BY <2>1, FlightTypes DEF ServerReceives
  <2>2. CASE ServerSends
    BY <2>2 DEF ServerSends
  <2>3. CASE ~ServerReceives /\ ~ServerSends
    <3>1. sBusy' = None \/ sBusy' = sBusy
      BY <2>3, Zenon DEF ServerStep, ClientStep, Lose, Reconnect, ServerSent, ServerDelivers, ServerLeaves,
         RemoveClient, UnbindClient, ClientSends, ClientSent, ClientReceives, ClientDelivers, ClientLeaves, queueVars
    <3>2. QED
      BY <3>1
  <2>4. QED
    BY <2>1, <2>2, <2>3
<1>3. cBusy' # None /\ cBusy'.to = "conn" => cBusy' = cBusy \/ cBusy'.m \in DownFlight
  <2>1. CASE ClientReceives
    BY <2>1, FlightTypes DEF ClientReceives
  <2>2. CASE ClientSends
    BY <2>2 DEF ClientSends
  <2>3. CASE ~ClientReceives /\ ~ClientSends
    <3>1. cBusy' = None \/ cBusy' = cBusy
      BY <2>3, Zenon DEF ServerStep, ClientStep, Lose, Reconnect, ServerSends, ServerSent, ServerReceives,
         ServerDelivers, ServerLeaves, RemoveClient, UnbindClient, ClientSent, ClientDelivers, ClientLeaves, queueVars
    <3>2. QED
      BY <3>1
  <2>4. QED
    BY <2>1, <2>2, <2>3
<1>4. QED
  BY <1>1, <1>2, <1>3, ToldStays

LEMMA RequestTold ==
  ASSUME LinkTypeOK, LinkTypeOK', LinkLife, NEW q \in Reqs,
         \/ ProxyRequest(q) \/ ProxyReadBody(q) \/ ProxySend(q)
         \/ ProxyTimeout(q) \/ ProxyDropped(q) \/ AnswerRequest(q)
  PROVE  ToldInv'
<1>1. UNCHANGED <<drops, sideVars, down, up, sBusy, cBusy>>
  BY Zenon DEF ProxyRequest, ProxyReadBody, ProxySend, ProxyTimeout, ProxyDropped, AnswerRequest, queueVars, wireVars
<1>2. /\ msg' = msg \/ msg' = Append(msg, Msg("HttpRequest", q, 0))
      /\ local' = local \/ local' = Append(local, Msg("HttpResponse", q, 0))
  BY Zenon DEF ProxyRequest, ProxyReadBody, ProxySend, ProxyTimeout, ProxyDropped, AnswerRequest, to_server, queueVars
<1>3. \A d \in Conns : Onward(d)
  BY <1>1 DEF sideVars, Onward, LinkTypeOK, PeerRecords
<1>4. DownTold(Msg("HttpRequest", q, 0))' /\ UpTold(Msg("HttpResponse", q, 0))'
  BY DEF DownTold, UpTold, Msg
<1>5. /\ Range(Append(msg, Msg("HttpRequest", q, 0))) = Range(msg) \cup {Msg("HttpRequest", q, 0)}
      /\ Range(Append(local, Msg("HttpResponse", q, 0))) = Range(local) \cup {Msg("HttpResponse", q, 0)}
  BY MsgType, RangeFacts DEF LinkTypeOK
<1>6. /\ \A m \in DownFlight' : m \in DownFlight \/ m = Msg("HttpRequest", q, 0)
      /\ \A m \in UpFlight' : m \in UpFlight \/ m = Msg("HttpResponse", q, 0)
  BY <1>1, <1>2, <1>5 DEF DownFlight, UpFlight, Wired
<1>7. /\ \A m \in DownFlight' : m \in DownFlight \/ DownTold(m)'
      /\ \A m \in UpFlight' : m \in UpFlight \/ UpTold(m)'
  BY <1>4, <1>6
<1>8. ToldInv
  BY DEF LinkLife
<1>9. QED
  BY <1>1, <1>3, <1>7, <1>8, ToldStays

-------------------------------------------------------------------------------
(* The life of the link                                                    *)

LEMMA LinkLifeInit == LinkInit => LinkLife
<1> SUFFICES ASSUME LinkInit
             PROVE  LinkLife
  OBVIOUS
<1>1. LoopsInv
  BY DEF LinkInit, LoopsInv, ProxySenders
<1>2. DownFlight = {} /\ UpFlight = {} /\ sBusy = None /\ cBusy = None /\ msg = <<>> /\ down = <<>>
  BY DEF LinkInit, UpFlight, DownFlight, Wired, Range
<1>3. ToldInv
  BY <1>2 DEF ToldInv
<1>4. ASSUME NEW c \in Conns
      PROVE  ServerLife(c) /\ ClientLife(c) /\ EndInv(c)
  BY DEF LinkInit, ServerLife, ClientLife, EndInv, Peer
<1>5. ASSUME NEW c \in Conns
      PROVE  ConnectInv(c)
  BY <1>2 DEF ConnectInv, Once, Range, Wired
<1>6. QED
  BY <1>1, <1>3, <1>4, <1>5 DEF LinkLife

\* Every step keeps the loops, the lives and the messages in order.
LEMMA LinkLifeNext ==
  ASSUME LinkTypeOK, LinkTypeOK', LinkLife, [LinkNext]_linkVars
  PROVE  LinkLife'
<1>0. LoopsInv /\ \A d \in Conns : Life(d)
  BY DEF LinkLife, Life
<1>1. SUFFICES LoopsInv' /\ ToldInv' /\ \A d \in Conns : Life(d)' /\ ConnectInv(d)'
  BY DEF LinkLife, Life
<1>2. CASE UNCHANGED linkVars
  <2>1. LoopsInv'
    BY <1>0, <1>2 DEF linkVars, LoopsInv, ProxySenders
  <2>2. ToldInv'
    BY <1>2 DEF linkVars, LinkLife, ToldInv, UpTold, DownTold, UpFlight, DownFlight, Wired
  <2>3. \A d \in Conns : Life(d)'
    BY <1>0, <1>2, SameLife DEF linkVars
  <2>4. \A d \in Conns : ConnectInv(d)'
    BY <1>2 DEF linkVars, LinkLife, ConnectInv, DownFlight, Wired
  <2>5. QED
    BY <2>1, <2>2, <2>3, <2>4
<1>3. ASSUME NEW c \in Conns, Accept(c) \/ ReadUser(c) \/ CloseUser(c) \/ ServerConnStep(c)
      PROVE  LoopsInv' /\ ToldInv' /\ \A d \in Conns : Life(d)' /\ ConnectInv(d)'
  <2>1. ServerShape(c)
    BY <1>3, ServerConnShape
  <2>2. ASSUME NEW d \in Conns
        PROVE  Life(d)'
    <3>1. CASE d = c
      BY <1>0, <1>3, <3>1, ServerConnLife
    <3>2. CASE d # c
      <4>1. /\ srv'[d] = srv[d] /\ tun'[d] = tun[d] /\ user'[d] = user[d] /\ svc'[d] = svc[d]
            /\ drops' = drops
        BY <2>1, <3>2, OneRecord, ConnTypes DEF ServerShape, wireVars
      <4>2. QED
        BY <1>0, <4>1, SameLife
    <3>3. QED
      BY <3>1, <3>2
  <2>3. QED
    BY <1>0, <1>3, <2>1, <2>2, ServerKeepsLoops, ServerConnTold, ServerConnConnect
<1>4. ASSUME NEW c \in Conns, ReadLocal(c) \/ CloseService(c) \/ ClientConnStep(c)
      PROVE  LoopsInv' /\ ToldInv' /\ \A d \in Conns : Life(d)' /\ ConnectInv(d)'
  <2>1. ClientShape(c)
    BY <1>4, ClientConnShape
  <2>2. ASSUME NEW d \in Conns
        PROVE  Life(d)'
    <3>1. CASE d = c
      BY <1>0, <1>4, <3>1, ClientConnLife
    <3>2. CASE d # c
      <4>1. /\ srv'[d] = srv[d] /\ tun'[d] = tun[d] /\ user'[d] = user[d] /\ svc'[d] = svc[d]
            /\ drops' = drops
        BY <2>1, <3>2, OneRecord, ConnTypes DEF ClientShape, wireVars
      <4>2. QED
        BY <1>0, <4>1, SameLife
    <3>3. QED
      BY <3>1, <3>2
  <2>3. QED
    BY <1>0, <1>4, <2>2, ClientKeepsLoops, ClientConnTold, ClientConnConnect
<1>5. CASE ServerStep \/ ClientStep \/ Lose \/ Reconnect
  BY <1>0, <1>5, LoopsKeepLoops, LoopTold, LoopLife, LoopConnect
<1>6. ASSUME NEW q \in Reqs, \/ ProxyRequest(q) \/ ProxyReadBody(q) \/ ProxySend(q)
                             \/ ProxyTimeout(q) \/ ProxyDropped(q) \/ AnswerRequest(q)
      PROVE  LoopsInv' /\ ToldInv' /\ \A d \in Conns : Life(d)' /\ ConnectInv(d)'
  <2>1. UNCHANGED <<drops, sideVars>>
    BY <1>6, Zenon DEF ProxyRequest, ProxyReadBody, ProxySend, ProxyTimeout, ProxyDropped, AnswerRequest, wireVars
  <2>2. \A d \in Conns : Life(d)'
    BY <1>0, <2>1, SameLife DEF sideVars
  <2>3. QED
    BY <1>0, <1>6, <2>2, RequestsKeepLoops, RequestTold, RequestConnect
<1>7. QED
  BY <1>2, <1>3, <1>4, <1>5, <1>6 DEF LinkNext

\* Neither end leaves an entry behind: handle_connection's maps on the server and
\* local_connections on the client keep a connection only while a task that will
\* remove it is there, whatever is lost, refused or closed on the way.
THEOREM EntriesAreOwned == LinkSpec => []EntriesHaveOwner
<1> DEFINE Inv == LinkTypeOK /\ LinkLife
<1>1. LinkInit => Inv
  BY LinkTypeInit, LinkLifeInit
<1>2. Inv /\ [LinkNext]_linkVars => Inv'
  BY LinkTypeNext, LinkLifeNext
<1>3. Inv => EntriesHaveOwner
  BY DEF LinkLife, ServerLife, ClientLife, EntriesHaveOwner
<1>4. QED
  BY <1>1, <1>2, <1>3, PTL DEF LinkSpec

\* As long as no WebSocket is lost, a connection that was ready ends only after one
\* of its two peers has closed it.
THEOREM OpenConnectionsStay == LinkSpec => []OpenConnectionStays
<1> DEFINE Inv == LinkTypeOK /\ LinkLife
<1>1. LinkInit => Inv
  BY LinkTypeInit, LinkLifeInit
<1>2. Inv /\ [LinkNext]_linkVars => Inv'
  BY LinkTypeNext, LinkLifeNext
<1>3. Inv => OpenConnectionStays
  <2>1. SUFFICES ASSUME Inv, NEW c \in Conns, srv[c].at = "ended", srv[c].ready, drops = MaxDrops
                 PROVE  user[c].open = "closed" \/ svc[c].open = "closed"
    BY DEF OpenConnectionStays
  <2>2. ~srv[c].active /\ ~(drops < MaxDrops)
    BY <2>1, LinkAssumption DEF LinkLife, ServerLife
  <2>3. QED
    BY <2>1, <2>2 DEF LinkLife, EndInv
<1>4. QED
  BY <1>1, <1>2, <1>3, PTL DEF LinkSpec

===================================================================================
