------------------------------ MODULE TunnelLinkInv ------------------------------
(***************************************************************************)
(* The inductive invariants of TunnelLink: what a connection's two ends    *)
(* know of each other, and which chunks are where on the way.              *)
(***************************************************************************)
EXTENDS TunnelLink, Functions

SrvRecords ==
  [at : {"none", "accepted", "connecting", "refused", "waiting", "forwarding", "ended"},
   reader : {"off", "on", "sending", "closing", "saying bye", "ended"},
   writer : {"off", "on", "ended"},
   active : BOOLEAN, pending : BOOLEAN, ready : BOOLEAN, queue : Seq(Nat)]
TunRecords ==
  [at : {"none", "connecting", "announcing", "forwarding", "ended"},
   reader : {"off", "on", "sending", "closing", "removing", "ended"},
   writer : {"off", "on", "ended"},
   entry : BOOLEAN, stale : BOOLEAN, queue : Seq(Nat)]
PeerRecords == [open : {"new", "open", "closed"}, sent : Nat, got : Seq(Nat)]

LinkTypeOK ==
  /\ wire \in BOOLEAN
  /\ sess \in {"up", "leaving", "unbinding", "down"}
  /\ cli \in {"up", "down"}
  /\ msg \in Seq(DownMsgs) /\ down \in Seq(DownMsgs)
  /\ local \in Seq(UpMsgs) /\ up \in Seq(UpMsgs)
  /\ sBusy \in ServerHolds \cup {None}
  /\ cBusy \in ClientHolds \cup {None}
  /\ srv \in [Conns -> SrvRecords]
  /\ tun \in [Conns -> TunRecords]
  /\ user \in [Conns -> PeerRecords]
  /\ svc \in [Conns -> PeerRecords]
  /\ req \in [Reqs -> {"new", "reading", "sending", "waiting", "answered", "timeout",
                       "dropped", "failed"}]
  /\ pendingReq \subseteq Reqs
  /\ serving \in [Reqs -> {"no", "asking", "done"}]
  /\ drops \in 0..MaxDrops

-------------------------------------------------------------------------------
(* Messages on their way                                                   *)

Wired(busy) == IF busy # None /\ busy.to = "wire" THEN {busy.m} ELSE {}
DownFlight == Range(msg) \cup Wired(sBusy) \cup Range(down)
UpFlight == Range(local) \cup Wired(cBusy) \cup Range(up)

Once(q, m) == \A i, j \in 1..Len(q) : q[i] = m /\ q[j] = m => i = j

\* The chunks of c in q are those numbered lo + 1 to hi, in this order.
IsChunk(m, c) == m.kind = "Data" /\ m.id = c
Carries(q, c, lo, hi) ==
  /\ lo <= hi
  /\ \A i \in 1..Len(q) : IsChunk(q[i], c) => q[i].n \in (lo + 1)..hi
  /\ \A n \in (lo + 1)..hi : \E i \in 1..Len(q) : IsChunk(q[i], c) /\ q[i].n = n
  /\ \A i, j \in 1..Len(q) : i < j /\ IsChunk(q[i], c) /\ IsChunk(q[j], c) => q[i].n < q[j].n

\* The same for what a loop holds for the wire: one chunk or none.
WireChunk(busy, c) == busy # None /\ busy.to = "wire" /\ IsChunk(busy.m, c)
Bears(busy, c, lo, hi) ==
  IF WireChunk(busy, c) THEN hi = lo + 1 /\ busy.m.n = hi ELSE hi = lo

\* From a loop's channel q over what it holds to the wire w.
Transit(w, busy, q, c, lo, hi) ==
  \E a, b \in lo..hi : Carries(w, c, lo, a) /\ Bears(busy, c, a, b) /\ Carries(q, c, b, hi)

-------------------------------------------------------------------------------
(* The WebSocket and the two loops                                         *)

\* A loop that has ended holds nothing and has read all it will ever read; both
\* have noticed the loss before there is another WebSocket.
LoopsInv ==
  /\ sess # "up" => ~wire /\ sBusy = None /\ up = <<>>
  /\ sess = "down" => msg = <<>>
  /\ ProxySenders # {} => sess \in {"up", "leaving"}
  /\ cli = "down" => ~wire /\ cBusy = None /\ local = <<>> /\ down = <<>>
  /\ cli = "down" => /\ \A c \in Conns : tun[c].at # "none" => tun[c].stale
                     /\ \A q \in Reqs : serving[q] # "asking"
  /\ ~wire => drops < MaxDrops
  /\ \A c \in Conns : tun[c].stale => drops < MaxDrops /\ tun[c].at # "none"

-------------------------------------------------------------------------------
(* The life of a connection                                                *)

\* The handler of the server tells the client once, and learns of it only after
\* the client has begun to forward.
ServerLife(c) ==
  /\ srv[c].active \/ srv[c].pending =>
       srv[c].at \in {"connecting", "refused", "waiting", "forwarding"}
  /\ user[c].open = "new" => srv[c].at = "none"
  /\ srv[c].at = "forwarding" => srv[c].ready
  /\ srv[c].reader # "off" \/ srv[c].writer # "off" => srv[c].at \in {"forwarding", "ended"} /\ srv[c].ready
  /\ srv[c].reader = "off" => user[c].sent = 0
  /\ srv[c].reader = "sending" => user[c].sent > 0
  /\ srv[c].ready => tun[c].at = "forwarding"
  /\ srv[c].at \in {"none", "accepted", "connecting"} => tun[c].at = "none"

\* The task of the client, and the entry it keeps until its reader ends.
ClientLife(c) ==
  /\ tun[c].at \in {"none", "connecting"} => svc[c].open = "new"
  /\ tun[c].at = "forwarding" <=> tun[c].reader # "off"
  /\ tun[c].at = "forwarding" <=> tun[c].writer # "off"
  /\ tun[c].reader = "off" => svc[c].sent = 0
  /\ tun[c].reader = "sending" => svc[c].sent > 0
  /\ tun[c].entry => tun[c].at \in {"announcing", "forwarding"} /\ tun[c].reader # "ended"

ConnectMsg(c) == Msg("Connect", c, 0)

\* One Connect at most is on its way, and none when the client has had it or the
\* server has not sent it.
ConnectInv(c) ==
  LET m == ConnectMsg(c)
  IN  /\ Once(msg, m) /\ Once(down, m)
      /\ ~(m \in Range(msg) /\ m \in Wired(sBusy))
      /\ ~(m \in Range(msg) /\ m \in Range(down))
      /\ ~(m \in Wired(sBusy) /\ m \in Range(down))
      /\ m \in DownFlight =>
           tun[c].at = "none" /\ srv[c].at \notin {"none", "accepted", "connecting"}

\* What a message of the client says of it, and a chunk of the user of him.
UpTold(m) ==
  /\ m.kind = "Connected" => tun[m.id].at = "forwarding"
  /\ m.kind = "ConnectFailed" => tun[m.id].at = "ended"
  /\ m.kind = "Close" => svc[m.id].open = "closed" \/ drops < MaxDrops
  /\ m.kind = "Data" => m.n \in 1..svc[m.id].sent
DownTold(m) ==
  /\ m.kind = "Connect" => m = ConnectMsg(m.id)
  /\ m.kind = "Data" => m.n \in 1..user[m.id].sent

ToldInv ==
  /\ \A m \in UpFlight : UpTold(m)
  /\ \A m \in DownFlight : DownTold(m)
  /\ sBusy # None /\ sBusy.to = "conn" => UpTold(sBusy.m)
  /\ cBusy # None /\ cBusy.to = "conn" => DownTold(cBusy.m)

\* A request and its answer are on their way only after the handler has sent it.
Early == {"new", "reading", "sending"}
RequestInv ==
  /\ \A m \in DownFlight : m.kind = "HttpRequest" => req[m.id] \notin Early
  /\ \A m \in UpFlight : m.kind = "HttpResponse" => req[m.id] \notin Early
  /\ \A q \in Reqs : serving[q] = "asking" => req[q] \notin Early

\* Why an end stopped forwarding.
EndInv(c) ==
  LET over == user[c].open = "closed" \/ svc[c].open = "closed" \/ drops < MaxDrops
  IN  /\ srv[c].reader \in {"closing", "saying bye", "ended"} => over
      /\ srv[c].writer = "ended" => over
      /\ (srv[c].ready \/ srv[c].pending) /\ ~srv[c].active => over
      /\ tun[c].reader \in {"closing", "removing", "ended"} => svc[c].open = "closed" \/ drops < MaxDrops

-------------------------------------------------------------------------------
(* The chunks on their way                                                 *)

\* Where they come out: what the peer has got is 1, 2, 3..., the channel holds what
\* follows, and the loop the one after that, unless nobody empties the channel.
ConnChunk(busy, c) == busy # None /\ busy.to = "conn" /\ busy.m.id = c
Base(got, queue, busy, c) == Len(got) + Len(queue) + (IF ConnChunk(busy, c) THEN 1 ELSE 0)
Arrives(got, queue, busy, c, writer, sent) ==
  /\ \A i \in 1..Len(got) : got[i] = i
  /\ \A i \in 1..Len(queue) : queue[i] = Len(got) + i
  /\ Len(got) <= sent
  /\ IF writer = "ended" THEN queue = <<>>
     ELSE /\ Base(got, queue, busy, c) <= sent
          /\ ConnChunk(busy, c) => busy.m.n = Base(got, queue, busy, c)

\* Where they come from: all that was read is on its way, but for the one the reader
\* is about to send.  A link that is cut carries no more than what is on the wire.
Live(w, busy, q, c, lo, sent, reader) ==
  \E e \in lo..sent : /\ Transit(w, busy, q, c, lo, e)
                      /\ reader = "sending" => e = sent - 1
                      /\ reader \in {"off", "on"} => e = sent
Cut(w, c, lo, sent) == \E a \in lo..sent : Carries(w, c, lo, a)

DownBase(c) == Base(user[c].got, srv[c].queue, sBusy, c)
DownChain(c) ==
  IF tun[c].stale THEN Cut(up, c, DownBase(c), svc[c].sent)
  ELSE Live(up, cBusy, local, c, DownBase(c), svc[c].sent, tun[c].reader)
UpBase(c) == Base(svc[c].got, tun[c].queue, cBusy, c)
UpChain(c) ==
  IF sess # "up" THEN Cut(down, c, UpBase(c), user[c].sent)
  ELSE Live(down, sBusy, msg, c, UpBase(c), user[c].sent, srv[c].reader)

\* From the service to the user.
DownInv(c) ==
  /\ Arrives(user[c].got, srv[c].queue, sBusy, c, srv[c].writer, svc[c].sent)
  /\ ConnChunk(sBusy, c) => srv[c].active
  /\ tun[c].stale => ~WireChunk(cBusy, c) /\ \A i \in 1..Len(local) : ~IsChunk(local[i], c)
  /\ sess = "up" /\ srv[c].active /\ srv[c].writer # "ended" => DownChain(c)

\* From the user to the service.
UpInv(c) ==
  /\ Arrives(svc[c].got, tun[c].queue, cBusy, c, tun[c].writer, user[c].sent)
  /\ ConnChunk(cBusy, c) => ~tun[c].stale
  /\ tun[c].at = "forwarding" /\ tun[c].entry /\ ~tun[c].stale /\ tun[c].writer # "ended" => UpChain(c)

LinkLife ==
  /\ LoopsInv /\ ToldInv
  /\ \A c \in Conns : ServerLife(c) /\ ClientLife(c) /\ ConnectInv(c) /\ EndInv(c)

LinkInv == LinkTypeOK /\ LinkLife /\ \A c \in Conns : DownInv(c) /\ UpInv(c)
===================================================================================
