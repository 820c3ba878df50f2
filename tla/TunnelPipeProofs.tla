---------------------------- MODULE TunnelPipeProofs ----------------------------
(***************************************************************************)
(* TunnelLink implements Pipe in both directions.  The inductive invariant *)
(* says where the chunks of a connection are: what has arrived, what its   *)
(* channel and the loop hold, what is on the wire and in the channel of    *)
(* the other loop, without a gap between two of these places.              *)
(***************************************************************************)
EXTENDS TunnelLinkProofs

-------------------------------------------------------------------------------
(* The chunks in a channel                                                 *)

\* A message at the end of a queue is another connection's, or the next chunk.
LEMMA CarriesAppend ==
  ASSUME NEW S, \A x \in S : x.n \in Nat, NEW q \in Seq(S), NEW c, NEW lo \in Nat, NEW hi \in Nat,
         NEW x \in S, Carries(q, c, lo, hi)
  PROVE  /\ ~IsChunk(x, c) => Carries(Append(q, x), c, lo, hi)
         /\ IsChunk(x, c) /\ x.n = hi + 1 => Carries(Append(q, x), c, lo, hi + 1)
<1> DEFINE p == Append(q, x)
<1>1. /\ Len(q) \in Nat /\ Len(p) = Len(q) + 1
      /\ \A i \in 1..Len(q) : p[i] = q[i] /\ q[i] \in S /\ p[i].n \in Nat
      /\ p[Len(q) + 1] = x /\ x.n \in Nat
  BY AppendProperties, LenProperties, ElementOfSeq
<1> HIDE DEF p
<1>2. ASSUME ~IsChunk(x, c)
      PROVE  Carries(p, c, lo, hi)
  <2>1. \A i \in 1..Len(p) : IsChunk(p[i], c) => i \in 1..Len(q) /\ p[i] = q[i]
    BY <1>1, <1>2
  <2>2. \A i \in 1..Len(q) : i \in 1..Len(p) /\ p[i] = q[i]
    BY <1>1
  <2>3. QED
    BY <2>1, <2>2 DEF Carries
<1>3. ASSUME IsChunk(x, c), x.n = hi + 1
      PROVE  Carries(p, c, lo, hi + 1)
  <2>1. \A i \in 1..Len(p) : IsChunk(p[i], c) => p[i].n \in (lo + 1)..(hi + 1)
    BY <1>1, <1>3 DEF Carries
  <2>2. \A n \in (lo + 1)..(hi + 1) : \E i \in 1..Len(p) : IsChunk(p[i], c) /\ p[i].n = n
    <3> SUFFICES ASSUME NEW n \in (lo + 1)..(hi + 1)
                 PROVE  \E i \in 1..Len(p) : IsChunk(p[i], c) /\ p[i].n = n
      OBVIOUS
    <3>1. CASE n = hi + 1
      BY <1>1, <1>3, <3>1
    <3>2. CASE n # hi + 1
      <4>1. n \in (lo + 1)..hi
        BY <3>2
      <4>2. PICK i \in 1..Len(q) : IsChunk(q[i], c) /\ q[i].n = n
        BY <4>1 DEF Carries
      <4>3. QED
        BY <1>1, <4>2
    <3>3. QED
      BY <3>1, <3>2
  <2>3. \A i, j \in 1..Len(p) : i < j /\ IsChunk(p[i], c) /\ IsChunk(p[j], c) => p[i].n < p[j].n
    BY <1>1, <1>3 DEF Carries
  <2>4. lo <= hi + 1
    BY DEF Carries
  <2>5. QED
    BY <2>1, <2>2, <2>3, <2>4 DEF Carries
<1>4. QED
  BY <1>2, <1>3 DEF p

\* The first chunk of a queue is the one numbered lo + 1; what follows carries
\* on after it.
LEMMA CarriesTail ==
  ASSUME NEW S, \A x \in S : x.n \in Nat, NEW q \in Seq(S), NEW c, NEW lo \in Nat, NEW hi \in Nat,
         q # <<>>, Carries(q, c, lo, hi)
  PROVE  /\ ~IsChunk(Head(q), c) => Carries(Tail(q), c, lo, hi)
         /\ IsChunk(Head(q), c) => /\ Head(q).n = lo + 1 /\ lo < hi
                                   /\ Carries(Tail(q), c, lo + 1, hi)
<1> DEFINE p == Tail(q)
<1>1. /\ Len(q) \in Nat \ {0} /\ Head(q) = q[1]
      /\ Len(p) = Len(q) - 1 /\ \A i \in 1..Len(p) : p[i] = q[i + 1]
  OBVIOUS
<1>2. \A i \in 1..Len(q) : q[i].n \in Nat
  BY ElementOfSeq
<1> HIDE DEF p
<1>3. \A j \in 2..Len(q) : j - 1 \in 1..Len(p) /\ p[j - 1] = q[j]
  BY <1>1
<1>4. ASSUME ~IsChunk(q[1], c)
      PROVE  Carries(p, c, lo, hi)
  <2>1. \A n \in (lo + 1)..hi : \E i \in 1..Len(p) : IsChunk(p[i], c) /\ p[i].n = n
    <3> SUFFICES ASSUME NEW n \in (lo + 1)..hi
                 PROVE  \E i \in 1..Len(p) : IsChunk(p[i], c) /\ p[i].n = n
      OBVIOUS
    <3>1. PICK j \in 1..Len(q) : IsChunk(q[j], c) /\ q[j].n = n
      BY DEF Carries
    <3>2. j \in 2..Len(q)
      BY <1>1, <1>4, <3>1
    <3>3. QED
      BY <1>3, <3>1, <3>2
  <2>2. \A i \in 1..Len(p) : i + 1 \in 1..Len(q) /\ p[i] = q[i + 1]
    BY <1>1
  <2>3. \A i, j \in 1..Len(p) : i < j /\ IsChunk(p[i], c) /\ IsChunk(p[j], c) => p[i].n < p[j].n
    <3> SUFFICES ASSUME NEW i \in 1..Len(p), NEW j \in 1..Len(p), i < j, IsChunk(p[i], c), IsChunk(p[j], c)
                 PROVE  p[i].n < p[j].n
      OBVIOUS
    <3>1. i + 1 < j + 1
      OBVIOUS
    <3>2. QED
      BY <2>2, <3>1 DEF Carries
  <2>4. \A i \in 1..Len(p) : IsChunk(p[i], c) => p[i].n \in (lo + 1)..hi
    BY <2>2 DEF Carries
  <2>5. QED
    BY <2>1, <2>3, <2>4 DEF Carries
<1>5. ASSUME IsChunk(q[1], c)
      PROVE  q[1].n = lo + 1 /\ lo < hi /\ Carries(p, c, lo + 1, hi)
  <2>1. q[1].n \in (lo + 1)..hi
    BY <1>1, <1>5 DEF Carries
  <2>2. q[1].n = lo + 1
    <3>1. PICK j \in 1..Len(q) : IsChunk(q[j], c) /\ q[j].n = lo + 1
      BY <2>1 DEF Carries
    <3>2. CASE j = 1
      BY <3>1, <3>2
    <3>3. CASE 1 < j
      <4>1. q[1].n < q[j].n
        BY <1>1, <1>5, <3>1, <3>3 DEF Carries
      <4>2. QED
        BY <2>1, <3>1, <4>1
    <3>4. QED
      BY <3>2, <3>3
  <2>3. \A i \in 1..Len(p) : IsChunk(p[i], c) => p[i].n \in (lo + 2)..hi
    <3> SUFFICES ASSUME NEW i \in 1..Len(p), IsChunk(p[i], c)
                 PROVE  p[i].n \in (lo + 2)..hi
      OBVIOUS
    <3>1. i + 1 \in 1..Len(q) /\ 1 < i + 1 /\ p[i] = q[i + 1] /\ 1 \in 1..Len(q)
      BY <1>1
    <3>2. q[1].n < q[i + 1].n /\ q[i + 1].n \in (lo + 1)..hi
      BY <1>5, <3>1 DEF Carries
    <3>3. QED
      BY <2>2, <3>1, <3>2
  <2>4. \A n \in (lo + 2)..hi : \E i \in 1..Len(p) : IsChunk(p[i], c) /\ p[i].n = n
    <3> SUFFICES ASSUME NEW n \in (lo + 2)..hi
                 PROVE  \E i \in 1..Len(p) : IsChunk(p[i], c) /\ p[i].n = n
      OBVIOUS
    <3>1. PICK j \in 1..Len(q) : IsChunk(q[j], c) /\ q[j].n = n
      BY DEF Carries
    <3>2. j \in 2..Len(q)
      BY <1>1, <2>2, <3>1
    <3>3. QED
      BY <1>3, <3>1, <3>2
  <2>5. \A i, j \in 1..Len(p) : i < j /\ IsChunk(p[i], c) /\ IsChunk(p[j], c) => p[i].n < p[j].n
    <3> SUFFICES ASSUME NEW i \in 1..Len(p), NEW j \in 1..Len(p), i < j, IsChunk(p[i], c), IsChunk(p[j], c)
                 PROVE  p[i].n < p[j].n
      OBVIOUS
    <3>1. i + 1 \in 1..Len(q) /\ j + 1 \in 1..Len(q) /\ i + 1 < j + 1 /\ p[i] = q[i + 1] /\ p[j] = q[j + 1]
      BY <1>1
    <3>2. QED
      BY <3>1 DEF Carries
  <2>6. lo + 1 <= hi /\ (lo + 1) + 1 = lo + 2
    BY <2>1
  <2>7. QED
    BY <2>2, <2>3, <2>4, <2>5, <2>6 DEF Carries
<1>6. QED
  BY <1>1, <1>4, <1>5 DEF p

\* A queue without a chunk of c.
LEMMA CarriesNothing ==
  ASSUME NEW c, NEW lo \in Nat, NEW q, \A i \in 1..Len(q) : ~IsChunk(q[i], c)
  PROVE  Carries(q, c, lo, lo)
BY DEF Carries


-------------------------------------------------------------------------------
(* From the reader of one end to the loop of the other                     *)

\* Other messages in the sending loop's channel change nothing for c.
LEMMA LiveNoise ==
  ASSUME NEW S, \A x \in S : x.n \in Nat, NEW w \in Seq(S), NEW q \in Seq(S), NEW busy, NEW c,
         NEW lo \in Nat, NEW sent \in Nat, NEW reader, NEW x \in S, ~IsChunk(x, c),
         Live(w, busy, q, c, lo, sent, reader)
  PROVE  Live(w, busy, Append(q, x), c, lo, sent, reader)
<1>1. PICK e \in lo..sent : /\ Transit(w, busy, q, c, lo, e)
                            /\ reader = "sending" => e = sent - 1
                            /\ reader \in {"off", "on"} => e = sent
  BY DEF Live
<1>2. PICK a \in lo..e, b \in lo..e : Carries(w, c, lo, a) /\ Bears(busy, c, a, b) /\ Carries(q, c, b, e)
  BY <1>1 DEF Transit
<1>3. b \in Nat /\ e \in Nat
  OBVIOUS
<1>4. Carries(Append(q, x), c, b, e)
  BY <1>2, <1>3, CarriesAppend
<1>5. Transit(w, busy, Append(q, x), c, lo, e)
  BY <1>2, <1>4 DEF Transit
<1>6. QED
  BY <1>1, <1>5 DEF Live

\* The reader sends the chunk it has read.
LEMMA LiveSend ==
  ASSUME NEW S, \A x \in S : x.n \in Nat, NEW w \in Seq(S), NEW q \in Seq(S), NEW busy, NEW c,
         NEW lo \in Nat, NEW sent \in Nat, NEW x \in S, IsChunk(x, c), x.n = sent,
         Live(w, busy, q, c, lo, sent, "sending")
  PROVE  Live(w, busy, Append(q, x), c, lo, sent, "on")
<1>1. sent - 1 \in lo..sent /\ Transit(w, busy, q, c, lo, sent - 1)
  BY DEF Live
<1>2. PICK a \in lo..(sent - 1), b \in lo..(sent - 1) :
        Carries(w, c, lo, a) /\ Bears(busy, c, a, b) /\ Carries(q, c, b, sent - 1)
  BY <1>1 DEF Transit
<1>3. sent - 1 \in Nat /\ (sent - 1) + 1 = sent /\ b \in Nat
  BY <1>1
<1>4. Carries(Append(q, x), c, b, sent)
  BY <1>2, <1>3, CarriesAppend
<1>5. a \in lo..sent /\ b \in lo..sent
  BY <1>1
<1>6. Transit(w, busy, Append(q, x), c, lo, sent)
  BY <1>2, <1>4, <1>5 DEF Transit
<1>7. sent \in lo..sent
  BY <1>1
<1>8. QED
  BY <1>6, <1>7 DEF Live

\* The sending loop takes a message from its channel.
LEMMA LiveTake ==
  ASSUME NEW S, \A x \in S : x.n \in Nat, NEW w \in Seq(S), NEW q \in Seq(S), NEW c,
         NEW lo \in Nat, NEW sent \in Nat, NEW reader, q # <<>>,
         NEW h, h # None, h.to = "wire", h.m = Head(q),
         Live(w, None, q, c, lo, sent, reader)
  PROVE  Live(w, h, Tail(q), c, lo, sent, reader)
<1>1. PICK e \in lo..sent : /\ Transit(w, None, q, c, lo, e)
                            /\ reader = "sending" => e = sent - 1
                            /\ reader \in {"off", "on"} => e = sent
  BY DEF Live
<1>2. PICK a \in lo..e : Carries(w, c, lo, a) /\ Carries(q, c, a, e)
  BY <1>1 DEF Transit, Bears, WireChunk
<1>3. Transit(w, h, Tail(q), c, lo, e)
  <2>1. CASE ~IsChunk(Head(q), c)
    <3>1. Carries(Tail(q), c, a, e)
      BY <1>1, <1>2, <2>1, CarriesTail
    <3>2. Bears(h, c, a, a)
      BY <2>1 DEF Bears, WireChunk
    <3>3. QED
      BY <1>2, <3>1, <3>2 DEF Transit
  <2>2. CASE IsChunk(Head(q), c)
    <3>1. Head(q).n = a + 1 /\ a < e /\ Carries(Tail(q), c, a + 1, e)
      BY <1>1, <1>2, <2>2, CarriesTail
    <3>2. Bears(h, c, a, a + 1)
      BY <2>2, <3>1 DEF Bears, WireChunk
    <3>3. a + 1 \in lo..e
      BY <3>1
    <3>4. QED
      BY <1>2, <3>1, <3>2, <3>3 DEF Transit
  <2>3. QED
    BY <2>1, <2>2
<1>4. QED
  BY <1>1, <1>3 DEF Live

\* ... and puts it on the wire.
LEMMA LivePut ==
  ASSUME NEW S, \A x \in S : x.n \in Nat, NEW w \in Seq(S), NEW q \in Seq(S), NEW c,
         NEW lo \in Nat, NEW sent \in Nat, NEW reader,
         NEW h, h # None, h.to = "wire", h.m \in S,
         Live(w, h, q, c, lo, sent, reader)
  PROVE  Live(Append(w, h.m), None, q, c, lo, sent, reader)
<1>1. PICK e \in lo..sent : /\ Transit(w, h, q, c, lo, e)
                            /\ reader = "sending" => e = sent - 1
                            /\ reader \in {"off", "on"} => e = sent
  BY DEF Live
<1>2. PICK a \in lo..e, b \in lo..e : Carries(w, c, lo, a) /\ Bears(h, c, a, b) /\ Carries(q, c, b, e)
  BY <1>1 DEF Transit
<1>3. Carries(Append(w, h.m), c, lo, b)
  <2>1. CASE IsChunk(h.m, c)
    <3>1. b = a + 1 /\ h.m.n = a + 1
      BY <1>2, <2>1 DEF Bears, WireChunk
    <3>2. QED
      BY <1>2, <2>1, <3>1, CarriesAppend
  <2>2. CASE ~IsChunk(h.m, c)
    <3>1. b = a /\ a \in Nat
      BY <1>2, <2>2 DEF Bears, WireChunk
    <3>2. QED
      BY <1>2, <2>2, <3>1, CarriesAppend
  <2>3. QED
    BY <2>1, <2>2
<1>4. Transit(Append(w, h.m), None, q, c, lo, e)
  BY <1>2, <1>3 DEF Transit, Bears, WireChunk
<1>5. QED
  BY <1>1, <1>4 DEF Live

\* The receiving loop takes a message from the wire: the next chunk of c, if it
\* is one of c.
LEMMA LiveGet ==
  ASSUME NEW S, \A x \in S : x.n \in Nat, NEW w \in Seq(S), NEW q \in Seq(S), NEW busy, NEW c,
         NEW lo \in Nat, NEW sent \in Nat, NEW reader, w # <<>>,
         Live(w, busy, q, c, lo, sent, reader)
  PROVE  /\ ~IsChunk(Head(w), c) => Live(Tail(w), busy, q, c, lo, sent, reader)
         /\ IsChunk(Head(w), c) => /\ Head(w).n = lo + 1 /\ lo < sent
                                   /\ Live(Tail(w), busy, q, c, lo + 1, sent, reader)
<1>1. PICK e \in lo..sent : /\ Transit(w, busy, q, c, lo, e)
                            /\ reader = "sending" => e = sent - 1
                            /\ reader \in {"off", "on"} => e = sent
  BY DEF Live
<1>2. PICK a \in lo..e, b \in lo..e : Carries(w, c, lo, a) /\ Bears(busy, c, a, b) /\ Carries(q, c, b, e)
  BY <1>1 DEF Transit
<1>3. ASSUME ~IsChunk(Head(w), c)
      PROVE  Live(Tail(w), busy, q, c, lo, sent, reader)
  <2>1. Carries(Tail(w), c, lo, a)
    BY <1>2, <1>3, CarriesTail
  <2>2. Transit(Tail(w), busy, q, c, lo, e)
    BY <1>2, <2>1 DEF Transit
  <2>3. QED
    BY <1>1, <2>2 DEF Live
<1>4. ASSUME IsChunk(Head(w), c)
      PROVE  Head(w).n = lo + 1 /\ lo < sent /\ Live(Tail(w), busy, q, c, lo + 1, sent, reader)
  <2>1. Head(w).n = lo + 1 /\ lo < a /\ Carries(Tail(w), c, lo + 1, a)
    BY <1>2, <1>4, CarriesTail
  <2>2. a <= b
    BY <1>2 DEF Bears
  <2>3. a \in (lo + 1)..e /\ b \in (lo + 1)..e /\ e \in (lo + 1)..sent
    BY <1>1, <1>2, <2>1, <2>2
  <2>4. Transit(Tail(w), busy, q, c, lo + 1, e)
    BY <1>2, <2>1, <2>3 DEF Transit
  <2>5. Live(Tail(w), busy, q, c, lo + 1, sent, reader)
    BY <1>1, <2>3, <2>4 DEF Live
  <2>6. QED
    BY <2>1, <2>3, <2>5
<1>5. QED
  BY <1>3, <1>4

\* The reader reads one more chunk and has it to send.
LEMMA LiveRead ==
  ASSUME NEW w, NEW busy, NEW q, NEW c, NEW lo \in Nat, NEW sent \in Nat,
         Live(w, busy, q, c, lo, sent, "on")
  PROVE  Live(w, busy, q, c, lo, sent + 1, "sending")
<1>1. sent \in lo..sent /\ Transit(w, busy, q, c, lo, sent)
  BY DEF Live
<1>2. sent \in lo..(sent + 1) /\ sent = (sent + 1) - 1
  BY <1>1
<1>3. QED
  BY <1>1, <1>2 DEF Live

\* The reader begins, or ends: the chain up to it stays.
LEMMA LiveReader ==
  ASSUME NEW w, NEW busy, NEW q, NEW c, NEW lo, NEW sent, NEW reader, NEW next,
         Live(w, busy, q, c, lo, sent, reader),
         (next = "on" /\ reader = "off") \/ next \notin {"off", "on", "sending"}
  PROVE  Live(w, busy, q, c, lo, sent, next)
BY DEF Live

\* What the loop holds for others does not matter.
LEMMA LiveBusy ==
  ASSUME NEW w, NEW busy, NEW next, NEW q, NEW c, NEW lo, NEW sent, NEW reader,
         ~WireChunk(busy, c), ~WireChunk(next, c), Live(w, busy, q, c, lo, sent, reader)
  PROVE  Live(w, next, q, c, lo, sent, reader)
BY DEF Live, Transit, Bears

\* Nothing of c is on its way and nothing is missing.
LEMMA LiveStart ==
  ASSUME NEW w, NEW busy, NEW q, NEW c, NEW lo \in Nat, NEW reader, reader # "sending",
         \A i \in 1..Len(w) : ~IsChunk(w[i], c), ~WireChunk(busy, c),
         \A i \in 1..Len(q) : ~IsChunk(q[i], c)
  PROVE  Live(w, busy, q, c, lo, lo, reader)
<1>1. Carries(w, c, lo, lo) /\ Carries(q, c, lo, lo)
  BY CarriesNothing
<1>2. Bears(busy, c, lo, lo)
  BY DEF Bears
<1>3. lo \in lo..lo
  OBVIOUS
<1>4. Transit(w, busy, q, c, lo, lo)
  BY <1>1, <1>2, <1>3 DEF Transit
<1>5. QED
  BY <1>3, <1>4 DEF Live

\* The beginning of a chain, all that is left when its link is lost.
LEMMA LiveIsCut ==
  ASSUME NEW w, NEW busy, NEW q, NEW c, NEW lo \in Nat, NEW sent \in Nat, NEW reader,
         Live(w, busy, q, c, lo, sent, reader)
  PROVE  Cut(w, c, lo, sent)
<1>1. PICK e \in lo..sent : Transit(w, busy, q, c, lo, e)
  BY DEF Live
<1>2. PICK a \in lo..e : Carries(w, c, lo, a)
  BY <1>1 DEF Transit
<1>3. a \in lo..sent
  BY <1>1, <1>2
<1>4. QED
  BY <1>2, <1>3 DEF Cut

\* The receiving loop empties the wire of a link that is cut.
LEMMA CutGet ==
  ASSUME NEW S, \A x \in S : x.n \in Nat, NEW w \in Seq(S), NEW c,
         NEW lo \in Nat, NEW sent \in Nat, w # <<>>, Cut(w, c, lo, sent)
  PROVE  /\ ~IsChunk(Head(w), c) => Cut(Tail(w), c, lo, sent)
         /\ IsChunk(Head(w), c) => Head(w).n = lo + 1 /\ lo < sent /\ Cut(Tail(w), c, lo + 1, sent)
<1>1. PICK a \in lo..sent : Carries(w, c, lo, a)
  BY DEF Cut
<1>2. ASSUME ~IsChunk(Head(w), c)
      PROVE  Cut(Tail(w), c, lo, sent)
  <2>1. Carries(Tail(w), c, lo, a)
    BY <1>1, <1>2, CarriesTail
  <2>2. QED
    BY <2>1 DEF Cut
<1>3. ASSUME IsChunk(Head(w), c)
      PROVE  Head(w).n = lo + 1 /\ lo < sent /\ Cut(Tail(w), c, lo + 1, sent)
  <2>1. Head(w).n = lo + 1 /\ lo < a /\ Carries(Tail(w), c, lo + 1, a)
    BY <1>1, <1>3, CarriesTail
  <2>2. a \in (lo + 1)..sent
    BY <1>1, <2>1
  <2>3. QED
    BY <2>1, <2>2 DEF Cut
<1>4. QED
  BY <1>2, <1>3

\* Other messages on the wire of a link that is cut.
LEMMA CutNoise ==
  ASSUME NEW S, \A x \in S : x.n \in Nat, NEW w \in Seq(S), NEW c,
         NEW lo \in Nat, NEW sent \in Nat, NEW x \in S, ~IsChunk(x, c), Cut(w, c, lo, sent)
  PROVE  Cut(Append(w, x), c, lo, sent)
<1>1. PICK a \in lo..sent : Carries(w, c, lo, a)
  BY DEF Cut
<1>2. a \in Nat
  OBVIOUS
<1>3. Carries(Append(w, x), c, lo, a)
  BY <1>1, <1>2, CarriesAppend
<1>4. QED
  BY <1>3 DEF Cut

\* ... and what is read after it was cut.
LEMMA CutGrows ==
  ASSUME NEW w, NEW c, NEW lo \in Nat, NEW sent \in Nat, Cut(w, c, lo, sent)
  PROVE  Cut(w, c, lo, sent + 1)
<1>1. PICK a \in lo..sent : Carries(w, c, lo, a)
  BY DEF Cut
<1>2. a \in lo..(sent + 1)
  OBVIOUS
<1>3. QED
  BY <1>1, <1>2 DEF Cut

\* A link that was cut with nothing of c on the wire.
LEMMA CutStart ==
  ASSUME NEW w, NEW c, NEW lo \in Nat, NEW sent \in Nat, lo <= sent,
         \A i \in 1..Len(w) : ~IsChunk(w[i], c)
  PROVE  Cut(w, c, lo, sent)
<1>1. Carries(w, c, lo, lo)
  BY CarriesNothing
<1>2. lo \in lo..sent
  OBVIOUS
<1>3. QED
  BY <1>1, <1>2 DEF Cut

-------------------------------------------------------------------------------
(* From the loop to the peer                                               *)

LEMMA BaseType ==
  ASSUME NEW got \in Seq(Nat), NEW queue \in Seq(Nat), NEW busy, NEW c
  PROVE  Base(got, queue, busy, c) \in Nat
BY DEF Base

\* The writer hands the peer the next chunk of its channel.
LEMMA ArrivesWrite ==
  ASSUME NEW got \in Seq(Nat), NEW queue \in Seq(Nat), NEW busy, NEW c, NEW writer, NEW sent \in Nat,
         Arrives(got, queue, busy, c, writer, sent), queue # <<>>, writer # "ended"
  PROVE  /\ Head(queue) = Len(got) + 1 /\ Len(got) < sent
         /\ Base(Append(got, Head(queue)), Tail(queue), busy, c) = Base(got, queue, busy, c)
         /\ Arrives(Append(got, Head(queue)), Tail(queue), busy, c, writer, sent)
<1> DEFINE g == Append(got, Head(queue))
           t == Tail(queue)
<1>1. /\ Len(queue) \in Nat \ {0} /\ Head(queue) = queue[1] /\ Head(queue) \in Nat
      /\ Len(t) = Len(queue) - 1 /\ \A i \in 1..Len(t) : t[i] = queue[i + 1] /\ i + 1 \in 1..Len(queue)
  OBVIOUS
<1>2. /\ Len(got) \in Nat /\ Len(g) = Len(got) + 1
      /\ \A i \in 1..Len(got) : g[i] = got[i]
      /\ g[Len(got) + 1] = Head(queue)
  BY <1>1, AppendProperties
<1> HIDE DEF g, t
<1>3. queue[1] = Len(got) + 1 /\ Base(got, queue, busy, c) <= sent
  BY <1>1 DEF Arrives
<1>4. Base(g, t, busy, c) = Base(got, queue, busy, c)
  BY <1>1, <1>2 DEF Base
<1>5. Len(got) + Len(queue) <= sent
  BY <1>1, <1>2, <1>3 DEF Base
<1>6. \A i \in 1..Len(g) : g[i] = i
  <2>1. \A i \in 1..Len(g) : i \in 1..Len(got) \/ i = Len(got) + 1
    BY <1>2
  <2>2. \A i \in 1..Len(got) : got[i] = i
    BY DEF Arrives
  <2>3. QED
    BY <1>1, <1>2, <1>3, <2>1, <2>2
<1>7. \A i \in 1..Len(t) : t[i] = Len(g) + i
  <2> SUFFICES ASSUME NEW i \in 1..Len(t)
               PROVE  t[i] = Len(g) + i
    OBVIOUS
  <2>1. t[i] = queue[i + 1] /\ queue[i + 1] = Len(got) + (i + 1)
    BY <1>1 DEF Arrives
  <2>2. QED
    BY <1>2, <2>1
<1>8. Arrives(g, t, busy, c, writer, sent)
  BY <1>1, <1>2, <1>3, <1>4, <1>5, <1>6, <1>7 DEF Arrives
<1>9. QED
  BY <1>1, <1>2, <1>3, <1>4, <1>5, <1>8 DEF g, t

\* The writer ends and the channel is dropped; the peer keeps a prefix.
LEMMA ArrivesEnds ==
  ASSUME NEW got, NEW queue, NEW busy, NEW c, NEW writer, NEW sent,
         Arrives(got, queue, busy, c, writer, sent)
  PROVE  Arrives(got, <<>>, busy, c, "ended", sent)
BY DEF Arrives

\* The loop passes the chunk it holds on to the channel.
LEMMA ArrivesDelivers ==
  ASSUME NEW got \in Seq(Nat), NEW queue \in Seq(Nat), NEW busy, NEW c, NEW writer, NEW sent \in Nat,
         Arrives(got, queue, busy, c, writer, sent), ConnChunk(busy, c), writer # "ended", busy.m.n \in Nat
  PROVE  /\ Base(got, Append(queue, busy.m.n), None, c) = Base(got, queue, busy, c)
         /\ Arrives(got, Append(queue, busy.m.n), None, c, writer, sent)
<1> DEFINE t == Append(queue, busy.m.n)
<1>1. /\ Len(queue) \in Nat /\ Len(got) \in Nat /\ Len(t) = Len(queue) + 1
      /\ \A i \in 1..Len(queue) : t[i] = queue[i]
      /\ t[Len(queue) + 1] = busy.m.n
  BY AppendProperties, LenProperties
<1> HIDE DEF t
<1>2. /\ Base(got, queue, busy, c) = Len(got) + Len(queue) + 1
      /\ Base(got, t, None, c) = Len(got) + Len(t) + 0
  BY DEF Base, ConnChunk
<1>3. busy.m.n = Len(got) + Len(queue) + 1 /\ Base(got, queue, busy, c) <= sent
  BY <1>2 DEF Arrives
<1>4. Base(got, t, None, c) = Base(got, queue, busy, c)
  BY <1>1, <1>2
<1>5. \A i \in 1..Len(t) : t[i] = Len(got) + i
  <2>1. \A i \in 1..Len(t) : i \in 1..Len(queue) \/ i = Len(queue) + 1
    BY <1>1
  <2>2. \A i \in 1..Len(queue) : queue[i] = Len(got) + i
    BY DEF Arrives
  <2>3. \A i \in 1..Len(queue) : t[i] = Len(got) + i
    BY <1>1, <2>2
  <2>4. t[Len(queue) + 1] = Len(got) + (Len(queue) + 1)
    BY <1>1, <1>3
  <2>5. QED
    BY <2>1, <2>3, <2>4
<1>6. ~ConnChunk(None, c)
  BY DEF ConnChunk
<1>7. Arrives(got, t, None, c, writer, sent)
  BY <1>3, <1>4, <1>5, <1>6 DEF Arrives
<1>8. QED
  BY <1>4, <1>7 DEF t

\* The loop takes the next chunk; once the writer has ended, any.
LEMMA ArrivesGets ==
  ASSUME NEW got \in Seq(Nat), NEW queue \in Seq(Nat), NEW busy, NEW next, NEW c, NEW writer,
         NEW sent \in Nat, Arrives(got, queue, busy, c, writer, sent),
         ~ConnChunk(busy, c), ConnChunk(next, c),
         writer # "ended" => /\ next.m.n = Base(got, queue, busy, c) + 1
                             /\ Base(got, queue, busy, c) < sent
  PROVE  /\ Base(got, queue, next, c) = Base(got, queue, busy, c) + 1
         /\ Arrives(got, queue, next, c, writer, sent)
<1>1. /\ Base(got, queue, next, c) = Len(got) + Len(queue) + 1
      /\ Base(got, queue, busy, c) = Len(got) + Len(queue) + 0
  BY DEF Base
<1>2. Base(got, queue, next, c) = Base(got, queue, busy, c) + 1
  BY <1>1
<1>3. Base(got, queue, busy, c) \in Nat
  BY BaseType
<1>4. QED
  BY <1>2, <1>3 DEF Arrives

\* What the loop holds for others does not matter here either.
LEMMA ArrivesBusy ==
  ASSUME NEW got, NEW queue, NEW busy, NEW next, NEW c, NEW writer, NEW sent,
         ~ConnChunk(busy, c), ~ConnChunk(next, c)
  PROVE  /\ Base(got, queue, next, c) = Base(got, queue, busy, c)
         /\ Arrives(got, queue, busy, c, writer, sent) => Arrives(got, queue, next, c, writer, sent)
BY DEF Arrives, Base

\* More is read at the other end.
LEMMA ArrivesGrows ==
  ASSUME NEW got \in Seq(Nat), NEW queue \in Seq(Nat), NEW busy, NEW c, NEW writer, NEW sent \in Nat,
         Arrives(got, queue, busy, c, writer, sent)
  PROVE  Arrives(got, queue, busy, c, writer, sent + 1)
<1>1. Base(got, queue, busy, c) \in Nat /\ Len(got) \in Nat
  BY BaseType
<1>2. QED
  BY <1>1 DEF Arrives

\* The writer begins, or ends with its channel empty.
LEMMA ArrivesWriter ==
  ASSUME NEW got, NEW queue, NEW busy, NEW c, NEW writer, NEW sent,
         Arrives(got, queue, busy, c, writer, sent), writer # "ended"
  PROVE  /\ Arrives(got, queue, busy, c, "on", sent)
         /\ queue = <<>> => Arrives(got, queue, busy, c, "ended", sent)
BY DEF Arrives

-------------------------------------------------------------------------------
(* From the service to the user                                            *)

\* The types that the lemmas on chains ask for.
LEMMA ChunkTypes ==
  ASSUME LinkTypeOK, NEW c \in Conns
  PROVE  /\ \A x \in UpMsgs : x.n \in Nat
         /\ \A x \in DownMsgs : x.n \in Nat
         /\ msg \in Seq(DownMsgs) /\ down \in Seq(DownMsgs) /\ local \in Seq(UpMsgs) /\ up \in Seq(UpMsgs)
         /\ user[c].got \in Seq(Nat) /\ svc[c].got \in Seq(Nat)
         /\ srv[c].queue \in Seq(Nat) /\ tun[c].queue \in Seq(Nat)
         /\ user[c].sent \in Nat /\ svc[c].sent \in Nat
         /\ UpBase(c) \in Nat /\ DownBase(c) \in Nat
<1>1. /\ \A x \in UpMsgs : x.n \in Nat
      /\ \A x \in DownMsgs : x.n \in Nat
  BY DEF UpMsgs, DownMsgs
<1>2. /\ user[c].got \in Seq(Nat) /\ svc[c].got \in Seq(Nat)
      /\ srv[c].queue \in Seq(Nat) /\ tun[c].queue \in Seq(Nat)
      /\ user[c].sent \in Nat /\ svc[c].sent \in Nat
  BY ConnTypes DEF SrvRecords, TunRecords, PeerRecords
<1>3. UpBase(c) \in Nat /\ DownBase(c) \in Nat
  BY <1>2, BaseType DEF UpBase, DownBase
<1>4. QED
  BY <1>1, <1>2, <1>3 DEF LinkTypeOK

\* DownInv of a connection depends on these fields alone.
LEMMA DownFrame ==
  ASSUME NEW d \in Conns, DownInv(d), UNCHANGED <<sess, local, up, sBusy, cBusy>>,
         user'[d].got = user[d].got, svc'[d].sent = svc[d].sent,
         srv'[d].queue = srv[d].queue, srv'[d].writer = srv[d].writer, srv'[d].active = srv[d].active,
         tun'[d].stale = tun[d].stale, tun'[d].reader = tun[d].reader
  PROVE  DownInv(d)'
BY DEF DownInv, DownChain, DownBase

\* A peer that has sent nothing has nothing on its way.
LEMMA NothingUp ==
  ASSUME LinkTypeOK, ToldInv, NEW c \in Conns, svc[c].sent = 0
  PROVE  /\ \A i \in 1..Len(up) : ~IsChunk(up[i], c)
         /\ \A i \in 1..Len(local) : ~IsChunk(local[i], c)
         /\ ~WireChunk(cBusy, c)
<1>1. \A m \in UpFlight : ~IsChunk(m, c)
  BY DEF ToldInv, UpTold, IsChunk
<1>2. /\ \A i \in 1..Len(up) : up[i] \in UpFlight
      /\ \A i \in 1..Len(local) : local[i] \in UpFlight
  BY ChunkTypes DEF UpFlight, Range
<1>3. cBusy # None /\ cBusy.to = "wire" => cBusy.m \in UpFlight
  BY DEF UpFlight, Wired
<1>4. QED
  BY <1>1, <1>2, <1>3 DEF WireChunk

\* Before the user has sent anything, nothing of his is on its way.
LEMMA NothingDown ==
  ASSUME LinkTypeOK, ToldInv, NEW c \in Conns, user[c].sent = 0
  PROVE  /\ \A i \in 1..Len(down) : ~IsChunk(down[i], c)
         /\ \A i \in 1..Len(msg) : ~IsChunk(msg[i], c)
         /\ ~WireChunk(sBusy, c)
<1>1. \A m \in DownFlight : ~IsChunk(m, c)
  BY DEF ToldInv, DownTold, IsChunk
<1>2. /\ \A i \in 1..Len(down) : down[i] \in DownFlight
      /\ \A i \in 1..Len(msg) : msg[i] \in DownFlight
  BY ChunkTypes DEF DownFlight, Range
<1>3. sBusy # None /\ sBusy.to = "wire" => sBusy.m \in DownFlight
  BY DEF DownFlight, Wired
<1>4. QED
  BY <1>1, <1>2, <1>3 DEF WireChunk

\* The tasks of a connection at the server: its writer passes chunks on, or
\* ends.
LEMMA ServerConnDown ==
  ASSUME LinkTypeOK, LinkLife, NEW c \in Conns, NEW d \in Conns, DownInv(d),
         Accept(c) \/ ReadUser(c) \/ CloseUser(c) \/ ServerConnStep(c)
  PROVE  DownInv(d)'
<1>1. ServerShape(c)
  BY ServerConnShape
<1>2. UNCHANGED <<sess, local, up, sBusy, cBusy, tun, svc>>
  BY <1>1 DEF ServerShape, wireVars
<1>3. CASE d # c
  <2>1. srv'[d] = srv[d] /\ user'[d] = user[d]
    BY <1>1, <1>3, OneRecord, ConnTypes DEF ServerShape
  <2>2. QED
    BY <1>2, <2>1, DownFrame
<1>4. CASE d = c
  <2> DEFINE Same == /\ user'[c].got = user[c].got /\ srv'[c].queue = srv[c].queue
                     /\ srv'[c].writer = srv[c].writer /\ srv'[c].active = srv[c].active
  <2>0. DownInv(c) /\ ServerLife(c) /\ ClientLife(c) /\ LoopsInv /\ ToldInv
    BY <1>4 DEF LinkLife
  <2>1. CASE Same
    BY <1>2, <1>4, <2>1, DownFrame
  <2>2. CASE Register(c)
    <3>1. /\ user'[c].got = user[c].got /\ srv'[c].queue = srv[c].queue
          /\ srv'[c].writer = srv[c].writer /\ srv'[c].active = TRUE
      BY <2>2, RegisterEffect DEF SrvEq, PeerEq
    <3>2. srv[c].at = "accepted"
      BY <2>2 DEF Register
    <3>3. tun[c].at = "none" /\ srv[c].writer = "off"
      BY <2>0, <3>2 DEF ServerLife
    <3>4. tun[c].reader = "off" /\ svc[c].sent = 0 /\ ~tun[c].stale
      BY <2>0, <3>3 DEF ClientLife, LoopsInv
    <3>5. DownBase(c) = 0
      <4>1. DownBase(c) <= 0
        BY <2>0, <3>3, <3>4 DEF DownInv, Arrives, DownBase
      <4>2. QED
        BY <4>1, ChunkTypes
    <3>6. Live(up, cBusy, local, c, 0, 0, "off")
      <4>1. /\ \A i \in 1..Len(up) : ~IsChunk(up[i], c)
            /\ \A i \in 1..Len(local) : ~IsChunk(local[i], c)
            /\ ~WireChunk(cBusy, c) /\ 0 \in Nat /\ "off" # "sending"
        BY <2>0, <3>4, NothingUp
      <4>2. QED
        BY <4>1, LiveStart
    <3>7. DownChain(c)
      BY <3>4, <3>5, <3>6 DEF DownChain
    <3>8. QED
      BY <1>2, <1>4, <2>0, <3>1, <3>7 DEF DownInv, DownChain, DownBase
  <2>3. CASE ConnectionReady(c)
    <3>1. /\ user'[c].got = user[c].got /\ srv'[c].queue = srv[c].queue
          /\ srv'[c].writer = "on" /\ srv'[c].active = srv[c].active
      BY <2>3, ConnectionReadyEffect DEF SrvEq, PeerEq
    <3>2. srv[c].at = "waiting"
      BY <2>3 DEF ConnectionReady
    <3>3. srv[c].writer # "ended"
      BY <2>0, <3>2 DEF ServerLife
    <3>4. Arrives(user[c].got, srv[c].queue, sBusy, c, "on", svc[c].sent)
      BY <2>0, <3>3, ArrivesWriter DEF DownInv
    <3>5. QED
      BY <1>2, <1>4, <2>0, <3>1, <3>3, <3>4 DEF DownInv, DownChain, DownBase
  <2>4. CASE ReadyTimeout(c) \/ HandlerEnds(c)
    <3>1. /\ user'[c].got = user[c].got /\ srv'[c].queue = srv[c].queue
          /\ srv'[c].writer = srv[c].writer /\ ~srv'[c].active
      BY <2>4, ReadyTimeoutEffect, HandlerEndsEffect DEF SrvEq, PeerEq
    <3>2. ~ConnChunk(sBusy, c)
      BY <2>4 DEF ReadyTimeout, HandlerEnds, active_connections_free, ConnChunk
    <3>3. QED
      BY <1>2, <1>4, <2>0, <3>1, <3>2 DEF DownInv
  <2>5. CASE WriteUser(c) /\ user[c].open = "open"
    <3>1. /\ user'[c].got = Append(user[c].got, Head(srv[c].queue))
          /\ srv'[c].queue = Tail(srv[c].queue)
          /\ srv'[c].writer = srv[c].writer /\ srv'[c].active = srv[c].active
      BY <2>5, WriteUserEffect DEF SrvEq, PeerEq
    <3>2. srv[c].writer # "ended" /\ srv[c].queue # <<>>
      BY <2>5 DEF WriteUser
    <3>3. Arrives(user[c].got, srv[c].queue, sBusy, c, srv[c].writer, svc[c].sent)
      BY <2>0 DEF DownInv
    <3>4. /\ Base(user'[c].got, srv'[c].queue, sBusy, c) = DownBase(c)
          /\ Arrives(user'[c].got, srv'[c].queue, sBusy, c, srv[c].writer, svc[c].sent)
      <4>1. user[c].got \in Seq(Nat) /\ srv[c].queue \in Seq(Nat) /\ svc[c].sent \in Nat
        BY ChunkTypes
      <4>2. QED
        BY <3>1, <3>2, <3>3, <4>1, ArrivesWrite DEF DownBase
    <3>5. DownBase(c)' = DownBase(c)
      BY <1>2, <3>4 DEF DownBase
    <3>6. QED
      BY <1>2, <1>4, <2>0, <3>1, <3>4, <3>5 DEF DownInv, DownChain
  <2>6. CASE WriteUser(c) /\ user[c].open # "open"
    <3>1. /\ user'[c].got = user[c].got /\ srv'[c].queue = <<>>
          /\ srv'[c].writer = "ended" /\ srv'[c].active = srv[c].active
      BY <2>6, WriteUserFailsEffect DEF SrvEq, PeerEq
    <3>2. Arrives(user[c].got, <<>>, sBusy, c, "ended", svc[c].sent)
      BY <2>0, ArrivesEnds DEF DownInv
    <3>3. QED
      BY <1>2, <1>4, <2>0, <3>1, <3>2 DEF DownInv
  <2>7. CASE WriteUserEnds(c)
    <3>1. /\ user'[c].got = user[c].got /\ srv'[c].queue = srv[c].queue
          /\ srv'[c].writer = "ended" /\ srv'[c].active = srv[c].active
      BY <2>7, WriteUserEndsEffect DEF SrvEq, PeerEq
    <3>2. srv[c].queue = <<>>
      BY <2>7 DEF WriteUserEnds
    <3>3. Arrives(user[c].got, srv[c].queue, sBusy, c, "ended", svc[c].sent)
      BY <2>0, <3>2, ArrivesEnds DEF DownInv
    <3>4. QED
      BY <1>2, <1>4, <2>0, <3>1, <3>3 DEF DownInv
  <2>8. CASE Accept(c) \/ SendConnect(c) \/ SendUserData(c)
    <3>1. CASE reachable
      BY <2>1, <2>8, <3>1, AcceptEffect, SendConnectEffect, SendUserDataEffect DEF SrvEq, PeerEq
    <3>2. CASE ~reachable
      BY <2>1, <2>8, <3>2, RefuseEffect, SendConnectFailsEffect, SendUserDataFailsEffect DEF SrvEq, PeerEq
    <3>3. QED
      BY <3>1, <3>2
  <2>9. CASE ReadUser(c) \/ ReadUserEnds(c) \/ EnterClose(c) \/ SendClose(c) \/ CloseUser(c)
    BY <2>1, <2>9, ReadUserEffect, ReadUserEndsEffect, EnterCloseEffect, SendCloseEffect, CloseUserEffect
       DEF SrvEq, PeerEq
  <2>10. QED
    BY <2>2, <2>3, <2>4, <2>5, <2>6, <2>7, <2>8, <2>9 DEF ServerConnStep
<1>5. QED
  BY <1>3, <1>4

\* What the client's tasks do besides sending their chunks.
LEMMA DownNoise ==
  ASSUME LinkTypeOK, NEW d \in Conns, DownInv(d), UNCHANGED <<sess, up, sBusy, cBusy, srv, user>>,
         svc'[d].sent = svc[d].sent, tun'[d].stale = tun[d].stale,
         \/ tun'[d].reader = tun[d].reader
         \/ tun'[d].reader = "on" /\ tun[d].reader = "off"
         \/ tun'[d].reader \notin {"off", "on", "sending"},
         local' = local \/ \E m \in UpMsgs : local' = Append(local, m) /\ ~IsChunk(m, d)
  PROVE  DownInv(d)'
<1>1. /\ \A x \in UpMsgs : x.n \in Nat
      /\ local \in Seq(UpMsgs) /\ up \in Seq(UpMsgs) /\ DownBase(d) \in Nat /\ svc[d].sent \in Nat
  BY ChunkTypes
<1>2. DownBase(d)' = DownBase(d)
  BY DEF DownBase
<1>3. /\ Arrives(user[d].got, srv[d].queue, sBusy, d, srv[d].writer, svc[d].sent)'
      /\ (ConnChunk(sBusy, d) => srv[d].active)'
  BY DEF DownInv
<1>4. (tun[d].stale => ~WireChunk(cBusy, d) /\ \A i \in 1..Len(local) : ~IsChunk(local[i], d))'
  <2>1. SUFFICES ASSUME tun[d].stale
                 PROVE  \A i \in 1..Len(local') : ~IsChunk(local'[i], d)
    BY DEF DownInv
  <2>2. \A i \in 1..Len(local) : ~IsChunk(local[i], d)
    BY <2>1 DEF DownInv
  <2>3. CASE local' = local
    BY <2>2, <2>3
  <2>4. ASSUME NEW m \in UpMsgs, local' = Append(local, m), ~IsChunk(m, d)
        PROVE  \A i \in 1..Len(local') : ~IsChunk(local'[i], d)
    <3>1. /\ Len(local') = Len(local) + 1 /\ Len(local) \in Nat /\ local'[Len(local) + 1] = m
          /\ \A i \in 1..Len(local) : local'[i] = local[i]
      BY <1>1, <2>4, AppendProperties, LenProperties
    <3>2. \A i \in 1..Len(local') : i \in 1..Len(local) \/ i = Len(local) + 1
      BY <3>1
    <3>3. QED
      BY <2>2, <2>4, <3>1, <3>2
  <2>5. QED
    BY <2>3, <2>4
<1>5. ASSUME ~tun[d].stale, Live(up, cBusy, local, d, DownBase(d), svc[d].sent, tun[d].reader)
      PROVE  Live(up, cBusy, local', d, DownBase(d), svc[d].sent, tun'[d].reader)
  <2>1. Live(up, cBusy, local, d, DownBase(d), svc[d].sent, tun'[d].reader)
    BY <1>5, LiveReader
  <2>2. CASE local' = local
    BY <2>1, <2>2
  <2>3. ASSUME NEW m \in UpMsgs, local' = Append(local, m), ~IsChunk(m, d)
        PROVE  Live(up, cBusy, local', d, DownBase(d), svc[d].sent, tun'[d].reader)
    BY <1>1, <2>1, <2>3, LiveNoise
  <2>4. QED
    BY <2>2, <2>3
<1>6. DownChain(d) => DownChain(d)'
  BY <1>2, <1>5 DEF DownChain
<1>7. QED
  BY <1>3, <1>4, <1>6 DEF DownInv

\* The tasks of a connection at the client: its reader reads and sends.
LEMMA ClientConnDown ==
  ASSUME LinkTypeOK, LinkLife, NEW c \in Conns, NEW d \in Conns, DownInv(d),
         ReadLocal(c) \/ CloseService(c) \/ ClientConnStep(c)
  PROVE  DownInv(d)'
<1>1. ClientShape(c) /\ Life(c)
  BY ClientConnShape DEF LinkLife, Life
<1>2. UNCHANGED <<sess, up, sBusy, cBusy, srv, user>>
  BY <1>1 DEF ClientShape, wireVars
<1>3. CASE d # c
  <2>1. tun'[d] = tun[d] /\ svc'[d] = svc[d]
    BY <1>1, <1>3, OneRecord, ConnTypes DEF ClientShape
  <2>2. local' = local \/ \E m \in UpMsgs : local' = Append(local, m) /\ ~IsChunk(m, d)
    BY <1>1, <1>3 DEF ClientShape, IsChunk
  <2>3. QED
    BY <1>2, <2>1, <2>2, DownNoise
<1>4. CASE d = c
  <2>0. DownInv(c) /\ ClientLife(c) /\ tun'[c].stale = tun[c].stale
    BY <1>1, <1>4, ClientKnows DEF LinkLife
  <2>1. /\ \A x \in UpMsgs : x.n \in Nat
        /\ local \in Seq(UpMsgs) /\ up \in Seq(UpMsgs) /\ DownBase(c) \in Nat /\ svc[c].sent \in Nat
        /\ user[c].got \in Seq(Nat) /\ srv[c].queue \in Seq(Nat)
    BY ChunkTypes
  <2>2. DownBase(c)' = DownBase(c)
    BY <1>2 DEF DownBase
  <2>3. CASE ReadLocal(c)
    <3>1. tun[c].reader = "on" /\ local' = local
      BY <2>3 DEF ReadLocal, queueVars
    <3>2. tun'[c].reader = "sending" /\ svc'[c].sent = svc[c].sent + 1
      BY <2>3, ReadLocalEffect DEF TunEq, PeerEq
    <3>3. Arrives(user[c].got, srv[c].queue, sBusy, c, srv[c].writer, svc[c].sent)'
      BY <1>2, <2>0, <2>1, <3>2, ArrivesGrows DEF DownInv
    <3>4. Cut(up, c, DownBase(c), svc[c].sent) => Cut(up, c, DownBase(c), svc'[c].sent)
      BY <2>1, <3>2, CutGrows
    <3>5. Live(up, cBusy, local, c, DownBase(c), svc[c].sent, "on")
          => Live(up, cBusy, local, c, DownBase(c), svc'[c].sent, "sending")
      BY <2>1, <3>2, LiveRead
    <3>6. DownChain(c) => DownChain(c)'
      BY <1>2, <2>0, <2>2, <3>1, <3>2, <3>4, <3>5 DEF DownChain
    <3>7. QED
      BY <1>2, <1>4, <2>0, <3>1, <3>3, <3>6 DEF DownInv
  <2>4. CASE SendLocalData(c) /\ ~tun[c].stale
    <3> DEFINE m == Msg("Data", c, svc[c].sent)
    <3>1. tun[c].reader = "sending" /\ local' = Append(local, m)
      BY <2>4 DEF SendLocalData, to_server
    <3>2. tun'[c].reader = "on" /\ svc'[c].sent = svc[c].sent
      BY <2>4, SendLocalDataEffect DEF TunEq, PeerEq
    <3>3. m \in UpMsgs /\ IsChunk(m, c) /\ m.n = svc[c].sent
      BY <2>1, MsgType DEF IsChunk, Msg
    <3> HIDE DEF m
    <3>4. Live(up, cBusy, local, c, DownBase(c), svc[c].sent, "sending")
          => Live(up, cBusy, local', c, DownBase(c), svc[c].sent, "on")
      BY <2>1, <3>1, <3>3, LiveSend
    <3>5. DownChain(c) => DownChain(c)'
      BY <1>2, <2>0, <2>2, <2>4, <3>1, <3>2, <3>4 DEF DownChain
    <3>6. QED
      BY <1>2, <1>4, <2>0, <2>4, <3>2, <3>5 DEF DownInv
  <2>5. CASE /\ svc'[c].sent = svc[c].sent
             /\ \/ tun'[c].reader = tun[c].reader
                \/ tun'[c].reader = "on" /\ tun[c].reader = "off"
                \/ tun'[c].reader \notin {"off", "on", "sending"}
             /\ ~SendLocalData(c) \/ tun[c].stale
    <3>1. local' = local \/ \E m \in UpMsgs : local' = Append(local, m) /\ ~IsChunk(m, c)
      <4>1. /\ ~IsChunk(Msg("Connected", c, 0), c) /\ ~IsChunk(Msg("ConnectFailed", c, 0), c)
            /\ ~IsChunk(Msg("Close", c, 0), c)
        BY DEF IsChunk, Msg
      <4>2. QED
        BY <1>1, <2>5, <4>1, ClientSays, MsgType
    <3>2. QED
      BY <1>2, <1>4, <2>0, <2>5, <3>1, DownNoise
  <2>6. CASE SendLocalData(c) /\ tun[c].stale
    BY <2>5, <2>6, SendLocalDataFailsEffect DEF TunEq, PeerEq
  <2>7. CASE Announce(c)
    <3>1. tun[c].reader = "off" /\ ~SendLocalData(c)
      BY <2>0, <2>7 DEF Announce, ClientLife, SendLocalData
    <3>2. QED
      BY <2>5, <2>7, <3>1, AnnounceEffect DEF TunEq, PeerEq
  <2>8. CASE ReadLocalEnds(c) \/ SendLocalClose(c) \/ LocalReaderRemoves(c)
    <3>1. ~SendLocalData(c)
      BY <2>8 DEF ReadLocalEnds, SendLocalClose, LocalReaderRemoves, SendLocalData
    <3>2. QED
      BY <2>5, <2>8, <3>1, ReadLocalEndsEffect, SendLocalCloseEffect, LocalReaderRemovesEffect DEF TunEq, PeerEq
  <2>9. CASE ~SendLocalData(c) /\ (ConnectLocal(c) \/ ConnectLocalFails(c) \/ WriteLocal(c) \/ WriteLocalEnds(c) \/ CloseService(c))
    <3>1. CASE svc[c].open = "open"
      BY <2>5, <2>9, <3>1, ConnectLocalEffect, ConnectLocalFailsEffect, WriteLocalEffect, WriteLocalEndsEffect,
         CloseServiceEffect DEF TunEq, PeerEq
    <3>2. CASE svc[c].open # "open"
      BY <2>5, <2>9, <3>2, ConnectLocalEffect, ConnectLocalFailsEffect, WriteLocalFailsEffect, WriteLocalEndsEffect,
         CloseServiceEffect DEF TunEq, PeerEq
    <3>3. QED
      BY <3>1, <3>2
  <2>10. QED
    BY <2>3, <2>4, <2>6, <2>7, <2>8, <2>9 DEF ClientConnStep
<1>5. QED
  BY <1>3, <1>4

\* The server's loop holds, hands to the wire or drops what is not for a user.
LEMMA DownServer ==
  ASSUME NEW d \in Conns, DownInv(d), UNCHANGED <<local, cBusy, sideVars>>,
         ~ConnChunk(sBusy, d), ~ConnChunk(sBusy, d)', UNCHANGED <<sess, up>> \/ sess' # "up"
  PROVE  DownInv(d)'
<1>1. UNCHANGED <<srv, user, tun, svc>>
  BY DEF sideVars
<1>2. DownBase(d)' = DownBase(d)
  BY <1>1, ArrivesBusy DEF DownBase
<1>3. Arrives(user[d].got, srv[d].queue, sBusy, d, srv[d].writer, svc[d].sent)'
  BY <1>1, ArrivesBusy DEF DownInv
<1>4. sess' = "up" /\ DownChain(d) => DownChain(d)'
  BY <1>1, <1>2 DEF DownChain
<1>5. QED
  BY <1>1, <1>3, <1>4 DEF DownInv

\* The server's loop takes a message from the wire.
LEMMA ServerReceivesDown ==
  ASSUME LinkTypeOK, NEW d \in Conns, DownInv(d), ServerReceives
  PROVE  DownInv(d)'
<1> DEFINE m == Head(up)
<1>1. sess = "up" /\ sBusy = None /\ up # <<>> /\ up' = Tail(up)
  BY DEF ServerReceives
<1>2. UNCHANGED <<sess, local, cBusy, user, tun, svc>>
  BY DEF ServerReceives, wireVars
<1>3. /\ srv'[d].queue = srv[d].queue /\ srv'[d].writer = srv[d].writer
      /\ srv'[d].active => srv[d].active
      /\ IsChunk(m, d) /\ srv[d].active => srv'[d].active
  BY ServerReceivesEffect DEF SrvEq, IsChunk
<1>4. /\ \A x \in UpMsgs : x.n \in Nat
      /\ local \in Seq(UpMsgs) /\ up \in Seq(UpMsgs) /\ DownBase(d) \in Nat /\ svc[d].sent \in Nat
      /\ user[d].got \in Seq(Nat) /\ srv[d].queue \in Seq(Nat)
  BY ChunkTypes
<1>5. m \in UpMsgs
  BY <1>1, QueueTypes
<1>6. /\ ConnChunk(sBusy, d)' => IsChunk(m, d) /\ srv[d].active /\ sBusy'.m = m
      /\ IsChunk(m, d) /\ srv[d].active => ConnChunk(sBusy, d)' /\ sBusy'.m = m
  <2>1. sBusy' = IF m.kind = "Data" /\ srv[m.id].active THEN [to |-> "conn", m |-> m] ELSE None
    BY DEF ServerReceives
  <2>2. m.kind = "Data" => [to |-> "conn", m |-> m] # None
    BY <1>5, HoldTypes, LinkAssumption
  <2>3. QED
    BY <2>1, <2>2 DEF ConnChunk, IsChunk
<1>7. ~ConnChunk(sBusy, d)
  BY <1>1 DEF ConnChunk
<1> HIDE DEF m
<1>8. ASSUME DownChain(d)
      PROVE  /\ IsChunk(m, d) => m.n = DownBase(d) + 1 /\ DownBase(d) < svc[d].sent
             /\ IsChunk(m, d) /\ tun[d].stale => Cut(Tail(up), d, DownBase(d) + 1, svc[d].sent)
             /\ IsChunk(m, d) /\ ~tun[d].stale =>
                  Live(Tail(up), cBusy, local, d, DownBase(d) + 1, svc[d].sent, tun[d].reader)
             /\ ~IsChunk(m, d) /\ tun[d].stale => Cut(Tail(up), d, DownBase(d), svc[d].sent)
             /\ ~IsChunk(m, d) /\ ~tun[d].stale =>
                  Live(Tail(up), cBusy, local, d, DownBase(d), svc[d].sent, tun[d].reader)
  <2>1. CASE tun[d].stale
    <3>1. Cut(up, d, DownBase(d), svc[d].sent)
      BY <1>8, <2>1 DEF DownChain
    <3>2. QED
      BY <1>1, <1>4, <2>1, <3>1, CutGet DEF m
  <2>2. CASE ~tun[d].stale
    <3>1. Live(up, cBusy, local, d, DownBase(d), svc[d].sent, tun[d].reader)
      BY <1>8, <2>2 DEF DownChain
    <3>2. QED
      BY <1>1, <1>4, <2>2, <3>1, LiveGet DEF m
  <2>3. QED
    BY <2>1, <2>2
<1>9. CASE IsChunk(m, d) /\ srv[d].active
  <2>1. srv[d].writer # "ended" => DownChain(d)
    BY <1>1, <1>9 DEF DownInv
  <2>2. ConnChunk(sBusy', d) /\ sBusy'.m = m
    BY <1>6, <1>9 DEF ConnChunk
  <2>3. /\ Base(user[d].got, srv[d].queue, sBusy', d) = DownBase(d) + 1
        /\ Arrives(user[d].got, srv[d].queue, sBusy', d, srv[d].writer, svc[d].sent)
    <3>1. Arrives(user[d].got, srv[d].queue, sBusy, d, srv[d].writer, svc[d].sent)
      BY DEF DownInv
    <3>2. srv[d].writer # "ended" =>
            sBusy'.m.n = DownBase(d) + 1 /\ DownBase(d) < svc[d].sent
      BY <1>8, <1>9, <2>1, <2>2
    <3>3. QED
      BY <1>4, <1>7, <2>2, <3>1, <3>2, ArrivesGets DEF DownBase
  <2>4. DownBase(d)' = DownBase(d) + 1
    BY <1>2, <1>3, <2>3 DEF DownBase
  <2>5. DownChain(d) => DownChain(d)'
    BY <1>1, <1>2, <1>8, <1>9, <2>4 DEF DownChain
  <2>6. QED
    BY <1>1, <1>2, <1>3, <1>9, <2>1, <2>3, <2>5 DEF DownInv
<1>10. CASE ~(IsChunk(m, d) /\ srv[d].active)
  <2>1. ~ConnChunk(sBusy', d)
    BY <1>6, <1>10 DEF ConnChunk
  <2>2. /\ Base(user[d].got, srv[d].queue, sBusy', d) = DownBase(d)
        /\ Arrives(user[d].got, srv[d].queue, sBusy', d, srv[d].writer, svc[d].sent)
    BY <1>7, <2>1, ArrivesBusy DEF DownInv, DownBase
  <2>3. DownBase(d)' = DownBase(d)
    BY <1>2, <1>3, <2>2 DEF DownBase
  <2>4. srv'[d].active /\ DownChain(d) => DownChain(d)'
    BY <1>1, <1>2, <1>3, <1>8, <1>10, <2>3 DEF DownChain
  <2>5. QED
    BY <1>1, <1>2, <1>3, <2>1, <2>2, <2>4 DEF DownInv
<1>11. QED
  BY <1>9, <1>10

\* ... and hands it to the connection, if that is still there.
LEMMA ServerDeliversDown ==
  ASSUME LinkTypeOK, NEW d \in Conns, DownInv(d), ServerDelivers
  PROVE  DownInv(d)'
<1>1. sBusy # None /\ sBusy.to = "conn" /\ sBusy' = None /\ sBusy.m.n \in Nat
  BY QueueTypes DEF ServerDelivers
<1>2. UNCHANGED <<sess, local, up, cBusy, user, tun, svc>>
  BY DEF ServerDelivers, wireVars
<1>3. /\ srv'[d].writer = srv[d].writer /\ srv'[d].active = srv[d].active
      /\ srv'[d].queue = IF sBusy.m.id = d /\ srv[d].writer # "ended"
                         THEN Append(srv[d].queue, sBusy.m.n) ELSE srv[d].queue
  BY ServerDeliversEffect DEF SrvEq
<1>4. user[d].got \in Seq(Nat) /\ srv[d].queue \in Seq(Nat) /\ svc[d].sent \in Nat
  BY ChunkTypes
<1>5. ~ConnChunk(None, d)
  BY DEF ConnChunk
<1>6. Arrives(user[d].got, srv[d].queue, sBusy, d, srv[d].writer, svc[d].sent)
  BY DEF DownInv
<1>7. /\ srv[d].writer # "ended" => Base(user[d].got, srv'[d].queue, None, d) = DownBase(d)
      /\ Arrives(user[d].got, srv'[d].queue, None, d, srv[d].writer, svc[d].sent)
  <2>1. CASE ConnChunk(sBusy, d) /\ srv[d].writer # "ended"
    <3>1. srv'[d].queue = Append(srv[d].queue, sBusy.m.n)
      BY <1>3, <2>1 DEF ConnChunk
    <3>2. QED
      BY <1>1, <1>4, <1>6, <2>1, <3>1, ArrivesDelivers DEF DownBase
  <2>2. CASE ~ConnChunk(sBusy, d)
    <3>1. srv'[d].queue = srv[d].queue
      BY <1>1, <1>3, <2>2 DEF ConnChunk
    <3>2. QED
      BY <1>5, <1>6, <2>2, <3>1, ArrivesBusy DEF DownBase
  <2>3. CASE srv[d].writer = "ended"
    BY <1>3, <1>6, <2>3 DEF Arrives
  <2>4. QED
    BY <2>1, <2>2, <2>3
<1>8. srv[d].writer # "ended" => DownBase(d)' = DownBase(d)
  BY <1>1, <1>2, <1>7 DEF DownBase
<1>9. srv[d].writer # "ended" /\ DownChain(d) => DownChain(d)'
  BY <1>2, <1>8 DEF DownChain
<1>10. QED
  BY <1>1, <1>2, <1>3, <1>5, <1>7, <1>9 DEF DownInv

\* The client's loop passes on what the tasks have sent.
LEMMA ClientSendsDown ==
  ASSUME LinkTypeOK, NEW d \in Conns, DownInv(d), ClientSends \/ ClientSent
  PROVE  DownInv(d)'
<1>1. UNCHANGED <<sess, sBusy, srv, user, tun, svc>>
  BY DEF ClientSends, ClientSent, wireVars, sideVars
<1>2. /\ \A x \in UpMsgs : x.n \in Nat
      /\ local \in Seq(UpMsgs) /\ up \in Seq(UpMsgs) /\ DownBase(d) \in Nat /\ svc[d].sent \in Nat
  BY ChunkTypes
<1>3. DownBase(d)' = DownBase(d)
  BY <1>1 DEF DownBase
<1>4. /\ Arrives(user[d].got, srv[d].queue, sBusy, d, srv[d].writer, svc[d].sent)'
      /\ (ConnChunk(sBusy, d) => srv[d].active)'
  BY <1>1 DEF DownInv
<1>5. SUFFICES /\ (tun[d].stale => ~WireChunk(cBusy, d) /\ \A i \in 1..Len(local) : ~IsChunk(local[i], d))'
               /\ DownChain(d) => DownChain(d)'
  BY <1>1, <1>4 DEF DownInv
<1>6. CASE ClientSends
  <2>1. cBusy = None /\ local # <<>> /\ cBusy' = [to |-> "wire", m |-> Head(local)] /\ local' = Tail(local)
        /\ up' = up
    BY <1>6 DEF ClientSends
  <2>2. cBusy' # None /\ cBusy'.to = "wire" /\ cBusy'.m = Head(local)
    BY <2>1, QueueTypes, HoldTypes, LinkAssumption
  <2>3. Live(up, cBusy, local, d, DownBase(d), svc[d].sent, tun[d].reader)
        => Live(up, cBusy', local', d, DownBase(d), svc[d].sent, tun[d].reader)
    BY <1>2, <2>1, <2>2, LiveTake
  <2>4. DownChain(d) => DownChain(d)'
    BY <1>1, <1>3, <2>1, <2>3 DEF DownChain
  <2>5. ASSUME tun[d].stale
        PROVE  ~WireChunk(cBusy', d) /\ \A i \in 1..Len(local') : ~IsChunk(local'[i], d)
    <3>1. \A i \in 1..Len(local) : ~IsChunk(local[i], d)
      BY <2>5 DEF DownInv
    <3>2. /\ Head(local) = local[1] /\ 1 \in 1..Len(local)
          /\ \A i \in 1..Len(local') : local'[i] = local[i + 1] /\ i + 1 \in 1..Len(local)
      BY <1>2, <2>1
    <3>3. QED
      BY <2>2, <3>1, <3>2 DEF WireChunk
  <2>6. QED
    BY <1>1, <2>4, <2>5 DEF WireChunk
<1>7. CASE ClientSent
  <2>1. cBusy # None /\ cBusy.to = "wire" /\ up' = Append(up, cBusy.m) /\ cBusy' = None /\ local' = local
    BY <1>7 DEF ClientSent
  <2>2. cBusy.m \in UpMsgs
    BY <2>1, QueueTypes
  <2>3. Live(up, cBusy, local, d, DownBase(d), svc[d].sent, tun[d].reader)
        => Live(up', None, local, d, DownBase(d), svc[d].sent, tun[d].reader)
    BY <1>2, <2>1, <2>2, LivePut
  <2>4. tun[d].stale /\ Cut(up, d, DownBase(d), svc[d].sent) => Cut(up', d, DownBase(d), svc[d].sent)
    <3>1. tun[d].stale => ~IsChunk(cBusy.m, d)
      BY <2>1 DEF DownInv, WireChunk
    <3>2. QED
      BY <1>2, <2>1, <2>2, <3>1, CutNoise
  <2>5. DownChain(d) => DownChain(d)'
    BY <1>1, <1>3, <2>1, <2>3, <2>4 DEF DownChain
  <2>6. QED
    BY <1>1, <2>1, <2>5 DEF DownInv, WireChunk
<1>8. QED
  BY <1>6, <1>7

\* What the client's loop receives is of the other direction.
LEMMA ClientTakesDown ==
  ASSUME LinkTypeOK, NEW d \in Conns, DownInv(d), ClientReceives \/ ClientDelivers
  PROVE  DownInv(d)'
<1>1. UNCHANGED <<sess, local, up, sBusy, srv, user, svc>>
  BY DEF ClientReceives, ClientDelivers, wireVars
<1>2. tun'[d].stale = tun[d].stale /\ tun'[d].reader = tun[d].reader
  BY ClientReceivesEffect, ClientDeliversEffect DEF TunEq
<1>3. ~WireChunk(cBusy, d) /\ ~WireChunk(cBusy', d)
  BY DEF ClientReceives, ClientDelivers, WireChunk
<1>4. DownBase(d)' = DownBase(d)
  BY <1>1 DEF DownBase
<1>5. Live(up, cBusy, local, d, DownBase(d), svc[d].sent, tun[d].reader)
      => Live(up, cBusy', local, d, DownBase(d), svc[d].sent, tun[d].reader)
  BY <1>3, LiveBusy
<1>6. DownChain(d) => DownChain(d)'
  BY <1>1, <1>2, <1>4, <1>5 DEF DownChain
<1>7. QED
  BY <1>1, <1>2, <1>3, <1>6 DEF DownInv, WireChunk

\* A connection the client has never heard of.
LEMMA NoDownYet ==
  ASSUME LinkTypeOK, LinkLife, NEW d \in Conns, DownInv(d), tun[d].at = "none", srv[d].writer # "ended"
  PROVE  /\ svc[d].sent = 0 /\ DownBase(d) = 0 /\ tun[d].reader = "off"
         /\ \A busy : ~WireChunk(busy, d) => Live(up, busy, <<>>, d, 0, 0, "off")
<1>1. svc[d].sent = 0 /\ tun[d].reader = "off"
  BY DEF LinkLife, ClientLife
<1>2. DownBase(d) <= 0
  BY <1>1 DEF DownInv, Arrives, DownBase
<1>3. DownBase(d) = 0
  BY <1>2, ChunkTypes
<1>4. ASSUME NEW busy, ~WireChunk(busy, d)
      PROVE  Live(up, busy, <<>>, d, 0, 0, "off")
  <2>1. /\ \A i \in 1..Len(up) : ~IsChunk(up[i], d)
        /\ 0 \in Nat /\ "off" # "sending"
    BY <1>1, NothingUp DEF LinkLife
  <2>2. \A i \in 1..Len(<<>>) : ~IsChunk(<<>>[i], d)
    OBVIOUS
  <2>3. QED
    BY <1>4, <2>1, <2>2, LiveStart
<1>5. QED
  BY <1>1, <1>3, <1>4

\* The client's loop ends: its connections are stale, their chains cut.
LEMMA ClientLeavesDown ==
  ASSUME LinkTypeOK, LinkLife, NEW d \in Conns, DownInv(d), ClientLeaves
  PROVE  DownInv(d)'
<1>1. UNCHANGED <<sess, up, sBusy, srv, user, svc>> /\ cBusy' = None /\ local' = <<>>
  BY DEF ClientLeaves
<1>2. tun'[d].reader = tun[d].reader /\ tun'[d].stale = (tun[d].stale \/ tun[d].at # "none")
  BY ClientLeavesEffect DEF TunEq
<1>3. DownBase(d)' = DownBase(d) /\ DownBase(d) \in Nat /\ svc[d].sent \in Nat
  BY <1>1, ChunkTypes DEF DownBase
<1>4. ASSUME srv[d].writer # "ended", DownChain(d)
      PROVE  DownChain(d)'
  <2>1. CASE tun[d].stale
    BY <1>1, <1>2, <1>3, <1>4, <2>1 DEF DownChain
  <2>2. CASE ~tun[d].stale /\ tun[d].at # "none"
    <3>1. Live(up, cBusy, local, d, DownBase(d), svc[d].sent, tun[d].reader)
      BY <1>4, <2>2 DEF DownChain
    <3>2. Cut(up, d, DownBase(d), svc[d].sent)
      BY <1>3, <3>1, LiveIsCut
    <3>3. QED
      BY <1>1, <1>2, <1>3, <2>2, <3>2 DEF DownChain
  <2>3. CASE ~tun[d].stale /\ tun[d].at = "none"
    <3>1. ~WireChunk(None, d)
      BY DEF WireChunk
    <3>2. Live(up, None, <<>>, d, 0, 0, "off") /\ svc[d].sent = 0 /\ DownBase(d) = 0 /\ tun[d].reader = "off"
      BY <1>4, <2>3, <3>1, NoDownYet
    <3>3. QED
      BY <1>1, <1>2, <1>3, <2>3, <3>2 DEF DownChain
  <2>4. QED
    BY <2>1, <2>2, <2>3
<1>5. ~WireChunk(None, d) /\ \A i \in 1..Len(<<>>) : ~IsChunk(<<>>[i], d)
  BY DEF WireChunk
<1>6. QED
  BY <1>1, <1>4, <1>5 DEF DownInv

\* A new WebSocket begins with empty queues.
LEMMA ReconnectDown ==
  ASSUME LinkTypeOK, LinkLife, NEW d \in Conns, DownInv(d), Reconnect
  PROVE  DownInv(d)'
<1>1. UNCHANGED <<local, up, sBusy, cBusy, srv, user, tun, svc>> /\ cli = "down" /\ sess = "down"
  BY DEF Reconnect, queueVars, sideVars
<1>2. /\ up = <<>> /\ local = <<>> /\ cBusy = None
      /\ tun[d].at # "none" => tun[d].stale
      /\ tun[d].stale => tun[d].at # "none"
  BY <1>1 DEF LinkLife, LoopsInv
<1>3. DownBase(d)' = DownBase(d) /\ DownBase(d) \in Nat /\ svc[d].sent \in Nat
  BY <1>1, ChunkTypes DEF DownBase
<1>4. ASSUME srv[d].writer # "ended"
      PROVE  DownChain(d)
  <2>1. CASE tun[d].stale
    <3>1. DownBase(d) <= svc[d].sent
      BY <1>4 DEF DownInv, Arrives, DownBase
    <3>2. \A i \in 1..Len(<<>>) : ~IsChunk(<<>>[i], d)
      OBVIOUS
    <3>3. Cut(<<>>, d, DownBase(d), svc[d].sent)
      BY <1>3, <3>1, <3>2, CutStart
    <3>4. QED
      BY <1>2, <2>1, <3>3 DEF DownChain
  <2>2. CASE ~tun[d].stale
    <3>1. ~WireChunk(None, d)
      BY DEF WireChunk
    <3>2. Live(up, None, <<>>, d, 0, 0, "off") /\ svc[d].sent = 0 /\ DownBase(d) = 0 /\ tun[d].reader = "off"
      BY <1>2, <1>4, <2>2, <3>1, NoDownYet
    <3>3. QED
      BY <1>2, <2>2, <3>2 DEF DownChain
  <2>3. QED
    BY <2>1, <2>2
<1>5. srv[d].writer # "ended" => DownChain(d)'
  BY <1>1, <1>3, <1>4 DEF DownChain
<1>6. QED
  BY <1>1, <1>5 DEF DownInv

\* The steps of both loops together.
LEMMA LoopDown ==
  ASSUME LinkTypeOK, LinkLife, NEW d \in Conns, DownInv(d), ServerStep \/ ClientStep \/ Lose \/ Reconnect
  PROVE  DownInv(d)'
<1>1. CASE ServerSends \/ ServerSent
  <2>1. UNCHANGED <<local, cBusy, sideVars, sess, up>>
    BY <1>1 DEF ServerSends, ServerSent, wireVars
  <2>2. ~ConnChunk(sBusy, d) /\ ~ConnChunk(sBusy, d)'
    BY <1>1 DEF ServerSends, ServerSent, ConnChunk
  <2>3. QED
    BY <2>1, <2>2, DownServer
<1>2. CASE ServerLeaves \/ RemoveClient \/ UnbindClient
  <2>1. UNCHANGED <<local, cBusy, sideVars>> /\ sess' # "up"
    BY <1>2 DEF ServerLeaves, RemoveClient, UnbindClient, queueVars
  <2>2. ~ConnChunk(sBusy, d) /\ ~ConnChunk(sBusy, d)'
    BY <1>2 DEF ServerLeaves, RemoveClient, UnbindClient, queueVars, ConnChunk, LinkLife, LoopsInv
  <2>3. QED
    BY <2>1, <2>2, DownServer
<1>3. CASE Lose
  BY <1>3, DownFrame DEF Lose, queueVars, sideVars
<1>4. QED
  BY <1>1, <1>2, <1>3, ServerReceivesDown, ServerDeliversDown, ClientSendsDown, ClientTakesDown, ClientLeavesDown,
     ReconnectDown DEF ServerStep, ClientStep

\* Proxied requests share the queues and leave the chunks alone.
LEMMA RequestDown ==
  ASSUME LinkTypeOK, NEW d \in Conns, DownInv(d), NEW q \in Reqs,
         \/ ProxyRequest(q) \/ ProxyReadBody(q) \/ ProxySend(q)
         \/ ProxyTimeout(q) \/ ProxyDropped(q) \/ AnswerRequest(q)
  PROVE  DownInv(d)'
<1>1. UNCHANGED <<sess, up, sBusy, cBusy, srv, user, tun, svc>>
  BY Zenon DEF ProxyRequest, ProxyReadBody, ProxySend, ProxyTimeout, ProxyDropped, AnswerRequest, wireVars, sideVars,
     queueVars
<1>2. local' = local \/ local' = Append(local, Msg("HttpResponse", q, 0))
  BY DEF ProxyRequest, ProxyReadBody, ProxySend, ProxyTimeout, ProxyDropped, AnswerRequest, queueVars, to_server
<1>3. Msg("HttpResponse", q, 0) \in UpMsgs /\ ~IsChunk(Msg("HttpResponse", q, 0), d)
  BY MsgType DEF IsChunk, Msg
<1>4. QED
  BY <1>1, <1>2, <1>3, DownNoise

-------------------------------------------------------------------------------
(* From the user to the service                                            *)

\* UpInv of a connection depends on these fields alone.
LEMMA UpFrame ==
  ASSUME NEW d \in Conns, UpInv(d), UNCHANGED <<sess, msg, down, sBusy, cBusy>>,
         svc'[d].got = svc[d].got, user'[d].sent = user[d].sent, srv'[d].reader = srv[d].reader,
         tun'[d].queue = tun[d].queue, tun'[d].writer = tun[d].writer, tun'[d].at = tun[d].at,
         tun'[d].entry = tun[d].entry, tun'[d].stale = tun[d].stale
  PROVE  UpInv(d)'
BY DEF UpInv, UpChain, UpBase

\* The tasks of a connection at the client: the chain begins as they begin to
\* forward, and its writer passes chunks on, or ends.
LEMMA ClientConnUp ==
  ASSUME LinkTypeOK, LinkLife, NEW c \in Conns, NEW d \in Conns, UpInv(d),
         ReadLocal(c) \/ CloseService(c) \/ ClientConnStep(c)
  PROVE  UpInv(d)'
<1>1. ClientShape(c) /\ Life(c)
  BY ClientConnShape DEF LinkLife, Life
<1>2. UNCHANGED <<sess, msg, down, sBusy, cBusy, srv, user>>
  BY <1>1 DEF ClientShape, wireVars
<1>3. CASE d # c
  <2>1. tun'[d] = tun[d] /\ svc'[d] = svc[d]
    BY <1>1, <1>3, OneRecord, ConnTypes DEF ClientShape
  <2>2. QED
    BY <1>2, <2>1, UpFrame
<1>4. CASE d = c
  <2> DEFINE Same == /\ svc'[c].got = svc[c].got /\ tun'[c].queue = tun[c].queue
                     /\ tun'[c].writer = tun[c].writer
  <2>0. UpInv(c) /\ ServerLife(c) /\ ClientLife(c) /\ ToldInv /\ tun'[c].stale = tun[c].stale
    BY <1>1, <1>4, ClientKnows DEF LinkLife
  <2>1. CASE Same /\ tun'[c].at = tun[c].at /\ tun'[c].entry = tun[c].entry
    BY <1>2, <1>4, <2>0, <2>1, UpFrame
  <2>2. CASE Same /\ (tun'[c].at # "forwarding" \/ ~tun'[c].entry)
    BY <1>2, <1>4, <2>0, <2>2 DEF UpInv
  <2>3. CASE Announce(c)
    <3>1. /\ svc'[c].got = svc[c].got /\ tun'[c].queue = tun[c].queue
          /\ tun'[c].writer = "on" /\ tun'[c].entry = tun[c].entry
      BY <2>3, AnnounceEffect DEF TunEq, PeerEq
    <3>2. tun[c].at = "announcing"
      BY <2>3 DEF Announce
    <3>3. srv[c].reader = "off" /\ user[c].sent = 0 /\ tun[c].writer = "off"
      BY <2>0, <3>2 DEF ServerLife, ClientLife
    <3>4. Arrives(svc[c].got, tun[c].queue, cBusy, c, "on", user[c].sent)
      BY <2>0, <3>3, ArrivesWriter DEF UpInv
    <3>5. UpBase(c) = 0
      <4>1. UpBase(c) <= 0
        BY <2>0, <3>3 DEF UpInv, Arrives, UpBase
      <4>2. QED
        BY <4>1, ChunkTypes
    <3>6. /\ \A i \in 1..Len(down) : ~IsChunk(down[i], c)
          /\ \A i \in 1..Len(msg) : ~IsChunk(msg[i], c)
          /\ ~WireChunk(sBusy, c) /\ 0 \in Nat /\ "off" # "sending" /\ 0 <= 0
      BY <2>0, <3>3, NothingDown
    <3>7. Live(down, sBusy, msg, c, 0, 0, "off")
      BY <3>6, LiveStart
    <3>8. Cut(down, c, 0, 0)
      BY <3>6, CutStart
    <3>9. UpChain(c)
      BY <3>3, <3>5, <3>7, <3>8 DEF UpChain
    <3>10. UpChain(c)'
      BY <1>2, <3>1, <3>9 DEF UpChain, UpBase
    <3>11. QED
      BY <1>2, <1>4, <2>0, <3>1, <3>4, <3>10 DEF UpInv
  <2>4. CASE WriteLocal(c) /\ svc[c].open = "open"
    <3>1. /\ svc'[c].got = Append(svc[c].got, Head(tun[c].queue))
          /\ tun'[c].queue = Tail(tun[c].queue)
          /\ tun'[c].writer = tun[c].writer /\ tun'[c].entry = tun[c].entry /\ tun'[c].at = tun[c].at
      BY <2>4, WriteLocalEffect DEF TunEq, PeerEq
    <3>2. tun[c].writer # "ended" /\ tun[c].queue # <<>>
      BY <2>4 DEF WriteLocal
    <3>3. Arrives(svc[c].got, tun[c].queue, cBusy, c, tun[c].writer, user[c].sent)
      BY <2>0 DEF UpInv
    <3>4. /\ Base(svc'[c].got, tun'[c].queue, cBusy, c) = UpBase(c)
          /\ Arrives(svc'[c].got, tun'[c].queue, cBusy, c, tun[c].writer, user[c].sent)
      <4>1. svc[c].got \in Seq(Nat) /\ tun[c].queue \in Seq(Nat) /\ user[c].sent \in Nat
        BY ChunkTypes
      <4>2. QED
        BY <3>1, <3>2, <3>3, <4>1, ArrivesWrite DEF UpBase
    <3>5. UpBase(c)' = UpBase(c)
      BY <1>2, <3>4 DEF UpBase
    <3>6. QED
      BY <1>2, <1>4, <2>0, <3>1, <3>4, <3>5 DEF UpInv, UpChain
  <2>5. CASE WriteLocal(c) /\ svc[c].open # "open"
    <3>1. /\ svc'[c].got = svc[c].got /\ tun'[c].queue = <<>> /\ tun'[c].writer = "ended"
      BY <2>5, WriteLocalFailsEffect DEF TunEq, PeerEq
    <3>2. Arrives(svc[c].got, <<>>, cBusy, c, "ended", user[c].sent)
      BY <2>0, ArrivesEnds DEF UpInv
    <3>3. QED
      BY <1>2, <1>4, <2>0, <3>1, <3>2 DEF UpInv
  <2>6. CASE WriteLocalEnds(c)
    <3>1. /\ svc'[c].got = svc[c].got /\ tun'[c].queue = tun[c].queue /\ tun'[c].writer = "ended"
      BY <2>6, WriteLocalEndsEffect DEF TunEq, PeerEq
    <3>2. tun[c].queue = <<>>
      BY <2>6 DEF WriteLocalEnds
    <3>3. Arrives(svc[c].got, tun[c].queue, cBusy, c, "ended", user[c].sent)
      BY <2>0, <3>2, ArrivesEnds DEF UpInv
    <3>4. QED
      BY <1>2, <1>4, <2>0, <3>1, <3>3 DEF UpInv
  <2>7. CASE ConnectLocal(c) \/ ConnectLocalFails(c) \/ LocalReaderRemoves(c)
    BY <2>2, <2>7, ConnectLocalEffect, ConnectLocalFailsEffect, LocalReaderRemovesEffect DEF TunEq, PeerEq
  <2>8. CASE SendLocalData(c)
    <3>1. CASE tun[c].stale
      BY <2>1, <2>8, <3>1, SendLocalDataFailsEffect DEF TunEq, PeerEq
    <3>2. CASE ~tun[c].stale
      BY <2>1, <2>8, <3>2, SendLocalDataEffect DEF TunEq, PeerEq
    <3>3. QED
      BY <3>1, <3>2
  <2>9. CASE ReadLocal(c) \/ ReadLocalEnds(c) \/ SendLocalClose(c) \/ CloseService(c)
    BY <2>1, <2>9, ReadLocalEffect, ReadLocalEndsEffect, SendLocalCloseEffect, CloseServiceEffect DEF TunEq, PeerEq
  <2>10. QED
    BY <2>3, <2>4, <2>5, <2>6, <2>7, <2>8, <2>9 DEF ClientConnStep
<1>5. QED
  BY <1>3, <1>4

\* What the server's tasks do besides sending their chunks.
LEMMA UpNoise ==
  ASSUME LinkTypeOK, NEW d \in Conns, UpInv(d), UNCHANGED <<sess, down, sBusy, cBusy, tun, svc>>,
         user'[d].sent = user[d].sent,
         \/ srv'[d].reader = srv[d].reader
         \/ srv'[d].reader = "on" /\ srv[d].reader = "off"
         \/ srv'[d].reader \notin {"off", "on", "sending"},
         msg' = msg \/ \E m \in DownMsgs : msg' = Append(msg, m) /\ ~IsChunk(m, d)
  PROVE  UpInv(d)'
<1>1. /\ \A x \in DownMsgs : x.n \in Nat
      /\ msg \in Seq(DownMsgs) /\ down \in Seq(DownMsgs) /\ UpBase(d) \in Nat /\ user[d].sent \in Nat
  BY ChunkTypes
<1>2. UpBase(d)' = UpBase(d)
  BY DEF UpBase
<1>3. ASSUME Live(down, sBusy, msg, d, UpBase(d), user[d].sent, srv[d].reader)
      PROVE  Live(down, sBusy, msg', d, UpBase(d), user[d].sent, srv'[d].reader)
  <2>1. Live(down, sBusy, msg, d, UpBase(d), user[d].sent, srv'[d].reader)
    BY <1>3, LiveReader
  <2>2. CASE msg' = msg
    BY <2>1, <2>2
  <2>3. ASSUME NEW m \in DownMsgs, msg' = Append(msg, m), ~IsChunk(m, d)
        PROVE  Live(down, sBusy, msg', d, UpBase(d), user[d].sent, srv'[d].reader)
    BY <1>1, <2>1, <2>3, LiveNoise
  <2>4. QED
    BY <2>2, <2>3
<1>4. UpChain(d) => UpChain(d)'
  BY <1>2, <1>3 DEF UpChain
<1>5. QED
  BY <1>4 DEF UpInv

\* The tasks of a connection at the server: its reader reads and sends.
LEMMA ServerConnUp ==
  ASSUME LinkTypeOK, LinkLife, NEW c \in Conns, NEW d \in Conns, UpInv(d),
         Accept(c) \/ ReadUser(c) \/ CloseUser(c) \/ ServerConnStep(c)
  PROVE  UpInv(d)'
<1>1. ServerShape(c)
  BY ServerConnShape
<1>2. UNCHANGED <<sess, down, sBusy, cBusy, tun, svc>>
  BY <1>1 DEF ServerShape, wireVars
<1>3. CASE d # c
  <2>1. srv'[d] = srv[d] /\ user'[d] = user[d]
    BY <1>1, <1>3, OneRecord, ConnTypes DEF ServerShape
  <2>2. msg' = msg \/ \E m \in DownMsgs : msg' = Append(msg, m) /\ ~IsChunk(m, d)
    BY <1>1, <1>3 DEF ServerShape, IsChunk
  <2>3. QED
    BY <1>2, <2>1, <2>2, UpNoise
<1>4. CASE d = c
  <2>0. UpInv(c) /\ ServerLife(c)
    BY <1>4 DEF LinkLife
  <2>1. /\ \A x \in DownMsgs : x.n \in Nat
        /\ msg \in Seq(DownMsgs) /\ down \in Seq(DownMsgs) /\ UpBase(c) \in Nat /\ user[c].sent \in Nat
        /\ svc[c].got \in Seq(Nat) /\ tun[c].queue \in Seq(Nat)
    BY ChunkTypes
  <2>2. UpBase(c)' = UpBase(c)
    BY <1>2 DEF UpBase
  <2>3. CASE ReadUser(c)
    <3>1. srv[c].reader = "on" /\ msg' = msg
      BY <2>3 DEF ReadUser, queueVars
    <3>2. srv'[c].reader = "sending" /\ user'[c].sent = user[c].sent + 1
      BY <2>3, ReadUserEffect DEF SrvEq, PeerEq
    <3>3. Arrives(svc[c].got, tun[c].queue, cBusy, c, tun[c].writer, user[c].sent)'
      BY <1>2, <2>0, <2>1, <3>2, ArrivesGrows DEF UpInv
    <3>4. Cut(down, c, UpBase(c), user[c].sent) => Cut(down, c, UpBase(c), user'[c].sent)
      BY <2>1, <3>2, CutGrows
    <3>5. Live(down, sBusy, msg, c, UpBase(c), user[c].sent, "on")
          => Live(down, sBusy, msg, c, UpBase(c), user'[c].sent, "sending")
      BY <2>1, <3>2, LiveRead
    <3>6. UpChain(c) => UpChain(c)'
      BY <1>2, <2>2, <3>1, <3>2, <3>4, <3>5 DEF UpChain
    <3>7. QED
      BY <1>2, <1>4, <2>0, <3>3, <3>6 DEF UpInv
  <2>4. CASE SendUserData(c) /\ reachable
    <3> DEFINE m == Msg("Data", c, user[c].sent)
    <3>1. srv[c].reader = "sending" /\ msg' = Append(msg, m)
      BY <2>4 DEF SendUserData, send_to_client
    <3>2. srv'[c].reader = "on" /\ user'[c].sent = user[c].sent
      BY <2>4, SendUserDataEffect DEF SrvEq, PeerEq
    <3>3. m \in DownMsgs /\ IsChunk(m, c) /\ m.n = user[c].sent
      BY <2>1, MsgType DEF IsChunk, Msg
    <3> HIDE DEF m
    <3>4. Live(down, sBusy, msg, c, UpBase(c), user[c].sent, "sending")
          => Live(down, sBusy, msg', c, UpBase(c), user[c].sent, "on")
      BY <2>1, <3>1, <3>3, LiveSend
    <3>5. UpChain(c) => UpChain(c)'
      BY <1>2, <2>2, <3>1, <3>2, <3>4 DEF UpChain
    <3>6. QED
      BY <1>2, <1>4, <2>0, <3>2, <3>5 DEF UpInv
  <2>5. CASE /\ user'[c].sent = user[c].sent
             /\ \/ srv'[c].reader = srv[c].reader
                \/ srv'[c].reader = "on" /\ srv[c].reader = "off"
                \/ srv'[c].reader \notin {"off", "on", "sending"}
             /\ ~SendUserData(c) \/ ~reachable
    <3>1. msg' = msg \/ \E m \in DownMsgs : msg' = Append(msg, m) /\ ~IsChunk(m, c)
      <4>1. ~IsChunk(ConnectMsg(c), c) /\ ~IsChunk(Msg("Close", c, 0), c)
        BY DEF IsChunk, Msg, ConnectMsg
      <4>2. ConnectMsg(c) \in DownMsgs
        BY MsgType DEF ConnectMsg
      <4>3. QED
        BY <2>5, <4>1, <4>2, ServerSays, MsgType
    <3>2. QED
      BY <1>2, <1>4, <2>0, <2>5, <3>1, UpNoise
  <2>6. CASE SendUserData(c) /\ ~reachable
    BY <2>5, <2>6, SendUserDataFailsEffect DEF SrvEq, PeerEq
  <2>7. CASE ConnectionReady(c)
    <3>1. srv[c].reader = "off" /\ ~SendUserData(c)
      BY <2>0, <2>7 DEF ConnectionReady, ServerLife, SendUserData
    <3>2. QED
      BY <2>5, <2>7, <3>1, ConnectionReadyEffect DEF SrvEq, PeerEq
  <2>8. CASE ReadUserEnds(c) \/ EnterClose(c) \/ SendClose(c)
    <3>1. ~SendUserData(c)
      BY <2>8 DEF ReadUserEnds, EnterClose, SendClose, SendUserData
    <3>2. QED
      BY <2>5, <2>8, <3>1, ReadUserEndsEffect, EnterCloseEffect, SendCloseEffect DEF SrvEq, PeerEq
  <2>9. CASE ~SendUserData(c) /\ (Accept(c) \/ SendConnect(c))
    <3>1. CASE reachable
      BY <2>5, <2>9, <3>1, AcceptEffect, SendConnectEffect DEF SrvEq, PeerEq
    <3>2. CASE ~reachable
      BY <2>5, <2>9, <3>2, RefuseEffect, SendConnectFailsEffect DEF SrvEq, PeerEq
    <3>3. QED
      BY <3>1, <3>2
  <2>10. CASE ~SendUserData(c) /\ (WriteUser(c) \/ WriteUserEnds(c))
    <3>1. CASE user[c].open = "open"
      BY <2>5, <2>10, <3>1, WriteUserEffect, WriteUserEndsEffect DEF SrvEq, PeerEq
    <3>2. CASE user[c].open # "open"
      BY <2>5, <2>10, <3>2, WriteUserFailsEffect, WriteUserEndsEffect DEF SrvEq, PeerEq
    <3>3. QED
      BY <3>1, <3>2
  <2>11. CASE ~SendUserData(c) /\ (Register(c) \/ ReadyTimeout(c) \/ HandlerEnds(c) \/ CloseUser(c))
    BY <2>5, <2>11, RegisterEffect, ReadyTimeoutEffect, HandlerEndsEffect, CloseUserEffect DEF SrvEq, PeerEq
  <2>12. QED
    BY <2>3, <2>4, <2>6, <2>7, <2>8, <2>9, <2>10, <2>11 DEF ServerConnStep
<1>5. QED
  BY <1>3, <1>4

\* The server's loop passes on what the tasks have sent.
LEMMA ServerSendsUp ==
  ASSUME LinkTypeOK, NEW d \in Conns, UpInv(d), ServerSends \/ ServerSent
  PROVE  UpInv(d)'
<1>1. UNCHANGED <<sess, cBusy, srv, user, tun, svc>> /\ sess = "up"
  BY DEF ServerSends, ServerSent, wireVars, sideVars
<1>2. /\ \A x \in DownMsgs : x.n \in Nat
      /\ msg \in Seq(DownMsgs) /\ down \in Seq(DownMsgs) /\ UpBase(d) \in Nat /\ user[d].sent \in Nat
  BY ChunkTypes
<1>3. UpBase(d)' = UpBase(d)
  BY <1>1 DEF UpBase
<1>4. SUFFICES UpChain(d) => UpChain(d)'
  BY <1>1 DEF UpInv
<1>5. CASE ServerSends
  <2>1. /\ sBusy = None /\ msg # <<>> /\ sBusy' = [to |-> "wire", m |-> Head(msg)]
        /\ msg' = Tail(msg) /\ down' = down
    BY <1>5 DEF ServerSends
  <2>2. sBusy' # None /\ sBusy'.to = "wire" /\ sBusy'.m = Head(msg)
    BY <2>1, QueueTypes, HoldTypes, LinkAssumption
  <2>3. Live(down, sBusy, msg, d, UpBase(d), user[d].sent, srv[d].reader)
        => Live(down, sBusy', msg', d, UpBase(d), user[d].sent, srv[d].reader)
    BY <1>2, <2>1, <2>2, LiveTake
  <2>4. QED
    BY <1>1, <1>3, <2>1, <2>3 DEF UpChain
<1>6. CASE ServerSent
  <2>1. sBusy # None /\ sBusy.to = "wire" /\ down' = Append(down, sBusy.m) /\ sBusy' = None /\ msg' = msg
    BY <1>6 DEF ServerSent
  <2>2. sBusy.m \in DownMsgs
    BY <2>1, QueueTypes
  <2>3. Live(down, sBusy, msg, d, UpBase(d), user[d].sent, srv[d].reader)
        => Live(down', None, msg, d, UpBase(d), user[d].sent, srv[d].reader)
    BY <1>2, <2>1, <2>2, LivePut
  <2>4. QED
    BY <1>1, <1>3, <2>1, <2>3 DEF UpChain
<1>7. QED
  BY <1>5, <1>6

\* What the server's loop receives is of the other direction.
LEMMA ServerTakesUp ==
  ASSUME LinkTypeOK, NEW d \in Conns, UpInv(d), ServerReceives \/ ServerDelivers
  PROVE  UpInv(d)'
<1>1. UNCHANGED <<sess, msg, down, cBusy, user, tun, svc>>
  BY DEF ServerReceives, ServerDelivers, wireVars
<1>2. srv'[d].reader = srv[d].reader
  BY ServerReceivesEffect, ServerDeliversEffect DEF SrvEq
<1>3. ~WireChunk(sBusy, d) /\ ~WireChunk(sBusy', d)
  BY DEF ServerReceives, ServerDelivers, WireChunk
<1>4. UpBase(d)' = UpBase(d)
  BY <1>1 DEF UpBase
<1>5. Live(down, sBusy, msg, d, UpBase(d), user[d].sent, srv[d].reader)
      => Live(down, sBusy', msg, d, UpBase(d), user[d].sent, srv[d].reader)
  BY <1>3, LiveBusy
<1>6. UpChain(d) => UpChain(d)'
  BY <1>1, <1>2, <1>4, <1>5 DEF UpChain
<1>7. QED
  BY <1>1, <1>6 DEF UpInv

\* The server's loop ends: every chain is cut.
LEMMA ServerLeavesUp ==
  ASSUME LinkTypeOK, NEW d \in Conns, UpInv(d), ServerLeaves \/ RemoveClient \/ UnbindClient
  PROVE  UpInv(d)'
<1>1. UNCHANGED <<down, cBusy, srv, user, tun, svc>> /\ sess' # "up"
  BY DEF ServerLeaves, RemoveClient, UnbindClient, queueVars, sideVars
<1>2. UpBase(d)' = UpBase(d) /\ UpBase(d) \in Nat /\ user[d].sent \in Nat
  BY <1>1, ChunkTypes DEF UpBase
<1>3. Live(down, sBusy, msg, d, UpBase(d), user[d].sent, srv[d].reader)
      => Cut(down, d, UpBase(d), user[d].sent)
  BY <1>2, LiveIsCut
<1>4. UpChain(d) => UpChain(d)'
  BY <1>1, <1>2, <1>3 DEF UpChain
<1>5. QED
  BY <1>1, <1>4 DEF UpInv

\* What the client's loop sends is of the other direction.
LEMMA ClientSendsUp ==
  ASSUME NEW d \in Conns, UpInv(d), ClientSends \/ ClientSent
  PROVE  UpInv(d)'
<1>1. UNCHANGED <<sess, msg, down, sBusy, srv, user, tun, svc>>
  BY DEF ClientSends, ClientSent, wireVars, sideVars
<1>2. ~ConnChunk(cBusy, d) /\ ~ConnChunk(cBusy, d)'
  BY DEF ClientSends, ClientSent, ConnChunk
<1>3. UpBase(d)' = UpBase(d)
  BY <1>1, <1>2, ArrivesBusy DEF UpBase
<1>4. Arrives(svc[d].got, tun[d].queue, cBusy, d, tun[d].writer, user[d].sent)'
  BY <1>1, <1>2, ArrivesBusy DEF UpInv
<1>5. UpChain(d) => UpChain(d)'
  BY <1>1, <1>3 DEF UpChain
<1>6. QED
  BY <1>1, <1>2, <1>4, <1>5 DEF UpInv

\* The client's loop takes a message from the wire: the next chunk, if it is one
\* of the connection.
LEMMA ClientReceivesUp ==
  ASSUME LinkTypeOK, LinkLife, NEW d \in Conns, UpInv(d), ClientReceives
  PROVE  UpInv(d)'
<1> DEFINE m == Head(down)
<1>1. cBusy = None /\ down # <<>> /\ down' = Tail(down)
  BY DEF ClientReceives
<1>2. UNCHANGED <<sess, msg, sBusy, srv, user, svc>>
  BY DEF ClientReceives, wireVars
<1>3. /\ tun'[d].queue = tun[d].queue /\ tun'[d].writer = tun[d].writer /\ tun'[d].stale = tun[d].stale
      /\ tun'[d].entry => tun[d].entry
      /\ tun'[d].at = "forwarding" => tun[d].at = "forwarding"
  BY ClientReceivesEffect DEF TunEq
<1>4. /\ \A x \in DownMsgs : x.n \in Nat
      /\ msg \in Seq(DownMsgs) /\ down \in Seq(DownMsgs) /\ UpBase(d) \in Nat /\ user[d].sent \in Nat
      /\ svc[d].got \in Seq(Nat) /\ tun[d].queue \in Seq(Nat)
  BY ChunkTypes
<1>5. m \in DownMsgs
  BY <1>1, QueueTypes
<1>6. /\ ConnChunk(cBusy, d)' => IsChunk(m, d) /\ tun[d].entry /\ ~tun[d].stale /\ cBusy'.m = m
      /\ IsChunk(m, d) /\ tun[d].entry /\ ~tun[d].stale => ConnChunk(cBusy, d)' /\ cBusy'.m = m
  <2>1. cBusy' = IF m.kind = "Data" /\ tun[m.id].entry /\ ~tun[m.id].stale
                 THEN [to |-> "conn", m |-> m] ELSE None
    BY DEF ClientReceives
  <2>2. m.kind = "Data" => [to |-> "conn", m |-> m] # None
    BY <1>5, HoldTypes, LinkAssumption
  <2>3. QED
    BY <2>1, <2>2 DEF ConnChunk, IsChunk
<1>7. ~ConnChunk(cBusy, d)
  BY <1>1 DEF ConnChunk
<1>8. IsChunk(m, d) => tun[d].at = "forwarding"
  <2>1. SUFFICES ASSUME IsChunk(m, d)
                 PROVE  tun[d].at = "forwarding"
    OBVIOUS
  <2>2. DownTold(m)
    BY <1>1, FlightTypes DEF LinkLife, ToldInv
  <2>3. m.n \in 1..user[d].sent
    BY <2>1, <2>2 DEF DownTold, IsChunk
  <2>4. user[d].sent # 0
    BY <1>4, <2>3
  <2>5. QED
    BY <2>4 DEF LinkLife, ServerLife
<1> HIDE DEF m
<1>9. ASSUME UpChain(d)
      PROVE  /\ IsChunk(m, d) => m.n = UpBase(d) + 1 /\ UpBase(d) < user[d].sent
             /\ IsChunk(m, d) /\ sess # "up" => Cut(Tail(down), d, UpBase(d) + 1, user[d].sent)
             /\ IsChunk(m, d) /\ sess = "up" =>
                  Live(Tail(down), sBusy, msg, d, UpBase(d) + 1, user[d].sent, srv[d].reader)
             /\ ~IsChunk(m, d) /\ sess # "up" => Cut(Tail(down), d, UpBase(d), user[d].sent)
             /\ ~IsChunk(m, d) /\ sess = "up" =>
                  Live(Tail(down), sBusy, msg, d, UpBase(d), user[d].sent, srv[d].reader)
  <2>1. CASE sess # "up"
    <3>1. Cut(down, d, UpBase(d), user[d].sent)
      BY <1>9, <2>1 DEF UpChain
    <3>2. QED
      BY <1>1, <1>4, <2>1, <3>1, CutGet DEF m
  <2>2. CASE sess = "up"
    <3>1. Live(down, sBusy, msg, d, UpBase(d), user[d].sent, srv[d].reader)
      BY <1>9, <2>2 DEF UpChain
    <3>2. QED
      BY <1>1, <1>4, <2>2, <3>1, LiveGet DEF m
  <2>3. QED
    BY <2>1, <2>2
<1>10. CASE IsChunk(m, d) /\ tun[d].entry /\ ~tun[d].stale
  <2>1. tun[d].writer # "ended" => UpChain(d)
    BY <1>8, <1>10 DEF UpInv
  <2>2. ConnChunk(cBusy', d) /\ cBusy'.m = m
    BY <1>6, <1>10 DEF ConnChunk
  <2>3. /\ Base(svc[d].got, tun[d].queue, cBusy', d) = UpBase(d) + 1
        /\ Arrives(svc[d].got, tun[d].queue, cBusy', d, tun[d].writer, user[d].sent)
    <3>1. Arrives(svc[d].got, tun[d].queue, cBusy, d, tun[d].writer, user[d].sent)
      BY DEF UpInv
    <3>2. tun[d].writer # "ended" =>
            cBusy'.m.n = UpBase(d) + 1 /\ UpBase(d) < user[d].sent
      BY <1>9, <1>10, <2>1, <2>2
    <3>3. QED
      BY <1>4, <1>7, <2>2, <3>1, <3>2, ArrivesGets DEF UpBase
  <2>4. UpBase(d)' = UpBase(d) + 1
    BY <1>2, <1>3, <2>3 DEF UpBase
  <2>5. UpChain(d) => UpChain(d)'
    BY <1>1, <1>2, <1>9, <1>10, <2>4 DEF UpChain
  <2>6. QED
    BY <1>1, <1>2, <1>3, <1>10, <2>1, <2>3, <2>5 DEF UpInv
<1>11. CASE ~(IsChunk(m, d) /\ tun[d].entry /\ ~tun[d].stale)
  <2>1. ~ConnChunk(cBusy', d)
    BY <1>6, <1>11 DEF ConnChunk
  <2>2. /\ Base(svc[d].got, tun[d].queue, cBusy', d) = UpBase(d)
        /\ Arrives(svc[d].got, tun[d].queue, cBusy', d, tun[d].writer, user[d].sent)
    BY <1>7, <2>1, ArrivesBusy DEF UpInv, UpBase
  <2>3. UpBase(d)' = UpBase(d)
    BY <1>2, <1>3, <2>2 DEF UpBase
  <2>4. tun[d].entry /\ ~tun[d].stale /\ UpChain(d) => UpChain(d)'
    BY <1>1, <1>2, <1>3, <1>9, <1>11, <2>3 DEF UpChain
  <2>5. QED
    BY <1>1, <1>2, <1>3, <2>1, <2>2, <2>4 DEF UpInv
<1>12. QED
  BY <1>10, <1>11

\* ... and hands a chunk to the connection, if that is still there.
LEMMA ClientDeliversUp ==
  ASSUME LinkTypeOK, NEW d \in Conns, UpInv(d), ClientDelivers
  PROVE  UpInv(d)'
<1>1. cBusy # None /\ cBusy.to = "conn" /\ cBusy' = None /\ cBusy.m.n \in Nat
  BY QueueTypes DEF ClientDelivers
<1>2. UNCHANGED <<sess, msg, down, sBusy, srv, user, svc>>
  BY DEF ClientDelivers, wireVars
<1>3. /\ tun'[d].writer = tun[d].writer /\ tun'[d].at = tun[d].at
      /\ tun'[d].entry = tun[d].entry /\ tun'[d].stale = tun[d].stale
      /\ tun'[d].queue = IF cBusy.m.id = d /\ tun[d].writer # "ended"
                         THEN Append(tun[d].queue, cBusy.m.n) ELSE tun[d].queue
  BY ClientDeliversEffect DEF TunEq
<1>4. svc[d].got \in Seq(Nat) /\ tun[d].queue \in Seq(Nat) /\ user[d].sent \in Nat
  BY ChunkTypes
<1>5. ~ConnChunk(None, d)
  BY DEF ConnChunk
<1>6. Arrives(svc[d].got, tun[d].queue, cBusy, d, tun[d].writer, user[d].sent)
  BY DEF UpInv
<1>7. /\ tun[d].writer # "ended" => Base(svc[d].got, tun'[d].queue, None, d) = UpBase(d)
      /\ Arrives(svc[d].got, tun'[d].queue, None, d, tun[d].writer, user[d].sent)
  <2>1. CASE ConnChunk(cBusy, d) /\ tun[d].writer # "ended"
    <3>1. tun'[d].queue = Append(tun[d].queue, cBusy.m.n)
      BY <1>3, <2>1 DEF ConnChunk
    <3>2. QED
      BY <1>1, <1>4, <1>6, <2>1, <3>1, ArrivesDelivers DEF UpBase
  <2>2. CASE ~ConnChunk(cBusy, d)
    <3>1. tun'[d].queue = tun[d].queue
      BY <1>1, <1>3, <2>2 DEF ConnChunk
    <3>2. QED
      BY <1>5, <1>6, <2>2, <3>1, ArrivesBusy DEF UpBase
  <2>3. CASE tun[d].writer = "ended"
    BY <1>3, <1>6, <2>3 DEF Arrives
  <2>4. QED
    BY <2>1, <2>2, <2>3
<1>8. tun[d].writer # "ended" => UpBase(d)' = UpBase(d)
  BY <1>1, <1>2, <1>7 DEF UpBase
<1>9. tun[d].writer # "ended" /\ UpChain(d) => UpChain(d)'
  BY <1>2, <1>8 DEF UpChain
<1>10. QED
  BY <1>1, <1>2, <1>3, <1>5, <1>7, <1>9 DEF UpInv

\* The steps of both loops together.
LEMMA LoopUp ==
  ASSUME LinkTypeOK, LinkLife, NEW d \in Conns, UpInv(d), ServerStep \/ ClientStep \/ Lose \/ Reconnect
  PROVE  UpInv(d)'
<1>1. CASE ClientLeaves
  <2>1. UNCHANGED <<user, svc>> /\ cBusy' = None /\ ~ConnChunk(cBusy, d) /\ ~ConnChunk(None, d)
    BY <1>1 DEF ClientLeaves, ConnChunk
  <2>2. tun'[d].queue = tun[d].queue /\ tun'[d].writer = tun[d].writer /\ ~tun'[d].entry
    BY <1>1, ClientLeavesEffect DEF TunEq
  <2>3. Arrives(svc[d].got, tun[d].queue, None, d, tun[d].writer, user[d].sent)
    BY <2>1, ArrivesBusy DEF UpInv
  <2>4. QED
    BY <2>1, <2>2, <2>3 DEF UpInv
<1>2. CASE Lose
  BY <1>2, UpFrame DEF Lose, queueVars, sideVars
<1>3. CASE Reconnect
  <2>1. UNCHANGED <<cBusy, user, tun, svc>> /\ cli = "down"
    BY <1>3 DEF Reconnect, queueVars, sideVars
  <2>2. tun[d].at = "forwarding" => tun[d].stale
    BY <2>1 DEF LinkLife, LoopsInv
  <2>3. QED
    BY <2>1, <2>2 DEF UpInv
<1>4. QED
  BY <1>1, <1>2, <1>3, ServerSendsUp, ServerTakesUp, ServerLeavesUp, ClientSendsUp, ClientReceivesUp,
     ClientDeliversUp DEF ServerStep, ClientStep

\* Proxied requests share the queues and leave the chunks alone.
LEMMA RequestUp ==
  ASSUME LinkTypeOK, NEW d \in Conns, UpInv(d), NEW q \in Reqs,
         \/ ProxyRequest(q) \/ ProxyReadBody(q) \/ ProxySend(q)
         \/ ProxyTimeout(q) \/ ProxyDropped(q) \/ AnswerRequest(q)
  PROVE  UpInv(d)'
<1>1. UNCHANGED <<sess, down, sBusy, cBusy, srv, user, tun, svc>>
  BY Zenon DEF ProxyRequest, ProxyReadBody, ProxySend, ProxyTimeout, ProxyDropped, AnswerRequest, wireVars, sideVars,
     queueVars
<1>2. msg' = msg \/ msg' = Append(msg, Msg("HttpRequest", q, 0))
  BY DEF ProxyRequest, ProxyReadBody, ProxySend, ProxyTimeout, ProxyDropped, AnswerRequest, queueVars
<1>3. Msg("HttpRequest", q, 0) \in DownMsgs /\ ~IsChunk(Msg("HttpRequest", q, 0), d)
  BY MsgType DEF IsChunk, Msg
<1>4. QED
  BY <1>1, <1>2, <1>3, UpNoise

-------------------------------------------------------------------------------
(* The inductive invariant                                                 *)

LEMMA LinkInvInit == LinkInit => LinkInv
<1> SUFFICES ASSUME LinkInit
             PROVE  LinkInv
  OBVIOUS
<1>1. LinkTypeOK /\ LinkLife
  BY LinkTypeInit, LinkLifeInit
<1>2. ASSUME NEW c \in Conns
      PROVE  DownInv(c) /\ UpInv(c)
  <2>1. /\ user[c].got = <<>> /\ user[c].sent = 0 /\ svc[c].got = <<>> /\ svc[c].sent = 0
        /\ srv[c].queue = <<>> /\ srv[c].active = FALSE /\ srv[c].writer = "off"
        /\ tun[c].queue = <<>> /\ tun[c].stale = FALSE /\ tun[c].at = "none" /\ tun[c].writer = "off"
        /\ sBusy = None /\ cBusy = None
    BY DEF LinkInit, Peer
  <2>2. ~ConnChunk(None, c) /\ Len(<<>>) = 0
    BY DEF ConnChunk
  <2>3. Base(<<>>, <<>>, None, c) = 0
    BY <2>2 DEF Base
  <2>4. Arrives(<<>>, <<>>, None, c, "off", 0)
    BY <2>2, <2>3 DEF Arrives
  <2>5. QED
    BY <2>1, <2>2, <2>4 DEF DownInv, UpInv
<1>3. QED
  BY <1>1, <1>2 DEF LinkInv

\* Every step keeps types, lives and chains.
LEMMA LinkInvNext == LinkInv /\ [LinkNext]_linkVars => LinkInv'
<1> SUFFICES ASSUME LinkInv, [LinkNext]_linkVars
             PROVE  LinkInv'
  OBVIOUS
<1>1. LinkTypeOK /\ LinkLife /\ LinkTypeOK' /\ LinkLife'
  BY LinkTypeNext, LinkLifeNext DEF LinkInv
<1>2. ASSUME NEW d \in Conns
      PROVE  DownInv(d)' /\ UpInv(d)'
  <2>0. DownInv(d) /\ UpInv(d)
    BY DEF LinkInv
  <2>1. CASE UNCHANGED linkVars
    BY <2>0, <2>1, DownFrame, UpFrame DEF linkVars
  <2>2. ASSUME NEW c \in Conns, Accept(c) \/ ReadUser(c) \/ CloseUser(c) \/ ServerConnStep(c)
        PROVE  DownInv(d)' /\ UpInv(d)'
    BY <1>1, <2>0, <2>2, ServerConnDown, ServerConnUp
  <2>3. ASSUME NEW c \in Conns, ReadLocal(c) \/ CloseService(c) \/ ClientConnStep(c)
        PROVE  DownInv(d)' /\ UpInv(d)'
    BY <1>1, <2>0, <2>3, ClientConnDown, ClientConnUp
  <2>4. CASE ServerStep \/ ClientStep \/ Lose \/ Reconnect
    BY <1>1, <2>0, <2>4, LoopDown, LoopUp
  <2>5. ASSUME NEW q \in Reqs, \/ ProxyRequest(q) \/ ProxyReadBody(q) \/ ProxySend(q)
                               \/ ProxyTimeout(q) \/ ProxyDropped(q) \/ AnswerRequest(q)
        PROVE  DownInv(d)' /\ UpInv(d)'
    BY <1>1, <2>0, <2>5, RequestDown, RequestUp
  <2>6. QED
    BY <2>1, <2>2, <2>3, <2>4, <2>5 DEF LinkNext
<1>3. QED
  BY <1>1, <1>2 DEF LinkInv

-------------------------------------------------------------------------------
(* The refinement                                                          *)

\* Only the readers of the two ends take a chunk in, and only the writers hand one out.
LEMMA PeerSteps ==
  ASSUME LinkTypeOK, [LinkNext]_linkVars
  PROVE  /\ \/ UNCHANGED user
            \/ \E c \in Conns :
                 /\ user' = [user EXCEPT ![c] = user'[c]] /\ svc' = svc
                 /\ (user'[c].sent = user[c].sent \/ ReadUser(c))
                 /\ (user'[c].got = user[c].got \/ (WriteUser(c) /\ user[c].open = "open"))
         /\ \/ UNCHANGED svc
            \/ \E c \in Conns :
                 /\ svc' = [svc EXCEPT ![c] = svc'[c]] /\ user' = user
                 /\ (svc'[c].sent = svc[c].sent \/ ReadLocal(c))
                 /\ svc'[c].got = svc[c].got \/ (WriteLocal(c) /\ svc[c].open = "open")
<1>1. CASE UNCHANGED linkVars
  BY <1>1 DEF linkVars
<1>2. ASSUME NEW c \in Conns, Accept(c) \/ ReadUser(c) \/ CloseUser(c) \/ ServerConnStep(c)
      PROVE  /\ user' = [user EXCEPT ![c] = user'[c]] /\ svc' = svc
             /\ (user'[c].sent = user[c].sent \/ ReadUser(c))
             /\ (user'[c].got = user[c].got \/ (WriteUser(c) /\ user[c].open = "open"))
  <2>1. user' = [user EXCEPT ![c] = user'[c]] /\ svc' = svc
    BY <1>2, ServerConnShape DEF ServerShape
  <2>2. SUFFICES /\ (user'[c].sent = user[c].sent \/ ReadUser(c))
                 /\ (user'[c].got = user[c].got \/ (WriteUser(c) /\ user[c].open = "open"))
    BY <2>1
  <2>3. CASE Accept(c) \/ SendConnect(c) \/ SendUserData(c)
    <3>1. CASE reachable
      BY <2>3, <3>1, AcceptEffect, SendConnectEffect, SendUserDataEffect DEF PeerEq
    <3>2. CASE ~reachable
      BY <2>3, <3>2, RefuseEffect, SendConnectFailsEffect, SendUserDataFailsEffect DEF PeerEq
    <3>3. QED
      BY <3>1, <3>2
  <2>4. CASE Register(c) \/ ConnectionReady(c) \/ ReadyTimeout(c) \/ ReadUserEnds(c) \/ EnterClose(c)
    BY <2>4, RegisterEffect, ConnectionReadyEffect, ReadyTimeoutEffect, ReadUserEndsEffect, EnterCloseEffect
       DEF PeerEq
  <2>5. CASE SendClose(c) \/ WriteUserEnds(c) \/ HandlerEnds(c) \/ CloseUser(c) \/ ReadUser(c)
    BY <2>5, SendCloseEffect, WriteUserEndsEffect, HandlerEndsEffect, CloseUserEffect, ReadUserEffect DEF PeerEq
  <2>6. CASE WriteUser(c)
    <3>1. CASE user[c].open = "open"
      BY <2>6, <3>1, WriteUserEffect DEF PeerEq
    <3>2. CASE user[c].open # "open"
      BY <2>6, <3>2, WriteUserFailsEffect DEF PeerEq
    <3>3. QED
      BY <3>1, <3>2
  <2>7. QED
    BY <1>2, <2>3, <2>4, <2>5, <2>6 DEF ServerConnStep
<1>3. ASSUME NEW c \in Conns, ReadLocal(c) \/ CloseService(c) \/ ClientConnStep(c)
      PROVE  /\ svc' = [svc EXCEPT ![c] = svc'[c]] /\ user' = user
             /\ (svc'[c].sent = svc[c].sent \/ ReadLocal(c))
             /\ svc'[c].got = svc[c].got \/ (WriteLocal(c) /\ svc[c].open = "open")
  <2>1. svc' = [svc EXCEPT ![c] = svc'[c]] /\ user' = user
    BY <1>3, ClientConnShape DEF ClientShape
  <2>2. SUFFICES /\ (svc'[c].sent = svc[c].sent \/ ReadLocal(c))
                 /\ (svc'[c].got = svc[c].got \/ (WriteLocal(c) /\ svc[c].open = "open"))
    BY <2>1
  <2>3. CASE SendLocalData(c)
    <3>1. CASE tun[c].stale
      BY <2>3, <3>1, SendLocalDataFailsEffect DEF PeerEq
    <3>2. CASE ~tun[c].stale
      BY <2>3, <3>2, SendLocalDataEffect DEF PeerEq
    <3>3. QED
      BY <3>1, <3>2
  <2>4. CASE ConnectLocal(c) \/ ConnectLocalFails(c) \/ Announce(c) \/ ReadLocalEnds(c) \/ SendLocalClose(c)
    BY <2>4, ConnectLocalEffect, ConnectLocalFailsEffect, AnnounceEffect, ReadLocalEndsEffect, SendLocalCloseEffect
       DEF PeerEq
  <2>5. CASE LocalReaderRemoves(c) \/ WriteLocalEnds(c) \/ CloseService(c) \/ ReadLocal(c)
    BY <2>5, LocalReaderRemovesEffect, WriteLocalEndsEffect, CloseServiceEffect, ReadLocalEffect DEF PeerEq
  <2>6. CASE WriteLocal(c)
    <3>1. CASE svc[c].open = "open"
      BY <2>6, <3>1, WriteLocalEffect DEF PeerEq
    <3>2. CASE svc[c].open # "open"
      BY <2>6, <3>2, WriteLocalFailsEffect DEF PeerEq
    <3>3. QED
      BY <3>1, <3>2
  <2>7. QED
    BY <1>3, <2>3, <2>4, <2>5, <2>6 DEF ClientConnStep
<1>4. CASE ServerStep \/ ClientStep \/ Lose \/ Reconnect
  BY <1>4, Zenon DEF ServerStep, ClientStep, ServerSends, ServerSent, ServerReceives, ServerDelivers, ServerLeaves,
     RemoveClient, UnbindClient, ClientSends, ClientSent, ClientReceives, ClientDelivers, ClientLeaves, Lose,
     Reconnect, sideVars
<1>5. ASSUME NEW q \in Reqs, \/ ProxyRequest(q) \/ ProxyReadBody(q) \/ ProxySend(q)
                             \/ ProxyTimeout(q) \/ ProxyDropped(q) \/ AnswerRequest(q)
      PROVE  UNCHANGED <<user, svc>>
  BY <1>5, Zenon DEF ProxyRequest, ProxyReadBody, ProxySend, ProxyTimeout, ProxyDropped, AnswerRequest, sideVars
<1>6. QED
  BY <1>1, <1>2, <1>3, <1>4, <1>5 DEF LinkNext

UserSent == [c \in Conns |-> user[c].sent]
UserGot == [c \in Conns |-> user[c].got]
SvcSent == [c \in Conns |-> svc[c].sent]
SvcGot == [c \in Conns |-> svc[c].got]

\* A step of one connection changes one element of what Pipe sees.
LEMMA FieldMaps ==
  ASSUME NEW f \in [Conns -> PeerRecords], NEW g, NEW c \in Conns, g = [f EXCEPT ![c] = g[c]]
  PROVE  /\ g[c].sent = f[c].sent => [d \in Conns |-> g[d].sent] = [d \in Conns |-> f[d].sent]
         /\ g[c].got = f[c].got => [d \in Conns |-> g[d].got] = [d \in Conns |-> f[d].got]
         /\ [d \in Conns |-> g[d].sent] = [[d \in Conns |-> f[d].sent] EXCEPT ![c] = g[c].sent]
         /\ [d \in Conns |-> g[d].got] = [[d \in Conns |-> f[d].got] EXCEPT ![c] = g[c].got]
<1>1. \A d \in Conns : d # c => g[d] = f[d]
  OBVIOUS
<1>2. QED
  BY <1>1

\* Every step is a step of the pipe from the users to the services, or leaves it
\* alone.
LEMMA UpRefines == LinkInv /\ [LinkNext]_linkVars => [Upstream!Next]_<<UserSent, SvcGot>>
<1> SUFFICES ASSUME LinkInv, [LinkNext]_linkVars
             PROVE  Upstream!Next \/ UNCHANGED <<UserSent, SvcGot>>
  OBVIOUS
<1>1. LinkTypeOK /\ user \in [Conns -> PeerRecords] /\ svc \in [Conns -> PeerRecords]
  BY DEF LinkInv, LinkTypeOK
<1>2. \/ UNCHANGED <<UserSent, SvcGot>>
      \/ \E c \in Conns : ReadUser(c)
      \/ \E c \in Conns : WriteLocal(c) /\ svc[c].open = "open"
  <2>1. CASE UNCHANGED <<user, svc>>
    BY <2>1 DEF UserSent, SvcGot
  <2>2. CASE \E c \in Conns : /\ user' = [user EXCEPT ![c] = user'[c]] /\ svc' = svc
                              /\ (user'[c].sent = user[c].sent \/ ReadUser(c))
    BY <1>1, <2>2, FieldMaps DEF UserSent, SvcGot
  <2>3. CASE \E c \in Conns : /\ svc' = [svc EXCEPT ![c] = svc'[c]] /\ user' = user
                              /\ (svc'[c].got = svc[c].got \/ (WriteLocal(c) /\ svc[c].open = "open"))
    BY <1>1, <2>3, FieldMaps DEF UserSent, SvcGot
  <2>4. QED
    BY <1>1, <2>1, <2>2, <2>3, PeerSteps
<1>3. ASSUME NEW c \in Conns, ReadUser(c)
      PROVE  Upstream!Write(c)
  <2>1. user' = [user EXCEPT ![c] = user'[c]] /\ svc' = svc
    BY <1>1, <1>3, ServerConnShape DEF ServerShape
  <2>2. user'[c].sent = user[c].sent + 1
    BY <1>1, <1>3, ReadUserEffect DEF PeerEq
  <2>3. UserSent' = [UserSent EXCEPT ![c] = user'[c].sent] /\ UserSent[c] = user[c].sent
    BY <1>1, <2>1, FieldMaps DEF UserSent
  <2>4. UserSent' = [UserSent EXCEPT ![c] = @ + 1] /\ SvcGot' = SvcGot
    BY <2>1, <2>2, <2>3 DEF SvcGot
  <2>5. QED
    BY <2>4 DEF Upstream!Write, UserSent, SvcGot
<1>4. ASSUME NEW c \in Conns, WriteLocal(c), svc[c].open = "open"
      PROVE  Upstream!Deliver(c)
  <2>1. svc' = [svc EXCEPT ![c] = svc'[c]] /\ user' = user
    BY <1>1, <1>4, ClientConnShape DEF ClientShape, ClientConnStep
  <2>2. svc'[c].got = Append(svc[c].got, Head(tun[c].queue))
    BY <1>1, <1>4, WriteLocalEffect DEF PeerEq
  <2>3. tun[c].queue # <<>> /\ tun[c].writer # "ended"
    BY <1>4 DEF WriteLocal
  <2>4. Arrives(svc[c].got, tun[c].queue, cBusy, c, tun[c].writer, user[c].sent)
    BY DEF LinkInv, UpInv
  <2>5. svc[c].got \in Seq(Nat) /\ tun[c].queue \in Seq(Nat) /\ user[c].sent \in Nat
    BY <1>1, ChunkTypes
  <2>6. Head(tun[c].queue) = Len(svc[c].got) + 1 /\ Len(svc[c].got) < user[c].sent
    BY <2>3, <2>4, <2>5, ArrivesWrite
  <2>7. /\ SvcGot' = [SvcGot EXCEPT ![c] = svc'[c].got] /\ SvcGot[c] = svc[c].got
        /\ UserSent' = UserSent /\ UserSent[c] = user[c].sent
    BY <1>1, <2>1, FieldMaps DEF UserSent, SvcGot
  <2>8. /\ Len(SvcGot[c]) < UserSent[c]
        /\ SvcGot' = [SvcGot EXCEPT ![c] = Append(@, Len(@) + 1)]
    BY <2>2, <2>6, <2>7
  <2>9. QED
    BY <2>7, <2>8 DEF Upstream!Deliver, UserSent, SvcGot
<1>5. QED
  BY <1>2, <1>3, <1>4 DEF Upstream!Next

\* ... and of the pipe from the services to the users.
LEMMA DownRefines == LinkInv /\ [LinkNext]_linkVars => [Downstream!Next]_<<SvcSent, UserGot>>
<1> SUFFICES ASSUME LinkInv, [LinkNext]_linkVars
             PROVE  Downstream!Next \/ UNCHANGED <<SvcSent, UserGot>>
  OBVIOUS
<1>1. LinkTypeOK /\ user \in [Conns -> PeerRecords] /\ svc \in [Conns -> PeerRecords]
  BY DEF LinkInv, LinkTypeOK
<1>2. \/ UNCHANGED <<SvcSent, UserGot>>
      \/ \E c \in Conns : ReadLocal(c)
      \/ \E c \in Conns : WriteUser(c) /\ user[c].open = "open"
  <2>1. CASE UNCHANGED <<user, svc>>
    BY <2>1 DEF SvcSent, UserGot
  <2>2. CASE \E c \in Conns : /\ svc' = [svc EXCEPT ![c] = svc'[c]] /\ user' = user
                              /\ (svc'[c].sent = svc[c].sent \/ ReadLocal(c))
    BY <1>1, <2>2, FieldMaps DEF SvcSent, UserGot
  <2>3. CASE \E c \in Conns : /\ user' = [user EXCEPT ![c] = user'[c]] /\ svc' = svc
                              /\ (user'[c].got = user[c].got \/ (WriteUser(c) /\ user[c].open = "open"))
    BY <1>1, <2>3, FieldMaps DEF SvcSent, UserGot
  <2>4. QED
    BY <1>1, <2>1, <2>2, <2>3, PeerSteps
<1>3. ASSUME NEW c \in Conns, ReadLocal(c)
      PROVE  Downstream!Write(c)
  <2>1. svc' = [svc EXCEPT ![c] = svc'[c]] /\ user' = user
    BY <1>1, <1>3, ClientConnShape DEF ClientShape
  <2>2. svc'[c].sent = svc[c].sent + 1
    BY <1>1, <1>3, ReadLocalEffect DEF PeerEq
  <2>3. SvcSent' = [SvcSent EXCEPT ![c] = svc'[c].sent] /\ SvcSent[c] = svc[c].sent
    BY <1>1, <2>1, FieldMaps DEF SvcSent
  <2>4. SvcSent' = [SvcSent EXCEPT ![c] = @ + 1] /\ UserGot' = UserGot
    BY <2>1, <2>2, <2>3 DEF UserGot
  <2>5. QED
    BY <2>4 DEF Downstream!Write, SvcSent, UserGot
<1>4. ASSUME NEW c \in Conns, WriteUser(c), user[c].open = "open"
      PROVE  Downstream!Deliver(c)
  <2>1. user' = [user EXCEPT ![c] = user'[c]] /\ svc' = svc
    BY <1>1, <1>4, ServerConnShape DEF ServerShape, ServerConnStep
  <2>2. user'[c].got = Append(user[c].got, Head(srv[c].queue))
    BY <1>1, <1>4, WriteUserEffect DEF PeerEq
  <2>3. srv[c].queue # <<>> /\ srv[c].writer # "ended"
    BY <1>4 DEF WriteUser
  <2>4. Arrives(user[c].got, srv[c].queue, sBusy, c, srv[c].writer, svc[c].sent)
    BY DEF LinkInv, DownInv
  <2>5. user[c].got \in Seq(Nat) /\ srv[c].queue \in Seq(Nat) /\ svc[c].sent \in Nat
    BY <1>1, ChunkTypes
  <2>6. Head(srv[c].queue) = Len(user[c].got) + 1 /\ Len(user[c].got) < svc[c].sent
    BY <2>3, <2>4, <2>5, ArrivesWrite
  <2>7. /\ UserGot' = [UserGot EXCEPT ![c] = user'[c].got] /\ UserGot[c] = user[c].got
        /\ SvcSent' = SvcSent /\ SvcSent[c] = svc[c].sent
    BY <1>1, <2>1, FieldMaps DEF SvcSent, UserGot
  <2>8. /\ Len(UserGot[c]) < SvcSent[c]
        /\ UserGot' = [UserGot EXCEPT ![c] = Append(@, Len(@) + 1)]
    BY <2>2, <2>6, <2>7
  <2>9. QED
    BY <2>7, <2>8 DEF Downstream!Deliver, SvcSent, UserGot
<1>5. QED
  BY <1>2, <1>3, <1>4 DEF Downstream!Next

\* Both directions of every connection are pipes: port_listener_manager.rs, the two
\* loops and services/tunnel/client.rs together lose no chunk before one they
\* deliver, double none and reorder none, for any number of connections and requests,
\* any room in the channels, and any number of lost WebSockets.
THEOREM EachWayIsAPipe == LinkSpec => TunnelIsAPipe
<1>1. LinkInit => LinkInv
  BY LinkInvInit
<1>2. LinkInv /\ [LinkNext]_linkVars => LinkInv'
  BY LinkInvNext
<1>3. LinkInit => Upstream!Init /\ Downstream!Init
  BY DEF LinkInit, Peer, Upstream!Init, Downstream!Init
<1>4. LinkInv /\ [LinkNext]_linkVars => [Upstream!Next]_<<UserSent, SvcGot>>
  BY UpRefines
<1>5. LinkInv /\ [LinkNext]_linkVars => [Downstream!Next]_<<SvcSent, UserGot>>
  BY DownRefines
<1>6. QED
  BY <1>1, <1>2, <1>3, <1>4, <1>5, PTL
     DEF LinkSpec, TunnelIsAPipe, Upstream!Spec, Downstream!Spec, UserSent, SvcGot, SvcSent, UserGot

===============================================================================
