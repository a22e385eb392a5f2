-------------------------- MODULE TunnelFlowProofs --------------------------
(***************************************************************************)
(* For any connections, hosts, sizes and numbers of items: what a peer gets*)
(* of a connection is a beginning of what the other side sent, and a       *)
(* response goes to a host that asked since.                               *)
(***************************************************************************)
EXTENDS TunnelFlow, SequenceTheorems, TLAPS

\* The messages on their way to a side, the next first.
Flow(side) == batch[side] \o wire[side] \o writing[Other(side)]

Shapes ==
  /\ read \in [Sides -> [Conns -> Nat]]
  /\ unread \in [Sides -> [Conns -> Nat]]
  /\ stream \in [Sides -> [Conns -> Seq(Nat)]]

IsData(m, c) == m.type = "TCP_DATA" /\ m.conn = c

\* Messages carry what was read; the items of a connection are in order.
FlowSound(side) ==
  \A p \in DOMAIN Flow(side) :
    LET m == Flow(side)[p] IN
    /\ m.type = "TCP_DATA" => m.conn \in Conns /\ m.item \in 1 .. read[Other(side)][m.conn]
    /\ m.type = "UDP_PACKET" => m.item \in DOMAIN requests
    /\ \A q \in DOMAIN Flow(side) :
         p < q /\ m.type = "TCP_DATA" /\ IsData(Flow(side)[q], m.conn)
           => m.item < Flow(side)[q].item

\* The first k items are with the peer, those after them are in flight.
Split(side, c, k) ==
  /\ Len(stream[side][c]) = 2 * k
  /\ k <= read[Other(side)][c]
  /\ \A n \in k + 1 .. read[Other(side)][c] :
       \E p \in DOMAIN Flow(side) : Flow(side)[p] = Data(c, n)
  /\ \A p \in DOMAIN Flow(side) : IsData(Flow(side)[p], c) => Flow(side)[p].item > k

AllSplit(side) == \A c \in open[side] : \E k \in Nat : Split(side, c, k)

\* last_udp_sender is who sent the last datagram.
LastSender ==
  /\ requests # <<>> => last_udp_sender = requests[Len(requests)]
  /\ has_udp_sender => requests # <<>>

IInv ==
  /\ TypeOK /\ Shapes /\ StreamWhole /\ RightHost /\ LastSender
  /\ \A side \in Sides : FlowSound(side) /\ AllSplit(side)

-----------------------------------------------------------------------------
(* What the steps do to the messages in flight.                            *)

\* There are two sides.
LEMMA OtherSide ==
  ASSUME NEW side \in Sides
  PROVE  /\ Other(side) \in Sides /\ Other(side) # side /\ Other(Other(side)) = side
         /\ \A s \in Sides : s = side \/ s = Other(side)
BY DEF Sides, Other

\* What is in flight is a sequence of messages.
LEMMA FlowType ==
  ASSUME TypeOK, NEW side \in Sides
  PROVE  /\ batch[side] \in Seq(Messages) /\ wire[side] \in Seq(Messages)
         /\ writing[Other(side)] \in Seq(Messages)
         /\ Flow(side) \in Seq(Messages)
BY OtherSide, ConcatProperties DEF TypeOK, Flow

\* A write has one message.
LEMMA OneMessage ==
  ASSUME NEW q \in Seq(Messages), q # <<>>, Len(q) <= 1
  PROVE  q[1] \in Messages /\ q = <<q[1]>>
<1>1. Len(q) \in Nat \ {0}
  BY EmptySeq
<1>2. Len(q) = 1
  BY <1>1
<1>3. q[1] \in Messages
  BY <1>2, ElementOfSeq
<1>4. <<q[1]>> \in Seq(Messages) /\ Len(<<q[1]>>) = 1 /\ <<q[1]>>[1] = q[1]
  BY <1>3
<1> QED BY <1>2, <1>3, <1>4, SeqEqual

\* A message handed to write is the last in flight to the other side.
LEMMA SendAppends ==
  ASSUME TypeOK, NEW side \in Sides, NEW m \in Messages,
         writing[side] = <<>>, SendTunnel(side, m),
         UNCHANGED wire, batch'[Other(side)] = batch[Other(side)]
  PROVE  /\ Flow(Other(side))' = Append(Flow(Other(side)), m)
         /\ writing' \in [Sides -> Seq(Messages)]
         /\ writing'[side] = <<m>>
<1> DEFINE o == Other(side)
<1>1. o \in Sides /\ Other(o) = side
  BY OtherSide
<1>2. /\ batch[o] \in Seq(Messages) /\ wire[o] \in Seq(Messages) /\ Flow(o) \in Seq(Messages)
  BY <1>1, FlowType
<1>3. writing'[side] = <<m>> /\ writing' \in [Sides -> Seq(Messages)]
  <2>1. <<m>> \in Seq(Messages)
    OBVIOUS
  <2>2. writing' = [writing EXCEPT ![side] = <<m>>] /\ writing \in [Sides -> Seq(Messages)]
    BY DEF SendTunnel, TypeOK
  <2> HIDE DEF Messages
  <2> QED BY <2>1, <2>2
<1>4. Flow(o) = batch[o] \o wire[o]
  <2>1. batch[o] \o wire[o] \in Seq(Messages)
    BY <1>2, ConcatProperties
  <2>2. Flow(o) = (batch[o] \o wire[o]) \o <<>>
    BY <1>1 DEF Flow
  <2> QED BY <2>1, <2>2, ConcatEmptySeq
<1>5. Flow(o)' = (batch[o] \o wire[o]) \o <<m>>
  BY <1>1, <1>3 DEF Flow
<1>6. Flow(o)' = Append(Flow(o), m)
  BY <1>2, <1>4, <1>5, AppendIsConcat
<1> QED BY <1>3, <1>6

\* A side that sends keeps what is in flight to it.
LEMMA SendKeeps ==
  ASSUME TypeOK, NEW side \in Sides, NEW m, SendTunnel(side, m),
         batch'[side] = batch[side], wire'[side] = wire[side]
  PROVE  Flow(side)' = Flow(side)
BY OtherSide DEF Flow, SendTunnel, TypeOK

\* The first message of a batch is the next in flight; without it the rest is.
LEMMA PopTails ==
  ASSUME TypeOK, NEW side \in Sides, batch[side] # <<>>
  PROVE  /\ Flow(side) # <<>> /\ Flow(side)[1] = batch[side][1]
         /\ \A w \in Seq(Messages) :
              Tail(batch[side]) \o wire[side] \o w = Tail(batch[side] \o wire[side] \o w)
         /\ batch[side][1] \in Messages
         /\ Tail(batch[side]) \in Seq(Messages)
<1> DEFINE b == batch[side]
           x == wire[side]
<1>1. b \in Seq(Messages) /\ x \in Seq(Messages) /\ writing[Other(side)] \in Seq(Messages)
  BY FlowType
<1>2. Len(b) >= 1 /\ Tail(b) \in Seq(Messages) /\ Len(Tail(b)) = Len(b) - 1
      /\ \A i \in 1 .. Len(b) - 1 : Tail(b)[i] = b[i + 1]
  BY <1>1, HeadTailProperties, LenProperties, EmptySeq
<1>3. b[1] \in Messages
  BY <1>1, <1>2, ElementOfSeq, LenProperties
<1> HIDE DEF b, x
<1>4. ASSUME NEW w \in Seq(Messages)
      PROVE  /\ b \o x \o w # <<>> /\ (b \o x \o w)[1] = b[1]
             /\ Tail(b) \o x \o w = Tail(b \o x \o w)
  <2>1. /\ b \o x \in Seq(Messages) /\ Len(b \o x) = Len(b) + Len(x)
        /\ \A i \in 1 .. Len(b) + Len(x) :
             (b \o x)[i] = IF i <= Len(b) THEN b[i] ELSE x[i - Len(b)]
    BY <1>1, ConcatProperties
  <2>2. /\ b \o x \o w \in Seq(Messages) /\ Len(b \o x \o w) = Len(b \o x) + Len(w)
        /\ \A i \in 1 .. Len(b \o x) + Len(w) :
             (b \o x \o w)[i] = IF i <= Len(b \o x) THEN (b \o x)[i] ELSE w[i - Len(b \o x)]
    BY <2>1, ConcatProperties
  <2>3. /\ Tail(b) \o x \in Seq(Messages) /\ Len(Tail(b) \o x) = Len(b) - 1 + Len(x)
        /\ \A i \in 1 .. Len(b) - 1 + Len(x) :
             (Tail(b) \o x)[i] = IF i <= Len(b) - 1 THEN Tail(b)[i] ELSE x[i - (Len(b) - 1)]
    BY <1>1, <1>2, ConcatProperties
  <2>4. /\ Tail(b) \o x \o w \in Seq(Messages)
        /\ Len(Tail(b) \o x \o w) = Len(Tail(b) \o x) + Len(w)
        /\ \A i \in 1 .. Len(Tail(b) \o x) + Len(w) :
             (Tail(b) \o x \o w)[i] = IF i <= Len(Tail(b) \o x) THEN (Tail(b) \o x)[i]
                                      ELSE w[i - Len(Tail(b) \o x)]
    BY <2>3, ConcatProperties
  <2>5. Len(b) \in Nat /\ Len(x) \in Nat /\ Len(w) \in Nat
    BY <1>1, LenProperties
  <2>6. b \o x \o w # <<>>
    BY <1>2, <2>1, <2>2, <2>5, EmptySeq
  <2>7. /\ Tail(b \o x \o w) \in Seq(Messages)
        /\ Len(Tail(b \o x \o w)) = Len(b) + Len(x) + Len(w) - 1
        /\ \A i \in 1 .. Len(b) + Len(x) + Len(w) - 1 : Tail(b \o x \o w)[i] = (b \o x \o w)[i + 1]
    BY <2>1, <2>2, <2>6, HeadTailProperties
  <2>8. ASSUME NEW i \in 1 .. Len(Tail(b) \o x \o w)
        PROVE  (Tail(b) \o x \o w)[i] = Tail(b \o x \o w)[i]
    <3>1. /\ i \in 1 .. Len(b) + Len(x) + Len(w) - 1
          /\ i + 1 \in 1 .. Len(b \o x) + Len(w)
      BY <2>1, <2>3, <2>4, <2>5, <1>2
    <3>2. Tail(b \o x \o w)[i] = (b \o x \o w)[i + 1]
      BY <2>7, <3>1
    <3>3. CASE i <= Len(b) - 1
      <4>1. (Tail(b) \o x \o w)[i] = b[i + 1]
        BY <1>2, <2>3, <2>4, <2>5, <3>1, <3>3
      <4>2. (b \o x \o w)[i + 1] = b[i + 1]
        BY <1>2, <2>1, <2>2, <2>5, <3>1, <3>3
      <4> QED BY <3>2, <4>1, <4>2
    <3>4. CASE i > Len(b) - 1 /\ i <= Len(b) - 1 + Len(x)
      <4>1. (Tail(b) \o x \o w)[i] = x[i - (Len(b) - 1)]
        BY <1>2, <2>3, <2>4, <2>5, <3>1, <3>4
      <4>2. (b \o x \o w)[i + 1] = x[i + 1 - Len(b)]
        BY <1>2, <2>1, <2>2, <2>5, <3>1, <3>4
      <4>3. i + 1 - Len(b) = i - (Len(b) - 1)
        BY <2>5, <3>1
      <4> QED BY <3>2, <4>1, <4>2, <4>3
    <3>5. CASE i > Len(b) - 1 + Len(x)
      <4>1. (Tail(b) \o x \o w)[i] = w[i - (Len(b) - 1 + Len(x))]
        BY <1>2, <2>3, <2>4, <2>5, <3>1, <3>5
      <4>2. (b \o x \o w)[i + 1] = w[i + 1 - (Len(b) + Len(x))]
        BY <1>2, <2>1, <2>2, <2>5, <3>1, <3>5
      <4>3. i + 1 - (Len(b) + Len(x)) = i - (Len(b) - 1 + Len(x))
        BY <2>5, <3>1
      <4> QED BY <3>2, <4>1, <4>2, <4>3
    <3> QED BY <2>5, <3>1, <3>3, <3>4, <3>5, <1>2
  <2>9. Len(Tail(b) \o x \o w) = Len(Tail(b \o x \o w))
    BY <2>3, <2>4, <2>5, <2>7
  <2>10. (b \o x \o w)[1] = b[1]
    BY <1>2, <2>1, <2>2, <2>5
  <2> QED BY <2>4, <2>6, <2>7, <2>8, <2>9, <2>10, SeqEqual
<1> QED BY <1>1, <1>2, <1>3, <1>4 DEF b, x, Flow

-----------------------------------------------------------------------------
(* What that does to the invariant of a side. StreamsKept: nothing is      *)
(* written to the connections that stay open.                              *)

StreamsKept(side) ==
  /\ open'[side] \subseteq open[side]
  /\ \A c \in open'[side] : stream'[side][c] = stream[side][c]
ReadKept(side) == \A c \in Conns : read'[Other(side)][c] = read[Other(side)][c]
RequestsGrow == DOMAIN requests \subseteq DOMAIN requests'

\* Nothing is added or taken.
LEMMA KeepSide ==
  ASSUME TypeOK, NEW side \in Sides, FlowSound(side), AllSplit(side),
         Flow(side)' = Flow(side), StreamsKept(side), ReadKept(side), RequestsGrow
  PROVE  FlowSound(side)' /\ AllSplit(side)'
<1>1. FlowSound(side)'
  BY DEF FlowSound, ReadKept, RequestsGrow, IsData
<1>2. ASSUME NEW c \in open'[side] PROVE \E k \in Nat : Split(side, c, k)'
  <2>1. PICK k \in Nat : Split(side, c, k)
    BY <1>2 DEF AllSplit, StreamsKept
  <2>2. c \in Conns
    BY <1>2 DEF TypeOK, StreamsKept
  <2>3. Split(side, c, k)'
    BY <2>1, <2>2 DEF Split, StreamsKept, ReadKept, IsData, Data
  <2> QED BY <2>3
<1> QED BY <1>1, <1>2 DEF AllSplit

\* A message that is not data is added.
LEMMA AppendSide ==
  ASSUME TypeOK, NEW side \in Sides, FlowSound(side), AllSplit(side),
         NEW m \in Messages, m.type # "TCP_DATA",
         m.type = "UDP_PACKET" => m.item \in DOMAIN requests',
         Flow(side)' = Append(Flow(side), m), StreamsKept(side), ReadKept(side), RequestsGrow
  PROVE  FlowSound(side)' /\ AllSplit(side)'
<1> DEFINE F == Flow(side)
           n == Len(Flow(side))
<1>1. /\ n \in Nat /\ DOMAIN F = 1 .. n /\ DOMAIN F' = 1 .. n + 1
      /\ \A p \in 1 .. n : F'[p] = F[p]
      /\ F'[n + 1] = m
  BY FlowType, AppendProperties, LenProperties
<1>2. FlowSound(side)'
  <2> SUFFICES ASSUME NEW p \in DOMAIN F'
               PROVE
                 /\ F'[p].type = "TCP_DATA" =>
                      F'[p].conn \in Conns /\ F'[p].item \in 1 .. read'[Other(side)][F'[p].conn]
                 /\ F'[p].type = "UDP_PACKET" => F'[p].item \in DOMAIN requests'
                 /\ \A q \in DOMAIN F' :
                      p < q /\ F'[p].type = "TCP_DATA" /\ IsData(F'[q], F'[p].conn)
                        => F'[p].item < F'[q].item
    BY DEF FlowSound
  <2>1. CASE p = n + 1
    BY <1>1, <2>1
  <2>2. CASE p \in 1 .. n
    <3> HIDE DEF F, n
    <3>1. /\ F[p].type = "TCP_DATA" =>
               F[p].conn \in Conns /\ F[p].item \in 1 .. read[Other(side)][F[p].conn]
          /\ F[p].type = "UDP_PACKET" => F[p].item \in DOMAIN requests
          /\ \A q \in 1 .. n :
               p < q /\ F[p].type = "TCP_DATA" /\ IsData(F[q], F[p].conn)
                 => F[p].item < F[q].item
      BY <1>1, <2>2 DEF FlowSound, F
    <3>2. F'[p] = F[p]
      BY <1>1, <2>2
    <3>3. ASSUME NEW q \in DOMAIN F', p < q, F[p].type = "TCP_DATA", IsData(F'[q], F[p].conn)
          PROVE  F[p].item < F'[q].item
      <4>1. CASE q \in 1 .. n
        BY <1>1, <3>1, <3>3, <4>1
      <4>2. CASE q = n + 1
        BY <1>1, <3>3, <4>2 DEF IsData
      <4> QED BY <1>1, <4>1, <4>2
    <3> QED BY <3>1, <3>2, <3>3 DEF ReadKept, RequestsGrow
  <2> QED BY <1>1, <2>1, <2>2
<1>3. ASSUME NEW c \in open'[side] PROVE \E k \in Nat : Split(side, c, k)'
  <2>1. PICK k \in Nat : Split(side, c, k)
    BY <1>3 DEF AllSplit, StreamsKept
  <2>2. c \in Conns /\ stream'[side][c] = stream[side][c] /\ read'[Other(side)][c] = read[Other(side)][c]
    BY <1>3 DEF TypeOK, StreamsKept, ReadKept
  <2> HIDE DEF F, n
  <2>3. ASSUME NEW i \in k + 1 .. read'[Other(side)][c]
        PROVE  \E p \in DOMAIN F' : F'[p] = Data(c, i)
    <3>1. PICK p \in DOMAIN F : F[p] = Data(c, i)
      BY <2>1, <2>2, <2>3 DEF Split, F
    <3> QED BY <1>1, <3>1
  <2>4. ASSUME NEW p \in DOMAIN F', IsData(F'[p], c) PROVE F'[p].item > k
    <3>1. p \in 1 .. n
      BY <1>1, <2>4 DEF IsData
    <3>2. F'[p] = F[p] /\ p \in DOMAIN F
      BY <1>1, <3>1
    <3> QED BY <2>1, <2>4, <3>2 DEF Split, F
  <2> QED BY <2>1, <2>2, <2>3, <2>4 DEF Split, F
<1> QED BY <1>2, <1>3 DEF AllSplit

\* The next item of a connection is read and added.
LEMMA AppendData ==
  ASSUME TypeOK, Shapes, NEW side \in Sides, FlowSound(side), AllSplit(side),
         NEW c \in Conns,
         Flow(side)' = Append(Flow(side), Data(c, read[Other(side)][c] + 1)),
         StreamsKept(side), RequestsGrow,
         \A d \in Conns : read'[Other(side)][d] = IF d = c THEN read[Other(side)][d] + 1
                                                  ELSE read[Other(side)][d]
  PROVE  FlowSound(side)' /\ AllSplit(side)'
<1> DEFINE F == Flow(side)
           n == Len(Flow(side))
           o == Other(side)
           m == Data(c, read[Other(side)][c] + 1)
<1>0. /\ o \in Sides
      /\ \A d \in Conns : read[o][d] \in Nat
  BY OtherSide DEF Shapes
<1>1. m \in Messages /\ m.type = "TCP_DATA" /\ m.conn = c /\ m.item = read[o][c] + 1
  BY <1>0 DEF Data, Messages
<1>2. /\ n \in Nat /\ DOMAIN F = 1 .. n /\ DOMAIN F' = 1 .. n + 1
      /\ \A p \in 1 .. n : F'[p] = F[p]
      /\ F'[n + 1] = m
  BY <1>1, FlowType, AppendProperties, LenProperties
<1> HIDE DEF m
<1>3. FlowSound(side)'
  <2> SUFFICES ASSUME NEW p \in DOMAIN F'
               PROVE
                 /\ F'[p].type = "TCP_DATA" =>
                      F'[p].conn \in Conns /\ F'[p].item \in 1 .. read'[o][F'[p].conn]
                 /\ F'[p].type = "UDP_PACKET" => F'[p].item \in DOMAIN requests'
                 /\ \A q \in DOMAIN F' :
                      p < q /\ F'[p].type = "TCP_DATA" /\ IsData(F'[q], F'[p].conn)
                        => F'[p].item < F'[q].item
    BY DEF FlowSound, o
  <2>0. Other(side)' = o
    OBVIOUS
  <2>1. CASE p = n + 1
    <3>1. F'[p] = m /\ read'[o][c] = read[o][c] + 1
      BY <1>2, <2>1
    <3>2. m.item \in 1 .. read'[o][c]
      BY <1>0, <1>1, <3>1
    <3> QED BY <1>1, <1>2, <2>1, <3>1, <3>2
  <2>2. CASE p \in 1 .. n
    <3> HIDE DEF F, n
    <3>1. /\ F[p].type = "TCP_DATA" =>
               F[p].conn \in Conns /\ F[p].item \in 1 .. read[o][F[p].conn]
          /\ F[p].type = "UDP_PACKET" => F[p].item \in DOMAIN requests
          /\ \A q \in 1 .. n :
               p < q /\ F[p].type = "TCP_DATA" /\ IsData(F[q], F[p].conn)
                 => F[p].item < F[q].item
      BY <1>2, <2>2 DEF FlowSound, F
    <3>2. F'[p] = F[p]
      BY <1>2, <2>2
    <3>3. ASSUME NEW q \in DOMAIN F', p < q, F[p].type = "TCP_DATA", IsData(F'[q], F[p].conn)
          PROVE  F[p].item < F'[q].item
      <4>1. CASE q \in 1 .. n
        BY <1>2, <3>1, <3>3, <4>1
      <4>2. CASE q = n + 1
        <5>1. F[p].conn = c
          BY <1>1, <1>2, <3>3, <4>2 DEF IsData
        <5>2. F[p].item <= read[o][c] /\ F[p].item \in Nat
          BY <1>0, <3>1, <3>3, <5>1
        <5> QED BY <1>0, <1>1, <1>2, <4>2, <5>2
      <4> QED BY <1>2, <3>3, <4>1, <4>2
    <3>4. F[p].type = "TCP_DATA" => F[p].item \in 1 .. read'[o][F[p].conn]
      <4> SUFFICES ASSUME F[p].type = "TCP_DATA" PROVE F[p].item \in 1 .. read'[o][F[p].conn]
        OBVIOUS
      <4>1. /\ read'[o][F[p].conn] \in Nat /\ read[o][F[p].conn] \in Nat
            /\ read'[o][F[p].conn] >= read[o][F[p].conn]
        BY <1>0, <3>1
      <4> QED BY <3>1, <4>1
    <3> QED BY <3>1, <3>2, <3>3, <3>4 DEF RequestsGrow
  <2> QED BY <1>2, <2>1, <2>2
<1>4. ASSUME NEW d \in open'[side] PROVE \E k \in Nat : Split(side, d, k)'
  <2>1. PICK k \in Nat : Split(side, d, k)
    BY <1>4 DEF AllSplit, StreamsKept
  <2>2. d \in Conns /\ stream'[side][d] = stream[side][d]
    BY <1>4 DEF TypeOK, StreamsKept
  <2>3. /\ read'[o][d] = IF d = c THEN read[o][d] + 1 ELSE read[o][d]
        /\ read[o][d] \in Nat /\ k <= read[o][d]
    BY <1>0, <2>1, <2>2 DEF Split
  <2> HIDE DEF F, n
  <2>4. ASSUME NEW i \in k + 1 .. read'[o][d]
        PROVE  \E p \in DOMAIN F' : F'[p] = Data(d, i)
    <3>1. CASE i \in k + 1 .. read[o][d]
      <4>1. PICK p \in DOMAIN F : F[p] = Data(d, i)
        BY <2>1, <3>1 DEF Split, F, o
      <4> QED BY <1>2, <4>1
    <3>2. CASE i \notin k + 1 .. read[o][d]
      <4> HIDE DEF o
      <4>1. d = c
        <5> SUFFICES ASSUME d # c PROVE FALSE
          OBVIOUS
        <5>1. read'[o][d] = read[o][d]
          BY <2>3
        <5> QED BY <2>4, <3>2, <5>1
      <4>2. read'[o][d] = read[o][d] + 1
        BY <2>3, <4>1
      <4>3. d = c /\ i = read[o][c] + 1
        <5>1. ASSUME NEW x \in Nat, NEW y, y = x + 1, i \in k + 1 .. y, i \notin k + 1 .. x
              PROVE  i = x + 1
          BY <5>1
        <5> QED BY <2>3, <2>4, <3>2, <4>1, <4>2, <5>1
      <4>4. F'[n + 1] = Data(d, i) /\ n + 1 \in DOMAIN F'
        BY <1>2, <4>3 DEF m, o
      <4> QED BY <4>4
    <3> QED BY <3>1, <3>2
  <2>5. ASSUME NEW p \in DOMAIN F', IsData(F'[p], d) PROVE F'[p].item > k
    <3>1. CASE p \in 1 .. n
      <4>1. F'[p] = F[p] /\ p \in DOMAIN F
        BY <1>2, <3>1
      <4> QED BY <2>1, <2>5, <4>1 DEF Split, F
    <3>2. CASE p = n + 1
      <4>1. d = c /\ F'[p].item = read[o][c] + 1
        BY <1>1, <1>2, <2>5, <3>2 DEF IsData
      <4> QED BY <2>3, <4>1
    <3> QED BY <1>2, <3>1, <3>2
  <2>6. k <= read'[o][d]
    BY <2>3
  <2> QED BY <2>1, <2>2, <2>4, <2>5, <2>6 DEF Split, F, o
<1> QED BY <1>3, <1>4 DEF AllSplit

\* Without the first message the others are still in order.
LEMMA TailSound ==
  ASSUME TypeOK, NEW side \in Sides, FlowSound(side),
         Flow(side) # <<>>, Flow(side)' = Tail(Flow(side)), ReadKept(side), RequestsGrow
  PROVE  /\ FlowSound(side)'
         /\ Len(Flow(side)) \in Nat /\ Len(Flow(side)) >= 1
         /\ DOMAIN Flow(side) = 1 .. Len(Flow(side))
         /\ DOMAIN Flow(side)' = 1 .. Len(Flow(side)) - 1
         /\ \A p \in 1 .. Len(Flow(side)) - 1 : Flow(side)'[p] = Flow(side)[p + 1]
<1> DEFINE F == Flow(side)
           n == Len(Flow(side))
<1>1. /\ n \in Nat /\ n >= 1 /\ DOMAIN F = 1 .. n /\ DOMAIN F' = 1 .. n - 1
      /\ \A p \in 1 .. n - 1 : F'[p] = F[p + 1]
  BY FlowType, HeadTailProperties, LenProperties, EmptySeq
<1>2. FlowSound(side)'
  <2> SUFFICES ASSUME NEW p \in DOMAIN F'
               PROVE
                 /\ F'[p].type = "TCP_DATA" =>
                      F'[p].conn \in Conns /\ F'[p].item \in 1 .. read'[Other(side)][F'[p].conn]
                 /\ F'[p].type = "UDP_PACKET" => F'[p].item \in DOMAIN requests'
                 /\ \A q \in DOMAIN F' :
                      p < q /\ F'[p].type = "TCP_DATA" /\ IsData(F'[q], F'[p].conn)
                        => F'[p].item < F'[q].item
    BY DEF FlowSound
  <2>1. p + 1 \in DOMAIN F /\ F'[p] = F[p + 1]
    BY <1>1
  <2> HIDE DEF F, n
  <2>2. /\ F[p + 1].type = "TCP_DATA" =>
             /\ F[p + 1].conn \in Conns
             /\ F[p + 1].item \in 1 .. read[Other(side)][F[p + 1].conn]
        /\ F[p + 1].type = "UDP_PACKET" => F[p + 1].item \in DOMAIN requests
        /\ \A q \in DOMAIN F :
             p + 1 < q /\ F[p + 1].type = "TCP_DATA" /\ IsData(F[q], F[p + 1].conn)
               => F[p + 1].item < F[q].item
    BY <2>1 DEF FlowSound, F
  <2>3. ASSUME NEW q \in DOMAIN F', p < q, F'[p].type = "TCP_DATA", IsData(F'[q], F'[p].conn)
        PROVE  F'[p].item < F'[q].item
    <3>1. q + 1 \in DOMAIN F /\ F'[q] = F[q + 1] /\ p + 1 < q + 1
      BY <1>1, <2>3
    <3> QED BY <2>1, <2>2, <2>3, <3>1
  <2> QED BY <2>1, <2>2, <2>3 DEF ReadKept, RequestsGrow
<1> QED BY <1>1, <1>2

\* A connection that did not get the first message is where it was.
LEMMA TailSplit ==
  ASSUME TypeOK, NEW side \in Sides, FlowSound(side), AllSplit(side),
         Flow(side) # <<>>, Flow(side)' = Tail(Flow(side)), ReadKept(side), RequestsGrow,
         NEW c \in open[side], ~IsData(Flow(side)[1], c), stream'[side][c] = stream[side][c]
  PROVE  \E k \in Nat : Split(side, c, k)'
<1> DEFINE F == Flow(side)
           n == Len(Flow(side))
<1>1. /\ n \in Nat /\ n >= 1 /\ DOMAIN F = 1 .. n /\ DOMAIN F' = 1 .. n - 1
      /\ \A p \in 1 .. n - 1 : F'[p] = F[p + 1]
  BY TailSound
<1>2. PICK k \in Nat : Split(side, c, k)
  BY DEF AllSplit
<1>3. c \in Conns /\ read'[Other(side)][c] = read[Other(side)][c]
  BY DEF TypeOK, ReadKept
<1>4. ~IsData(F[1], c)
  OBVIOUS
<1> HIDE DEF F, n
<1>5. ASSUME NEW i \in k + 1 .. read'[Other(side)][c]
      PROVE  \E p \in DOMAIN F' : F'[p] = Data(c, i)
  <2>1. PICK p \in DOMAIN F : F[p] = Data(c, i)
    BY <1>2, <1>3, <1>5 DEF Split, F
  <2>2. p # 1
    BY <1>4, <2>1 DEF IsData, Data
  <2>3. p - 1 \in DOMAIN F' /\ F'[p - 1] = F[p]
    BY <1>1, <2>2
  <2> QED BY <2>1, <2>3
<1>6. ASSUME NEW p \in DOMAIN F', IsData(F'[p], c) PROVE F'[p].item > k
  <2>1. p + 1 \in DOMAIN F /\ F'[p] = F[p + 1]
    BY <1>1
  <2> QED BY <1>2, <1>6, <2>1 DEF Split, F
<1> QED BY <1>2, <1>3, <1>5, <1>6 DEF Split, F

\* The first message is taken; what stays open does not get it.
LEMMA TailSide ==
  ASSUME TypeOK, NEW side \in Sides, FlowSound(side), AllSplit(side),
         Flow(side) # <<>>, Flow(side)' = Tail(Flow(side)),
         \A c \in open'[side] : ~IsData(Flow(side)[1], c),
         StreamsKept(side), ReadKept(side), RequestsGrow
  PROVE  FlowSound(side)' /\ AllSplit(side)'
<1>1. FlowSound(side)'
  BY TailSound
<1>2. ASSUME NEW c \in open'[side] PROVE \E k \in Nat : Split(side, c, k)'
  <2>1. c \in open[side] /\ ~IsData(Flow(side)[1], c) /\ stream'[side][c] = stream[side][c]
    BY <1>2 DEF StreamsKept
  <2> QED BY <2>1, TailSplit
<1> QED BY <1>1, <1>2 DEF AllSplit

\* Data that comes first is the item the connection is to get next.
LEMMA NextItem ==
  ASSUME TypeOK, NEW side \in Sides, FlowSound(side), AllSplit(side),
         Flow(side) # <<>>, NEW c \in open[side], IsData(Flow(side)[1], c)
  PROVE  /\ Flow(side)[1].item \in Nat /\ Flow(side)[1].item >= 1
         /\ Split(side, c, Flow(side)[1].item - 1)
         /\ Flow(side)[1].item <= read[Other(side)][c]
         /\ read[Other(side)][c] \in Nat
<1> DEFINE F == Flow(side)
<1>1. /\ Len(F) \in Nat /\ Len(F) >= 1 /\ DOMAIN F = 1 .. Len(F)
  BY FlowType, LenProperties, EmptySeq
<1>2. PICK k \in Nat : Split(side, c, k)
  BY DEF AllSplit
<1>3. c \in Conns /\ Other(side) \in Sides
  BY OtherSide DEF TypeOK
<1>4. read[Other(side)][c] \in Nat
  BY <1>3, ItemsAssumption DEF TypeOK, Sides
<1>5. 1 \in DOMAIN F
  BY <1>1
<1> HIDE DEF F
<1>6. /\ F[1].item \in 1 .. read[Other(side)][c] /\ F[1].item > k
      /\ \A q \in DOMAIN F : 1 < q /\ IsData(F[q], c) => F[1].item < F[q].item
  BY <1>2, <1>5 DEF FlowSound, Split, IsData, F
<1>7. F[1].item = k + 1
  <2> SUFFICES ASSUME F[1].item # k + 1 PROVE FALSE
    OBVIOUS
  <2>1. k + 1 \in k + 1 .. read[Other(side)][c] /\ k + 1 < F[1].item
    BY <1>4, <1>6
  <2>2. PICK p \in DOMAIN F : F[p] = Data(c, k + 1)
    BY <1>2, <2>1 DEF Split, F
  <2>3. IsData(F[p], c) /\ F[p].item = k + 1
    BY <2>2 DEF IsData, Data
  <2>4. p # 1 /\ 1 < p
    BY <1>1, <2>1, <2>3
  <2> QED BY <1>6, <2>1, <2>3, <2>4
<1>8. F[1].item \in Nat /\ F[1].item >= 1 /\ F[1].item - 1 = k /\ F[1].item <= read[Other(side)][c]
  BY <1>4, <1>6, <1>7
<1> QED BY <1>2, <1>4, <1>8 DEF F

\* The first message is taken and written as a whole.
LEMMA DeliverSide ==
  ASSUME TypeOK, NEW side \in Sides, FlowSound(side), AllSplit(side),
         Flow(side) # <<>>, Flow(side)' = Tail(Flow(side)), ReadKept(side), RequestsGrow,
         NEW c \in open[side], IsData(Flow(side)[1], c), open'[side] = open[side],
         Len(stream'[side][c]) = 2 * Flow(side)[1].item,
         \A d \in open[side] \ {c} : stream'[side][d] = stream[side][d]
  PROVE  FlowSound(side)' /\ AllSplit(side)'
<1> DEFINE F == Flow(side)
           n == Len(Flow(side))
           k == Flow(side)[1].item
<1>1. /\ FlowSound(side)'
      /\ n \in Nat /\ n >= 1 /\ DOMAIN F = 1 .. n /\ DOMAIN F' = 1 .. n - 1
      /\ \A p \in 1 .. n - 1 : F'[p] = F[p + 1]
  BY TailSound
<1>2. /\ k \in Nat /\ k >= 1 /\ Split(side, c, k - 1) /\ k <= read[Other(side)][c]
      /\ read[Other(side)][c] \in Nat
  BY NextItem
<1>3. c \in Conns /\ read'[Other(side)][c] = read[Other(side)][c]
  BY DEF TypeOK, ReadKept
<1>4. IsData(F[1], c) /\ F[1].item = k /\ Len(stream'[side][c]) = 2 * k
  OBVIOUS
<1>5. ASSUME NEW d \in open'[side] PROVE \E j \in Nat : Split(side, d, j)'
  <2>1. CASE d # c
    <3>1. d \in open[side] /\ ~IsData(Flow(side)[1], d) /\ stream'[side][d] = stream[side][d]
      BY <1>5, <2>1 DEF IsData
    <3> QED BY <3>1, TailSplit
  <2>2. CASE d = c
    <3> HIDE DEF F, n, k
    <3>1. ASSUME NEW i \in k + 1 .. read'[Other(side)][c]
          PROVE  \E p \in DOMAIN F' : F'[p] = Data(c, i)
      <4>1. i \in (k - 1) + 1 .. read[Other(side)][c] /\ i # k
        BY <1>2, <1>3, <3>1
      <4>2. PICK p \in DOMAIN F : F[p] = Data(c, i)
        BY <1>2, <4>1 DEF Split, F
      <4>3. p # 1
        BY <1>4, <4>1, <4>2 DEF Data
      <4>4. p - 1 \in DOMAIN F' /\ F'[p - 1] = F[p]
        BY <1>1, <4>3
      <4> QED BY <4>2, <4>4
    <3>2. ASSUME NEW p \in DOMAIN F', IsData(F'[p], c) PROVE F'[p].item > k
      <4>1. p + 1 \in DOMAIN F /\ F'[p] = F[p + 1] /\ 1 < p + 1 /\ 1 \in DOMAIN F
        BY <1>1
      <4>2. \A q \in DOMAIN F : 1 < q /\ IsData(F[q], c) => F[1].item < F[q].item
        BY <1>4, <4>1 DEF FlowSound, F, IsData
      <4>3. k < F'[p].item
        BY <1>4, <3>2, <4>1, <4>2
      <4>4. F[p + 1].item \in Int
        <5>1. F[p + 1].item \in 1 .. read[Other(side)][c]
          BY <3>2, <4>1 DEF FlowSound, F, IsData
        <5> QED BY <5>1
      <4> QED BY <1>2, <4>1, <4>3, <4>4
    <3>3. PICK j \in Nat : j = k
      BY <1>2
    <3>4. Split(side, c, j)'
      BY <1>2, <1>3, <1>4, <3>1, <3>2, <3>3 DEF Split, F
    <3> QED BY <2>2, <3>4
  <2> QED BY <2>1, <2>2
<1> QED BY <1>1, <1>5 DEF AllSplit

-----------------------------------------------------------------------------
(* The actions.                                                            *)

\* Nothing is in flight, nothing is read.
LEMMA InitInv == Init => IInv
<1> SUFFICES ASSUME Init PROVE IInv
  OBVIOUS
<1>1. \A side \in Sides : Flow(side) = <<>>
  <2> TAKE side \in Sides
  <2>1. Flow(side) = (<<>> \o <<>>) \o <<>>
    BY OtherSide DEF Init, Flow
  <2>2. <<>> \in Seq(Nat)
    OBVIOUS
  <2> QED BY <2>1, <2>2, ConcatEmptySeq
<1>2. TypeOK
  <2>1. \A side \in Sides, c \in Conns : Items[side][c] \in Nat
    BY ItemsAssumption DEF Sides
  <2>2. <<>> \in Seq(Messages) /\ Len(<<>>) = 0
    BY EmptySeq
  <2>3. /\ writing \in [Sides -> Seq(Messages)] /\ batch \in [Sides -> Seq(Messages)]
        /\ wire \in [Sides -> Seq(Messages)]
        /\ \A side \in Sides : Len(writing[side]) <= 1 /\ Len(wire[side]) <= TunnelSize
    BY <2>2, SizesAssumption DEF Init
  <2>4. \A side \in Sides, c \in Conns :
          /\ read[side][c] \in 0 .. Items[side][c]
          /\ unread[side][c] \in 0 .. SocketSize
          /\ Len(stream[side][c]) <= 2 * read[Other(side)][c]
    BY <2>1, <2>2, SizesAssumption, OtherSide DEF Init
  <2>5. open \in [Sides -> SUBSET Conns]
    BY DEF Init
  <2>6. /\ requests \in Seq(Hosts) /\ responses \subseteq DOMAIN requests
        /\ last_udp_sender \in Hosts \cup {None} /\ has_udp_sender \in BOOLEAN
        /\ answers \in Seq([to : Hosts, request : DOMAIN requests])
    <3>1. <<>> \in Seq(Hosts) /\ <<>> \in Seq([to : Hosts, request : DOMAIN requests])
      BY EmptySeq
    <3> QED BY <3>1 DEF Init
  <2> QED BY <2>3, <2>4, <2>5, <2>6 DEF TypeOK
<1>3. Shapes /\ StreamWhole /\ RightHost /\ LastSender
  BY DEF Init, Shapes, StreamWhole, RightHost, LastSender
<1>4. ASSUME NEW side \in Sides PROVE FlowSound(side) /\ AllSplit(side)
  <2>1. FlowSound(side)
    BY <1>1 DEF FlowSound
  <2>2. ASSUME NEW c \in open[side] PROVE Split(side, c, 0)
    <3>1. c \in Conns /\ stream[side][c] = <<>> /\ read[Other(side)][c] = 0
      BY <2>2, OtherSide DEF Init
    <3> QED BY <1>1, <3>1 DEF Split
  <2> QED BY <2>1, <2>2 DEF AllSplit
<1> QED BY <1>2, <1>3, <1>4 DEF IInv

\* What a step on TCP leaves alone.
LEMMA UdpKept ==
  ASSUME IInv, UNCHANGED udpVars
  PROVE  /\ RightHost' /\ LastSender' /\ RequestsGrow
         /\ requests' \in Seq(Hosts) /\ responses' \subseteq DOMAIN requests'
         /\ last_udp_sender' \in Hosts \cup {None} /\ has_udp_sender' \in BOOLEAN
         /\ answers' \in Seq([to : Hosts, request : DOMAIN requests'])
BY DEF IInv, udpVars, RightHost, LastSender, RequestsGrow, TypeOK

\* What a step on datagrams leaves alone.
LEMMA TcpKept ==
  ASSUME IInv, UNCHANGED tcpVars
  PROVE  /\ Shapes' /\ StreamWhole' /\ open' \in [Sides -> SUBSET Conns]
         /\ \A side \in Sides : StreamsKept(side) /\ ReadKept(side)
         /\ \A side \in Sides, c \in Conns :
              /\ read'[side][c] \in 0 .. Items[side][c]
              /\ unread'[side][c] \in 0 .. SocketSize
              /\ Len(stream'[side][c]) <= 2 * read'[Other(side)][c]
BY DEF IInv, tcpVars, Shapes, StreamWhole, TypeOK, StreamsKept, ReadKept

\* PeerReads makes room in a connection and changes nothing else.
LEMMA PeerReadsInv ==
  ASSUME NEW side \in Sides, NEW c \in Conns, IInv, PeerReads(side, c)
  PROVE  IInv'
<1>1. UNCHANGED <<open, read, stream, writing, batch, wire, udpVars>>
      /\ unread' = [unread EXCEPT ![side][c] = 0]
  BY DEF PeerReads
<1>2. \A s \in Sides : FlowSound(s)' /\ AllSplit(s)'
  <2> TAKE s \in Sides
  <2>1. Flow(s)' = Flow(s) /\ StreamsKept(s) /\ ReadKept(s) /\ RequestsGrow
    BY <1>1 DEF Flow, StreamsKept, ReadKept, RequestsGrow, udpVars
  <2> QED BY <2>1, KeepSide DEF IInv
<1>3. Shapes' /\ \A s \in Sides, d \in Conns : unread'[s][d] \in 0 .. SocketSize
  BY <1>1, SizesAssumption DEF IInv, Shapes, TypeOK
<1>4. TypeOK'
  BY <1>1, <1>3, UdpKept DEF IInv, TypeOK
<1>5. StreamWhole'
  BY <1>1 DEF IInv, StreamWhole
<1> QED BY <1>1, <1>2, <1>3, <1>4, <1>5, UdpKept DEF IInv

\* WriteTunnel moves a message within what is in flight to the other side.
LEMMA WriteTunnelInv ==
  ASSUME NEW side \in Sides, IInv, WriteTunnel(side)
  PROVE  IInv'
<1> DEFINE o == Other(side)
           w == writing[side][1]
<1>1. /\ writing[side] # <<>> /\ Len(wire[o]) < TunnelSize
      /\ wire' = [wire EXCEPT ![o] = Append(@, w)]
      /\ writing' = [writing EXCEPT ![side] = <<>>]
      /\ UNCHANGED <<tcpVars, batch, udpVars>>
  BY DEF WriteTunnel
<1>2. o \in Sides /\ o # side /\ Other(o) = side /\ \A s \in Sides : s = side \/ s = o
  BY OtherSide
<1>3. TypeOK
  BY DEF IInv
<1>4. /\ batch[o] \in Seq(Messages) /\ wire[o] \in Seq(Messages)
      /\ writing[side] \in Seq(Messages) /\ Len(writing[side]) <= 1
      /\ writing \in [Sides -> Seq(Messages)] /\ wire \in [Sides -> Seq(Messages)]
  BY <1>2, <1>3 DEF TypeOK
<1>5. w \in Messages /\ writing[side] = <<w>>
  BY <1>1, <1>4, OneMessage
<1>6. Append(wire[o], w) \in Seq(Messages) /\ Len(Append(wire[o], w)) = Len(wire[o]) + 1
  BY <1>4, <1>5, AppendProperties
<1>7. /\ wire'[o] = Append(wire[o], w) /\ wire'[side] = wire[side]
      /\ writing'[side] = <<>> /\ writing'[o] = writing[o]
      /\ wire' \in [Sides -> Seq(Messages)] /\ writing' \in [Sides -> Seq(Messages)]
  <2> HIDE DEF Messages, o, w
  <2>1. <<>> \in Seq(Messages)
    OBVIOUS
  <2> QED BY <1>1, <1>2, <1>4, <1>6, <2>1
<1>8. Flow(o)' = Flow(o)
  <2> HIDE DEF w
  <2>1. Flow(o) = (batch[o] \o wire[o]) \o <<w>>
    BY <1>2, <1>5 DEF Flow
  <2>2. Flow(o)' = (batch[o] \o Append(wire[o], w)) \o <<>>
    BY <1>1, <1>2, <1>7 DEF Flow
  <2>3. Append(wire[o], w) = wire[o] \o <<w>>
    BY <1>4, <1>5, AppendIsConcat
  <2>4. batch[o] \o Append(wire[o], w) \in Seq(Messages)
    BY <1>4, <1>6, ConcatProperties
  <2>5. Flow(o)' = batch[o] \o (wire[o] \o <<w>>)
    BY <2>2, <2>3, <2>4, ConcatEmptySeq
  <2>6. <<w>> \in Seq(Messages)
    BY <1>5
  <2>7. (batch[o] \o wire[o]) \o <<w>> = batch[o] \o (wire[o] \o <<w>>)
    <3>1. ASSUME NEW x \in Seq(Messages), NEW y \in Seq(Messages), NEW z \in Seq(Messages)
          PROVE  (x \o y) \o z = x \o (y \o z)
      BY ConcatAssociative
    <3> QED BY <1>4, <2>6, <3>1
  <2> QED BY <2>1, <2>5, <2>7
<1>9. Flow(side)' = Flow(side)
  BY <1>1, <1>7 DEF Flow
<1>10. \A s \in Sides : FlowSound(s)' /\ AllSplit(s)'
  <2> TAKE s \in Sides
  <2>1. Flow(s)' = Flow(s)
    BY <1>2, <1>8, <1>9
  <2> QED BY <1>1, <1>3, <2>1, KeepSide, TcpKept, UdpKept DEF IInv
<1>11. \A s \in Sides : Len(writing'[s]) <= 1 /\ Len(wire'[s]) <= TunnelSize
  <2>1. Len(wire'[o]) <= TunnelSize
    BY <1>1, <1>4, <1>6, <1>7, LenProperties, SizesAssumption
  <2>2. Len(writing'[side]) <= 1
    BY <1>7
  <2> QED BY <1>2, <1>3, <1>7, <2>1, <2>2 DEF TypeOK
<1>12. TypeOK'
  BY <1>1, <1>3, <1>7, <1>11, TcpKept, UdpKept DEF TypeOK
<1> QED BY <1>1, <1>10, <1>12, TcpKept, UdpKept DEF IInv

\* ReadTunnel moves messages from the tunnel to the batch, in order.
LEMMA ReadTunnelInv ==
  ASSUME NEW side \in Sides, IInv, ReadTunnel(side)
  PROVE  IInv'
<1>1. PICK k \in 1 .. Len(wire[side]) :
        /\ batch' = [batch EXCEPT ![side] = SubSeq(wire[side], 1, k)]
        /\ wire' = [wire EXCEPT ![side] = SubSeq(@, k + 1, Len(@))]
  BY DEF ReadTunnel
<1>2. batch[side] = <<>> /\ UNCHANGED <<tcpVars, writing, udpVars>>
  BY DEF ReadTunnel, AtSelect
<1>3. TypeOK
  BY DEF IInv
<1>4. wire[side] \in Seq(Messages) /\ Len(wire[side]) \in Nat
      /\ \A i \in 1 .. Len(wire[side]) : wire[side][i] \in Messages
  BY <1>3, LenProperties, ElementOfSeq DEF TypeOK
<1>5. /\ SubSeq(wire[side], 1, k) \in Seq(Messages)
      /\ SubSeq(wire[side], k + 1, Len(wire[side])) \in Seq(Messages)
      /\ Len(SubSeq(wire[side], k + 1, Len(wire[side]))) <= Len(wire[side])
  <2> HIDE DEF Messages
  <2>1. SubSeq(wire[side], 1, k) \in Seq(Messages)
    BY <1>4, SubSeqProperties
  <2>2. /\ SubSeq(wire[side], k + 1, Len(wire[side])) \in Seq(Messages)
        /\ Len(SubSeq(wire[side], k + 1, Len(wire[side]))) =
             IF k + 1 <= Len(wire[side]) THEN Len(wire[side]) - (k + 1) + 1 ELSE 0
    <3>1. k + 1 \in Int /\ Len(wire[side]) \in Int
      BY <1>4
    <3>2. \A i \in k + 1 .. Len(wire[side]) : wire[side][i] \in Messages
      BY <1>4
    <3> QED BY <3>1, <3>2, SubSeqProperties
  <2> QED BY <1>4, <2>1, <2>2
<1>6. /\ batch' \in [Sides -> Seq(Messages)] /\ wire' \in [Sides -> Seq(Messages)]
      /\ batch'[side] = SubSeq(wire[side], 1, k)
      /\ wire'[side] = SubSeq(wire[side], k + 1, Len(wire[side]))
      /\ \A s \in Sides \ {side} : batch'[s] = batch[s] /\ wire'[s] = wire[s]
  <2>1. batch \in [Sides -> Seq(Messages)] /\ wire \in [Sides -> Seq(Messages)]
    BY <1>3 DEF TypeOK
  <2> HIDE DEF Messages
  <2> QED BY <1>1, <1>5, <2>1
<1>7. Flow(side)' = Flow(side)
  <2>1. SubSeq(wire[side], 1, k) \o SubSeq(wire[side], k + 1, Len(wire[side])) = wire[side]
    <3>1. /\ 1 \in 1 .. Len(wire[side]) + 1 /\ k \in 1 - 1 .. Len(wire[side])
          /\ Len(wire[side]) \in k .. Len(wire[side])
      BY <1>4
    <3>2. SubSeq(wire[side], 1, k) \o SubSeq(wire[side], k + 1, Len(wire[side]))
            = SubSeq(wire[side], 1, Len(wire[side]))
      BY <1>4, <3>1, ConcatAdjacentSubSeq
    <3> QED BY <1>4, <3>2, SubSeqFull
  <2>2. <<>> \o wire[side] = wire[side]
    BY <1>4, ConcatEmptySeq
  <2> QED BY <1>2, <1>6, <2>1, <2>2 DEF Flow
<1>8. \A s \in Sides : FlowSound(s)' /\ AllSplit(s)'
  <2> TAKE s \in Sides
  <2>1. Flow(s)' = Flow(s)
    <3>1. CASE s = side
      BY <1>7, <3>1
    <3>2. CASE s # side
      BY <1>2, <1>6, <3>2 DEF Flow
    <3> QED BY <3>1, <3>2
  <2> QED BY <1>2, <1>3, <2>1, KeepSide, TcpKept, UdpKept DEF IInv
<1>9. \A s \in Sides : Len(writing'[s]) <= 1 /\ Len(wire'[s]) <= TunnelSize
  <2>1. Len(wire'[side]) <= TunnelSize
    <3>1. Len(wire[side]) <= TunnelSize /\ Len(wire'[side]) <= Len(wire[side])
          /\ Len(wire'[side]) \in Nat
      BY <1>3, <1>5, <1>6, LenProperties DEF TypeOK
    <3> QED BY <1>4, <3>1, SizesAssumption
  <2> QED BY <1>2, <1>3, <1>6, <2>1 DEF TypeOK
<1>10. TypeOK'
  BY <1>2, <1>3, <1>6, <1>9, TcpKept, UdpKept DEF TypeOK
<1> QED BY <1>2, <1>8, <1>10, TcpKept, UdpKept DEF IInv

-----------------------------------------------------------------------------
(* What the helpers of the actions do to the types.                        *)

\* A side sends: what it writes, and what that is to the other side.
LEMMA SendType ==
  ASSUME TypeOK, NEW side \in Sides, NEW m \in Messages, SendTunnel(side, m)
  PROVE  /\ writing' \in [Sides -> Seq(Messages)]
         /\ \A s \in Sides : Len(writing'[s]) <= 1
<1>1. <<m>> \in Seq(Messages) /\ Len(<<m>>) = 1
  OBVIOUS
<1>2. writing' = [writing EXCEPT ![side] = <<m>>] /\ writing \in [Sides -> Seq(Messages)]
      /\ \A s \in Sides : Len(writing[s]) <= 1
  BY DEF SendTunnel, TypeOK
<1>3. writing' \in [Sides -> Seq(Messages)]
  BY <1>1, <1>2
<1> QED BY <1>1, <1>2, <1>3

\* A side takes a message: it is the first in flight to it.
LEMMA PopFlow ==
  ASSUME TypeOK, NEW side \in Sides, batch[side] # <<>>, Pop(side)
  PROVE  /\ batch' \in [Sides -> Seq(Messages)] /\ batch'[Other(side)] = batch[Other(side)]
         /\ batch[side][1] \in Messages
         /\ Flow(side) # <<>> /\ Flow(side)[1] = batch[side][1]
         /\ UNCHANGED wire /\ writing'[Other(side)] = writing[Other(side)]
              => Flow(side)' = Tail(Flow(side))
<1>1. Other(side) \in Sides /\ Other(side) # side
  BY OtherSide
<1>2. batch' = [batch EXCEPT ![side] = Tail(batch[side])] /\ batch \in [Sides -> Seq(Messages)]
  BY DEF Pop, TypeOK
<1>3. /\ Flow(side) # <<>> /\ Flow(side)[1] = batch[side][1]
      /\ \A w \in Seq(Messages) :
           Tail(batch[side]) \o wire[side] \o w = Tail(batch[side] \o wire[side] \o w)
      /\ batch[side][1] \in Messages /\ Tail(batch[side]) \in Seq(Messages)
  BY PopTails
<1>4. batch' \in [Sides -> Seq(Messages)] /\ batch'[side] = Tail(batch[side])
      /\ batch'[Other(side)] = batch[Other(side)]
  BY <1>1, <1>2, <1>3
<1>5. writing[Other(side)] \in Seq(Messages)
  BY FlowType
<1>6. ASSUME UNCHANGED wire, writing'[Other(side)] = writing[Other(side)]
      PROVE  Flow(side)' = Tail(Flow(side))
  <2>1. Flow(side)' = Tail(batch[side]) \o wire[side] \o writing[Other(side)]
    BY <1>4, <1>6 DEF Flow
  <2> QED BY <1>3, <1>5, <2>1 DEF Flow
<1> QED BY <1>3, <1>4, <1>6

\* What the programs send are messages.
LEMMA MessageTypes ==
  /\ \A c \in Conns, n \in Nat : Data(c, n) \in Messages
  /\ \A c \in Conns \cup {None} : CloseMsg(c) \in Messages /\ CloseMsg(c).type = "TCP_CLOSE"
  /\ \A n \in Nat : Packet(n) \in Messages /\ Packet(n).type = "UDP_PACKET" /\ Packet(n).item = n
BY DEF Messages, Data, CloseMsg, Packet

\* A write to a connection: what comes before it and of it is in place.
LEMMA WriteEffect ==
  ASSUME TypeOK, Shapes, StreamWhole, NEW side \in Sides, NEW c \in Conns,
         NEW n \in Nat, n >= 1, Len(stream[side][c]) = 2 * (n - 1), Write(side, c, n)
  PROVE  /\ Taken(side, c) \in 0 .. 2
         /\ UNCHANGED read => Shapes'
         /\ StreamWhole'
         /\ Len(stream'[side][c]) = 2 * (n - 1) + Taken(side, c)
         /\ \A s \in Sides, d \in Conns : s # side \/ d # c => stream'[s][d] = stream[s][d]
         /\ \A s \in Sides, d \in Conns : unread'[s][d] \in 0 .. SocketSize
<1> DEFINE t == Taken(side, c)
           q == stream[side][c]
           x == SubSeq(Units(n), 1, t)
<1>1. /\ q \in Seq(Nat) /\ Len(q) = 2 * (n - 1) /\ unread[side][c] \in 0 .. SocketSize
      /\ stream \in [Sides -> [Conns -> Seq(Nat)]] /\ unread \in [Sides -> [Conns -> Nat]]
      /\ \A s \in Sides, d \in Conns : unread[s][d] \in 0 .. SocketSize
  BY DEF Shapes, TypeOK
<1>2. t \in 0 .. 2 /\ unread[side][c] + t \in 0 .. SocketSize
  BY <1>1, SizesAssumption DEF Taken
<1>3. /\ stream' = [stream EXCEPT ![side][c] = q \o x]
      /\ unread' = [unread EXCEPT ![side][c] = unread[side][c] + t]
  BY DEF Write
<1> HIDE DEF t
<1>4. /\ x \in Seq(Nat) /\ Len(x) = t
      /\ \A i \in 1 .. t : x[i] = 2 * (n - 1) + i
  <2>1. Units(n)[1] = 2 * n - 1 /\ Units(n)[2] = 2 * n
    BY DEF Units
  <2>2. 2 * n - 1 \in Nat /\ 2 * n \in Nat
    OBVIOUS
  <2>3. \A i \in 1 .. t : Units(n)[i] \in Nat
    BY <1>2, <2>1, <2>2
  <2>4. /\ x \in Seq(Nat) /\ Len(x) = IF 1 <= t THEN t - 1 + 1 ELSE 0
        /\ \A i \in 1 .. t - 1 + 1 : x[i] = Units(n)[1 + i - 1]
    <3>1. 1 \in Int /\ t \in Int
      BY <1>2
    <3> QED BY <2>3, <3>1, SubSeqProperties
  <2>5. Len(x) = t
    BY <1>2, <2>4
  <2>6. \A i \in 1 .. t : x[i] = Units(n)[i]
    BY <1>2, <2>4
  <2>7. \A i \in 1 .. t : i = 1 \/ i = 2
    BY <1>2
  <2> QED BY <2>1, <2>4, <2>5, <2>6, <2>7
<1> HIDE DEF x, q
<1>5. /\ q \o x \in Seq(Nat) /\ Len(q \o x) = 2 * (n - 1) + t
      /\ \A i \in 1 .. 2 * (n - 1) + t : (q \o x)[i] = IF i <= Len(q) THEN q[i] ELSE x[i - Len(q)]
  <2>1. /\ q \o x \in Seq(Nat) /\ Len(q \o x) = Len(q) + Len(x)
        /\ \A i \in 1 .. Len(q) + Len(x) : (q \o x)[i] = IF i <= Len(q) THEN q[i] ELSE x[i - Len(q)]
    BY <1>1, <1>4, ConcatProperties
  <2>2. Len(q) + Len(x) = 2 * (n - 1) + t
    BY <1>1, <1>4
  <2> QED BY <2>1, <2>2
<1>6. \A i \in 1 .. 2 * (n - 1) : q[i] = i
  BY <1>1, LenProperties DEF StreamWhole, q
<1>7. ASSUME NEW i \in 1 .. 2 * (n - 1) + t PROVE (q \o x)[i] = i
  <2>0. PICK l \in Nat : l = 2 * (n - 1) /\ l = Len(q)
    BY <1>1
  <2>1. i \in 1 .. l + t /\ t \in Nat /\ (q \o x)[i] = IF i <= l THEN q[i] ELSE x[i - l]
    <3>1. i \in 1 .. l + t
      BY <1>7, <2>0
    <3>2. t \in Nat
      BY <1>2
    <3>3. \A j \in 1 .. l + t : (q \o x)[j] = IF j <= l THEN q[j] ELSE x[j - l]
      BY <1>5, <2>0
    <3> QED BY <3>1, <3>2, <3>3
  <2>2. CASE i <= l
    <3>1. i \in 1 .. l
      BY <2>1, <2>2
    <3> QED BY <1>6, <2>0, <2>1, <2>2, <3>1
  <2>3. CASE i > l
    <3>1. i - l \in 1 .. t /\ l + (i - l) = i /\ (q \o x)[i] = x[i - l]
      BY <2>1, <2>3
    <3>2. x[i - l] = l + (i - l)
      BY <1>4, <2>0, <3>1
    <3> QED BY <3>1, <3>2
  <2> QED BY <2>1, <2>2, <2>3
<1>8. /\ stream' \in [Sides -> [Conns -> Seq(Nat)]] /\ stream'[side][c] = q \o x
      /\ \A s \in Sides, d \in Conns : s # side \/ d # c => stream'[s][d] = stream[s][d]
  BY <1>1, <1>3, <1>5
<1>9. /\ unread' \in [Sides -> [Conns -> Nat]] /\ unread'[side][c] = unread[side][c] + t
      /\ \A s \in Sides, d \in Conns : s # side \/ d # c => unread'[s][d] = unread[s][d]
  BY <1>1, <1>2, <1>3
<1>10. StreamWhole'
  <2> SUFFICES ASSUME NEW s \in Sides, NEW d \in Conns, NEW i \in DOMAIN stream'[s][d]
               PROVE  stream'[s][d][i] = i
    BY DEF StreamWhole
  <2>1. CASE s = side /\ d = c
    <3>1. DOMAIN (q \o x) = 1 .. 2 * (n - 1) + t
      BY <1>5, LenProperties
    <3> QED BY <1>7, <1>8, <2>1, <3>1
  <2>2. CASE s # side \/ d # c
    BY <1>8, <2>2 DEF StreamWhole
  <2> QED BY <2>1, <2>2
<1> QED BY <1>1, <1>2, <1>5, <1>8, <1>9, <1>10 DEF Shapes, t

-----------------------------------------------------------------------------
(* The actions on TCP messages.                                            *)

\* ReadConn puts the next item of a connection in flight.
LEMMA ReadConnInv ==
  ASSUME NEW side \in Sides, NEW c \in Conns, IInv, ReadConn(side, c)
  PROVE  IInv'
<1> DEFINE o == Other(side)
           m == Data(c, read[side][c] + 1)
<1>1. /\ writing[side] = <<>> /\ read[side][c] < Items[side][c]
      /\ read' = [read EXCEPT ![side][c] = @ + 1]
      /\ SendTunnel(side, m)
      /\ UNCHANGED <<open, stream, unread, batch, wire, udpVars>>
  BY DEF ReadConn, AtSelect
<1>2. o \in Sides /\ o # side /\ Other(o) = side /\ \A s \in Sides : s = side \/ s = o
  BY OtherSide
<1>3. TypeOK /\ Shapes
  BY DEF IInv
<1>4. read[side][c] \in Nat /\ Items[side][c] \in Nat /\ read \in [Sides -> [Conns -> Nat]]
  BY <1>3, ItemsAssumption DEF Shapes, Sides
<1>5. m \in Messages
  BY <1>4, MessageTypes
<1>6. /\ read' \in [Sides -> [Conns -> Nat]] /\ read'[side][c] = read[side][c] + 1
      /\ \A s \in Sides, d \in Conns : s # side \/ d # c => read'[s][d] = read[s][d]
  BY <1>1, <1>4
<1>7. \A s \in Sides : StreamsKept(s) /\ RequestsGrow
  BY <1>1 DEF StreamsKept, RequestsGrow, udpVars
<1>8. FlowSound(o)' /\ AllSplit(o)'
  <2>1. Flow(o)' = Append(Flow(o), m)
    BY <1>1, <1>3, <1>5, SendAppends
  <2>2. \A d \in Conns : read'[Other(o)][d] = IF d = c THEN read[Other(o)][d] + 1 ELSE read[Other(o)][d]
    BY <1>2, <1>6
  <2>3. Flow(o)' = Append(Flow(o), Data(c, read[Other(o)][c] + 1))
    BY <1>2, <2>1
  <2>4. FlowSound(o) /\ AllSplit(o)
    BY <1>2 DEF IInv
  <2> HIDE DEF o
  <2> QED BY <1>2, <1>3, <1>7, <2>2, <2>3, <2>4, AppendData
<1>9. FlowSound(side)' /\ AllSplit(side)'
  <2>1. Flow(side)' = Flow(side)
    BY <1>1, <1>3, SendKeeps
  <2>2. ReadKept(side)
    BY <1>2, <1>6 DEF ReadKept
  <2> QED BY <1>3, <1>7, <2>1, <2>2, KeepSide DEF IInv
<1>10. TypeOK'
  <2>1. \A s \in Sides, d \in Conns :
          /\ read'[s][d] \in 0 .. Items[s][d]
          /\ unread'[s][d] \in 0 .. SocketSize
    <3> TAKE s \in Sides, d \in Conns
    <3>1. read[s][d] \in 0 .. Items[s][d] /\ unread[s][d] \in 0 .. SocketSize
      BY <1>3 DEF TypeOK
    <3>2. CASE s = side /\ d = c
      BY <1>1, <1>4, <1>6, <3>1, <3>2
    <3>3. CASE s # side \/ d # c
      BY <1>1, <1>6, <3>1, <3>3
    <3> QED BY <3>2, <3>3
  <2>2. \A s \in Sides, d \in Conns : Len(stream'[s][d]) <= 2 * read'[Other(s)][d]
    <3> TAKE s \in Sides, d \in Conns
    <3>1. /\ Len(stream[s][d]) \in Nat /\ Len(stream[s][d]) <= 2 * read[Other(s)][d]
          /\ read[Other(s)][d] \in Nat /\ Other(s) \in Sides
      <4>1. Other(s) \in Sides
        BY OtherSide
      <4>2. stream[s][d] \in Seq(Nat) /\ read[Other(s)][d] \in Nat
        BY <1>3, <4>1 DEF Shapes
      <4>3. Len(stream[s][d]) <= 2 * read[Other(s)][d]
        BY <1>3 DEF TypeOK
      <4> QED BY <4>1, <4>2, <4>3, LenProperties
    <3>2. read'[Other(s)][d] = read[Other(s)][d] \/ read'[Other(s)][d] = read[Other(s)][d] + 1
      BY <1>6, <3>1
    <3>3. Len(stream'[s][d]) = Len(stream[s][d])
      BY <1>1
    <3> QED BY <3>1, <3>2, <3>3
  <2>3. /\ writing' \in [Sides -> Seq(Messages)] /\ \A s \in Sides : Len(writing'[s]) <= 1
    BY <1>1, <1>3, <1>5, SendType
  <2>4. UNCHANGED udpVars
    BY <1>1
  <2> QED BY <1>1, <1>3, <2>1, <2>2, <2>3, <2>4, UdpKept DEF TypeOK
<1>11. Shapes' /\ StreamWhole' /\ RightHost' /\ LastSender'
  <2>1. UNCHANGED udpVars
    BY <1>1
  <2>2. Shapes' /\ StreamWhole'
    BY <1>1, <1>6 DEF IInv, Shapes, StreamWhole
  <2> QED BY <2>1, <2>2, UdpKept
<1>12. \A s \in Sides : FlowSound(s)' /\ AllSplit(s)'
  BY <1>2, <1>8, <1>9
<1> QED BY <1>10, <1>11, <1>12 DEF IInv

\* A side that drops or refuses a message, or closes a connection for it.
LEMMA TakeInv ==
  ASSUME NEW side \in Sides, IInv, batch[side] # <<>>, Pop(side),
         \A c \in open'[side] : ~IsData(batch[side][1], c),
         open' \in [Sides -> SUBSET Conns], open'[side] \subseteq open[side],
         open'[Other(side)] = open[Other(side)],
         \A s \in Sides : \A c \in open'[s] : stream'[s][c] = stream[s][c],
         UNCHANGED <<read, wire, udpVars>>,
         \/ UNCHANGED writing
         \/ writing[side] = <<>> /\ \E c \in Conns \cup {None} : SendTunnel(side, CloseMsg(c))
  PROVE  /\ \A s \in Sides : FlowSound(s)' /\ AllSplit(s)'
         /\ batch' \in [Sides -> Seq(Messages)] /\ writing' \in [Sides -> Seq(Messages)]
         /\ \A s \in Sides : Len(writing'[s]) <= 1
<1> DEFINE o == Other(side)
<1>1. o \in Sides /\ o # side /\ Other(o) = side /\ \A s \in Sides : s = side \/ s = o
  BY OtherSide
<1>2. TypeOK /\ writing \in [Sides -> Seq(Messages)] /\ \A s \in Sides : Len(writing[s]) <= 1
  BY DEF IInv, TypeOK
<1>3. \A s \in Sides : StreamsKept(s) /\ ReadKept(s) /\ RequestsGrow
  BY <1>1 DEF StreamsKept, ReadKept, RequestsGrow, udpVars
<1>4. /\ batch' \in [Sides -> Seq(Messages)] /\ batch'[o] = batch[o]
      /\ Flow(side) # <<>> /\ Flow(side)[1] = batch[side][1]
      /\ UNCHANGED wire /\ writing'[o] = writing[o] => Flow(side)' = Tail(Flow(side))
  BY <1>2, PopFlow
<1>5. writing'[o] = writing[o]
  BY <1>1, <1>2 DEF SendTunnel
<1>6. FlowSound(side)' /\ AllSplit(side)'
  <2>1. Flow(side)' = Tail(Flow(side))
    BY <1>4, <1>5
  <2>2. FlowSound(side) /\ AllSplit(side)
    BY DEF IInv
  <2> QED BY <1>2, <1>3, <1>4, <2>1, <2>2, TailSide
<1>7. FlowSound(o) /\ AllSplit(o)
  BY <1>1 DEF IInv
<1>8. CASE UNCHANGED writing
  <2>1. Flow(o)' = Flow(o)
    BY <1>4, <1>8 DEF Flow
  <2>2. FlowSound(o)' /\ AllSplit(o)'
    <3> HIDE DEF o
    <3> QED BY <1>1, <1>2, <1>3, <1>7, <2>1, KeepSide
  <2> QED BY <1>1, <1>2, <1>4, <1>6, <1>8, <2>2
<1>9. CASE writing[side] = <<>> /\ \E c \in Conns \cup {None} : SendTunnel(side, CloseMsg(c))
  <2>1. PICK c \in Conns \cup {None} : SendTunnel(side, CloseMsg(c))
    BY <1>9
  <2>2. CloseMsg(c) \in Messages /\ CloseMsg(c).type = "TCP_CLOSE"
    BY MessageTypes
  <2>3. Flow(o)' = Append(Flow(o), CloseMsg(c))
    BY <1>2, <1>4, <1>9, <2>1, <2>2, SendAppends
  <2>4. FlowSound(o)' /\ AllSplit(o)'
    <3> HIDE DEF o
    <3> QED BY <1>1, <1>2, <1>3, <1>7, <2>2, <2>3, AppendSide
  <2>5. writing' \in [Sides -> Seq(Messages)] /\ \A s \in Sides : Len(writing'[s]) <= 1
    BY <1>2, <2>1, <2>2, SendType
  <2> QED BY <1>1, <1>4, <1>6, <2>4, <2>5
<1> QED BY <1>8, <1>9

\* HandleUnknown drops data of a connection that is not open here.
LEMMA HandleUnknownInv ==
  ASSUME NEW side \in Sides, IInv, HandleUnknown(side)
  PROVE  IInv'
<1> DEFINE m == batch[side][1]
<1>1. /\ writing[side] = <<>> /\ batch[side] # <<>> /\ Pop(side) /\ m.conn \notin open[side]
      /\ UNCHANGED <<tcpVars, wire, udpVars>>
      /\ UNCHANGED writing \/ SendTunnel(side, CloseMsg(m.conn))
  BY DEF HandleUnknown, Front
<1>2. TypeOK /\ open \in [Sides -> SUBSET Conns]
  BY DEF IInv, TypeOK
<1>3. m.conn \in Conns \cup {None}
  BY <1>1, <1>2, PopFlow DEF Messages
<1>4. \A c \in open'[side] : ~IsData(m, c)
  BY <1>1 DEF IsData, tcpVars
<1>5. UNCHANGED tcpVars /\ UNCHANGED udpVars /\ UNCHANGED wire
      /\ UNCHANGED open /\ UNCHANGED stream /\ UNCHANGED read
  BY <1>1 DEF tcpVars
<1> HIDE DEF m
<1>6. /\ \A s \in Sides : FlowSound(s)' /\ AllSplit(s)'
      /\ batch' \in [Sides -> Seq(Messages)] /\ writing' \in [Sides -> Seq(Messages)]
      /\ \A s \in Sides : Len(writing'[s]) <= 1
  BY <1>1, <1>2, <1>3, <1>4, <1>5, TakeInv DEF m
<1>7. TypeOK'
  BY <1>2, <1>5, <1>6, TcpKept, UdpKept DEF TypeOK
<1> QED BY <1>5, <1>6, <1>7, TcpKept, UdpKept DEF IInv

\* HandleClose ends a connection here; its data in flight is no concern of AllSplit.
LEMMA HandleCloseInv ==
  ASSUME NEW side \in Sides, IInv, HandleClose(side)
  PROVE  IInv'
<1> DEFINE m == batch[side][1]
<1>1. /\ writing[side] = <<>> /\ batch[side] # <<>> /\ Pop(side) /\ m.type = "TCP_CLOSE"
      /\ open' = [open EXCEPT ![side] = @ \ {m.conn}]
      /\ UNCHANGED <<read, stream, unread, writing, wire, udpVars>>
  BY DEF HandleClose, Front
<1>2. TypeOK /\ Shapes /\ open \in [Sides -> SUBSET Conns]
  BY DEF IInv, TypeOK
<1>3. /\ open' \in [Sides -> SUBSET Conns] /\ open'[side] \subseteq open[side]
      /\ open'[Other(side)] = open[Other(side)]
  BY <1>1, <1>2, OtherSide
<1>4. \A c \in open'[side] : ~IsData(m, c)
  BY <1>1 DEF IsData
<1>5. UNCHANGED <<read, wire, udpVars>> /\ UNCHANGED writing
      /\ \A s \in Sides : \A c \in open'[s] : stream'[s][c] = stream[s][c]
  BY <1>1
<1> HIDE DEF m
<1>6. /\ \A s \in Sides : FlowSound(s)' /\ AllSplit(s)'
      /\ batch' \in [Sides -> Seq(Messages)] /\ writing' \in [Sides -> Seq(Messages)]
      /\ \A s \in Sides : Len(writing'[s]) <= 1
  BY <1>1, <1>2, <1>3, <1>4, <1>5, TakeInv DEF m
<1>7. Shapes' /\ StreamWhole'
  BY <1>1 DEF IInv, Shapes, StreamWhole
<1>8. UNCHANGED udpVars
  BY <1>1
<1>9. TypeOK'
  BY <1>1, <1>2, <1>3, <1>6, <1>8, UdpKept DEF TypeOK
<1> QED BY <1>6, <1>7, <1>8, <1>9, UdpKept DEF IInv

\* HandleData writes the next item, or a part of it and closes.
LEMMA HandleDataInv ==
  ASSUME NEW side \in Sides, IInv, HandleData(side)
  PROVE  IInv'
<1> DEFINE o == Other(side)
           m == batch[side][1]
           c == batch[side][1].conn
           n == batch[side][1].item
<1>1. /\ writing[side] = <<>> /\ batch[side] # <<>> /\ m.type = "TCP_DATA" /\ c \in open[side]
      /\ Pop(side) /\ Write(side, c, n)
      /\ UNCHANGED <<read, wire, udpVars>>
  BY DEF HandleData, Front
<1>2. o \in Sides /\ o # side /\ Other(o) = side /\ \A s \in Sides : s = side \/ s = o
  BY OtherSide
<1>3. TypeOK /\ Shapes /\ StreamWhole /\ FlowSound(side) /\ AllSplit(side)
  BY DEF IInv
<1>4. /\ batch' \in [Sides -> Seq(Messages)] /\ batch'[o] = batch[o]
      /\ Flow(side) # <<>> /\ Flow(side)[1] = m
      /\ UNCHANGED wire /\ writing'[o] = writing[o] => Flow(side)' = Tail(Flow(side))
  BY <1>1, <1>3, PopFlow
<1>5. c \in Conns /\ open \in [Sides -> SUBSET Conns]
  BY <1>1, <1>3 DEF TypeOK
<1>6. IsData(m, c)
  BY <1>1 DEF IsData
<1>7. /\ n \in Nat /\ n >= 1 /\ Split(side, c, n - 1)
      /\ n <= read[o][c] /\ read[o][c] \in Nat
  <2>1. IsData(Flow(side)[1], c) /\ Flow(side)[1].item = n
    BY <1>4, <1>6
  <2> HIDE DEF m, c, n
  <2> QED BY <1>1, <1>3, <1>4, <2>1, NextItem
<1>8. Len(stream[side][c]) = 2 * (n - 1)
  BY <1>7 DEF Split
<1> HIDE DEF c, n, m
<1>9. /\ Taken(side, c) \in 0 .. 2 /\ Shapes' /\ StreamWhole'
      /\ Len(stream'[side][c]) = 2 * (n - 1) + Taken(side, c)
      /\ \A s \in Sides, d \in Conns : s # side \/ d # c => stream'[s][d] = stream[s][d]
      /\ \A s \in Sides, d \in Conns : unread'[s][d] \in 0 .. SocketSize
  BY <1>1, <1>3, <1>5, <1>7, <1>8, WriteEffect
<1>10. \A s \in Sides : ReadKept(s) /\ RequestsGrow
  BY <1>1 DEF ReadKept, RequestsGrow, udpVars
<1>11. UNCHANGED read /\ UNCHANGED wire /\ UNCHANGED udpVars
  BY <1>1
<1>12. ASSUME open' \in [Sides -> SUBSET Conns], \A s \in Sides : FlowSound(s)' /\ AllSplit(s)',
              writing' \in [Sides -> Seq(Messages)], \A s \in Sides : Len(writing'[s]) <= 1
       PROVE  IInv'
  <2>1. \A s \in Sides, d \in Conns : Len(stream'[s][d]) <= 2 * read'[Other(s)][d]
    <3> TAKE s \in Sides, d \in Conns
    <3>1. Len(stream[s][d]) <= 2 * read[Other(s)][d] /\ read' = read
      BY <1>3, <1>11 DEF TypeOK
    <3>2. CASE s = side /\ d = c
      <4>1. 2 * (n - 1) + Taken(side, c) <= 2 * read[o][c]
        BY <1>7, <1>9
      <4> QED BY <1>9, <3>1, <3>2, <4>1
    <3>3. CASE s # side \/ d # c
      BY <1>9, <3>1, <3>3
    <3> QED BY <3>2, <3>3
  <2>2. \A s \in Sides, d \in Conns : read'[s][d] \in 0 .. Items[s][d]
    BY <1>3, <1>11 DEF TypeOK
  <2>3. \A s \in Sides : Len(wire'[s]) <= TunnelSize
    BY <1>3, <1>11 DEF TypeOK
  <2>4. wire' \in [Sides -> Seq(Messages)]
    BY <1>3, <1>11 DEF TypeOK
  <2>5. TypeOK'
    BY <1>4, <1>9, <1>11, <1>12, <2>1, <2>2, <2>3, <2>4, UdpKept DEF TypeOK
  <2> QED BY <1>9, <1>11, <1>12, <2>5, UdpKept DEF IInv
<1>13. CASE Taken(side, c) = 2
  <2>1. UNCHANGED open /\ UNCHANGED writing
    BY <1>13 DEF HandleData, c
  <2>2. FlowSound(side)' /\ AllSplit(side)'
    <3>1. Flow(side)' = Tail(Flow(side))
      BY <1>4, <1>11, <2>1
    <3>2. Len(stream'[side][c]) = 2 * n
      BY <1>7, <1>9, <1>13
    <3>3. IsData(Flow(side)[1], c) /\ Flow(side)[1].item = n
      BY <1>4, <1>6 DEF m, n
    <3>4. \A d \in open[side] \ {c} : stream'[side][d] = stream[side][d]
      BY <1>5, <1>9
    <3> QED BY <1>1, <1>3, <1>4, <1>10, <2>1, <3>1, <3>2, <3>3, <3>4, DeliverSide
  <2>3. FlowSound(o)' /\ AllSplit(o)'
    <3>1. Flow(o)' = Flow(o)
      BY <1>4, <1>11, <2>1 DEF Flow
    <3>2. StreamsKept(o)
      BY <1>2, <1>5, <1>9, <2>1 DEF StreamsKept
    <3>3. FlowSound(o) /\ AllSplit(o)
      BY <1>2 DEF IInv
    <3> HIDE DEF o
    <3> QED BY <1>2, <1>3, <1>10, <3>1, <3>2, <3>3, KeepSide
  <2>4. \A s \in Sides : FlowSound(s)' /\ AllSplit(s)'
    BY <1>2, <2>2, <2>3
  <2>5. open' \in [Sides -> SUBSET Conns] /\ writing' \in [Sides -> Seq(Messages)]
        /\ \A s \in Sides : Len(writing'[s]) <= 1
    BY <1>3, <2>1 DEF TypeOK
  <2> QED BY <1>12, <2>4, <2>5
<1>14. CASE Taken(side, c) # 2
  <2>1. open' = [open EXCEPT ![side] = @ \ {c}] /\ SendTunnel(side, CloseMsg(c))
    BY <1>14 DEF HandleData, c
  <2>2. /\ open' \in [Sides -> SUBSET Conns] /\ open'[side] = open[side] \ {c} /\ open'[o] = open[o]
    BY <1>2, <1>5, <2>1
  <2>3. \A d \in open'[side] : ~IsData(batch[side][1], d)
    BY <2>2 DEF IsData, c
  <2>4. \A s \in Sides : \A d \in open'[s] : stream'[s][d] = stream[s][d]
    <3> TAKE s \in Sides
    <3> TAKE d \in open'[s]
    <3>1. d \in Conns /\ (s # side \/ d # c)
      BY <2>2
    <3> QED BY <1>9, <3>1
  <2>5. /\ \A s \in Sides : FlowSound(s)' /\ AllSplit(s)'
        /\ batch' \in [Sides -> Seq(Messages)] /\ writing' \in [Sides -> Seq(Messages)]
        /\ \A s \in Sides : Len(writing'[s]) <= 1
    <3>1. writing[side] = <<>> /\ \E d \in Conns \cup {None} : SendTunnel(side, CloseMsg(d))
      BY <1>1, <1>5, <2>1
    <3>2. open'[side] \subseteq open[side] /\ open'[Other(side)] = open[Other(side)]
      BY <2>2
    <3> HIDE DEF o
    <3> QED BY <1>1, <2>2, <2>3, <2>4, <3>1, <3>2, TakeInv
  <2> QED BY <1>12, <2>2, <2>5
<1> QED BY <1>13, <1>14

-----------------------------------------------------------------------------
(* The actions on datagrams.                                               *)

\* A sequence over a set is one over a wider set.
LEMMA WiderSeq ==
  ASSUME NEW S, NEW T, S \subseteq T, NEW q \in Seq(S)
  PROVE  q \in Seq(T)
<1>1. Len(q) \in Nat /\ q \in [1 .. Len(q) -> S]
  BY LenProperties
<1>2. q \in [1 .. Len(q) -> T]
  BY <1>1
<1>3. \A n \in Nat : [1 .. n -> T] \subseteq Seq(T)
  OBVIOUS
<1> QED BY <1>1, <1>2, <1>3

\* ServerReadUdp numbers a datagram and remembers its sender.
LEMMA ServerReadUdpInv ==
  ASSUME NEW host \in Hosts, NEW empty \in BOOLEAN, IInv, ServerReadUdp(host, empty)
  PROVE  IInv'
<1> DEFINE m == Packet(Len(requests) + 1)
<1>1. /\ writing["server"] = <<>>
      /\ requests' = Append(requests, host) /\ last_udp_sender' = host
      /\ UNCHANGED <<tcpVars, batch, wire, responses, answers>>
      /\ \/ UNCHANGED <<has_udp_sender, writing>>
         \/ has_udp_sender' = TRUE /\ SendTunnel("server", m)
  BY DEF ServerReadUdp, AtSelect, Recvfrom
<1>2. /\ "server" \in Sides /\ "client" \in Sides
      /\ Other("server") = "client" /\ Other("client") = "server"
      /\ \A s \in Sides : s = "server" \/ s = "client"
  BY DEF Sides, Other
<1>3. TypeOK /\ requests \in Seq(Hosts) /\ Len(requests) \in Nat
  BY LenProperties DEF IInv, TypeOK
<1>4. /\ requests' \in Seq(Hosts) /\ Len(requests') = Len(requests) + 1 /\ requests' # <<>>
      /\ \A i \in 1 .. Len(requests) : requests'[i] = requests[i]
      /\ requests'[Len(requests) + 1] = host
  BY <1>1, <1>3, AppendProperties
<1>5. DOMAIN requests = 1 .. Len(requests) /\ DOMAIN requests' = 1 .. Len(requests) + 1
  BY <1>3, <1>4, LenProperties
<1>6. RequestsGrow /\ m \in Messages /\ m.type = "UDP_PACKET" /\ m.item \in DOMAIN requests'
  BY <1>3, <1>5, MessageTypes DEF RequestsGrow
<1>7. /\ Shapes' /\ StreamWhole' /\ \A s \in Sides : StreamsKept(s) /\ ReadKept(s)
  BY <1>1, TcpKept
<1>8. \A s \in Sides : FlowSound(s) /\ AllSplit(s)
  BY DEF IInv
<1>9. LastSender'
  BY <1>1, <1>4 DEF LastSender
<1>10. answers' \in Seq([to : Hosts, request : DOMAIN requests'])
  <2>1. [to : Hosts, request : DOMAIN requests] \subseteq [to : Hosts, request : DOMAIN requests']
    BY <1>6 DEF RequestsGrow
  <2>2. answers \in Seq([to : Hosts, request : DOMAIN requests]) /\ answers' = answers
    BY <1>1, <1>3 DEF TypeOK
  <2> QED BY <2>1, <2>2, WiderSeq
<1>11. RightHost'
  <2> SUFFICES ASSUME NEW i \in DOMAIN answers
               PROVE  \E j \in answers[i].request .. Len(requests') : requests'[j] = answers[i].to
    BY <1>1 DEF RightHost
  <2>1. answers[i].request \in 1 .. Len(requests)
    <3>1. answers \in Seq([to : Hosts, request : DOMAIN requests])
      BY <1>3 DEF TypeOK
    <3>2. i \in 1 .. Len(answers)
      BY <3>1, LenProperties
    <3>3. answers[i] \in [to : Hosts, request : DOMAIN requests]
      BY <3>1, <3>2, ElementOfSeq
    <3> QED BY <1>5, <3>3
  <2>2. PICK j \in answers[i].request .. Len(requests) : requests[j] = answers[i].to
    BY DEF IInv, RightHost
  <2>3. j \in answers[i].request .. Len(requests') /\ j \in 1 .. Len(requests)
    BY <1>3, <1>4, <2>1
  <2> QED BY <1>4, <2>2, <2>3
<1> HIDE DEF m
<1>12. ASSUME \A s \in Sides : FlowSound(s)' /\ AllSplit(s)', has_udp_sender' \in BOOLEAN,
              writing' \in [Sides -> Seq(Messages)], \A s \in Sides : Len(writing'[s]) <= 1
       PROVE  IInv'
  <2>1. responses' \subseteq DOMAIN requests'
    BY <1>1, <1>3, <1>6 DEF TypeOK, RequestsGrow
  <2>2. TypeOK'
    BY <1>1, <1>3, <1>4, <1>10, <1>12, <2>1, TcpKept DEF TypeOK
  <2> QED BY <1>7, <1>9, <1>11, <1>12, <2>2 DEF IInv
<1>13. CASE UNCHANGED <<has_udp_sender, writing>>
  <2>1. \A s \in Sides : FlowSound(s)' /\ AllSplit(s)'
    <3> TAKE s \in Sides
    <3>1. Flow(s)' = Flow(s)
      BY <1>1, <1>13 DEF Flow
    <3> QED BY <1>3, <1>6, <1>7, <1>8, <3>1, KeepSide
  <2>2. has_udp_sender' \in BOOLEAN /\ writing' \in [Sides -> Seq(Messages)]
        /\ \A s \in Sides : Len(writing'[s]) <= 1
    BY <1>3, <1>13 DEF TypeOK
  <2> QED BY <1>12, <2>1, <2>2
<1>14. CASE has_udp_sender' = TRUE /\ SendTunnel("server", m)
  <2>1. FlowSound("client")' /\ AllSplit("client")'
    <3>1. Flow("client")' = Append(Flow("client"), m)
      BY <1>1, <1>2, <1>3, <1>6, <1>14, SendAppends
    <3> QED BY <1>2, <1>3, <1>6, <1>7, <1>8, <3>1, AppendSide
  <2>2. FlowSound("server")' /\ AllSplit("server")'
    <3>1. Flow("server")' = Flow("server")
      BY <1>1, <1>2, <1>3, <1>14, SendKeeps
    <3> QED BY <1>2, <1>3, <1>6, <1>7, <1>8, <3>1, KeepSide
  <2>3. writing' \in [Sides -> Seq(Messages)] /\ \A s \in Sides : Len(writing'[s]) <= 1
    BY <1>2, <1>3, <1>6, <1>14, SendType
  <2>4. \A s \in Sides : FlowSound(s)' /\ AllSplit(s)'
    BY <1>2, <2>1, <2>2
  <2> QED BY <1>12, <1>14, <2>3, <2>4
<1> QED BY <1>1, <1>13, <1>14

\* UDP_PACKET is taken: what it carries is a request the server has read.
LEMMA TakePacket ==
  ASSUME NEW side \in Sides, IInv, batch[side] # <<>>, batch[side][1].type = "UDP_PACKET",
         Pop(side), UNCHANGED <<tcpVars, writing, wire, requests>>
  PROVE  /\ \A s \in Sides : FlowSound(s)' /\ AllSplit(s)'
         /\ batch' \in [Sides -> Seq(Messages)]
         /\ batch[side][1].item \in DOMAIN requests
<1> DEFINE o == Other(side)
<1>1. o \in Sides /\ o # side /\ Other(o) = side /\ \A s \in Sides : s = side \/ s = o
  BY OtherSide
<1>2. TypeOK /\ (\A s \in Sides : FlowSound(s) /\ AllSplit(s)) /\ RequestsGrow
      /\ \A s \in Sides : StreamsKept(s) /\ ReadKept(s)
  BY TcpKept DEF IInv, RequestsGrow
<1>3. /\ batch' \in [Sides -> Seq(Messages)] /\ batch'[o] = batch[o]
      /\ Flow(side) # <<>> /\ Flow(side)[1] = batch[side][1]
      /\ Flow(side)' = Tail(Flow(side))
  BY <1>2, PopFlow
<1>4. FlowSound(side)' /\ AllSplit(side)'
  <2>1. \A c \in open'[side] : ~IsData(Flow(side)[1], c)
    BY <1>3 DEF IsData
  <2> QED BY <1>2, <1>3, <2>1, TailSide
<1>5. FlowSound(o)' /\ AllSplit(o)'
  <2>1. Flow(o)' = Flow(o)
    BY <1>3 DEF Flow
  <2> HIDE DEF o
  <2> QED BY <1>1, <1>2, <2>1, KeepSide
<1>6. batch[side][1].item \in DOMAIN requests
  <2>1. 1 \in DOMAIN Flow(side)
    BY <1>2, <1>3, FlowType, LenProperties, EmptySeq
  <2> QED BY <1>2, <1>3, <2>1 DEF FlowSound
<1>7. \A s \in Sides : FlowSound(s)' /\ AllSplit(s)'
  BY <1>1, <1>4, <1>5
<1> QED BY <1>3, <1>6, <1>7

\* ClientUdpPacket takes a request, which the destination may answer.
LEMMA ClientUdpPacketInv ==
  ASSUME NEW responds \in BOOLEAN, IInv, ClientUdpPacket(responds)
  PROVE  IInv'
<1>1. /\ batch["client"] # <<>> /\ batch["client"][1].type = "UDP_PACKET" /\ Pop("client")
      /\ UNCHANGED <<tcpVars, writing, wire, requests, answers, last_udp_sender, has_udp_sender>>
      /\ responses' \in {responses, responses \cup {batch["client"][1].item}}
  BY DEF ClientUdpPacket, Front
<1>2. "client" \in Sides
  BY DEF Sides
<1>3. /\ \A s \in Sides : FlowSound(s)' /\ AllSplit(s)'
      /\ batch' \in [Sides -> Seq(Messages)]
      /\ batch["client"][1].item \in DOMAIN requests
  BY <1>1, <1>2, TakePacket
<1>4. responses' \subseteq DOMAIN requests'
  BY <1>1, <1>3 DEF IInv, TypeOK
<1>5. TypeOK'
  BY <1>1, <1>3, <1>4, TcpKept DEF IInv, TypeOK
<1>6. RightHost' /\ LastSender'
  BY <1>1 DEF IInv, RightHost, LastSender
<1> QED BY <1>1, <1>3, <1>5, <1>6, TcpKept DEF IInv

\* ServerUdpPacket sends a response to the last sender.
LEMMA ServerUdpPacketInv ==
  ASSUME IInv, ServerUdpPacket
  PROVE  IInv'
<1> DEFINE n == batch["server"][1].item
           a == [to |-> last_udp_sender, request |-> n]
<1>1. /\ batch["server"] # <<>> /\ batch["server"][1].type = "UDP_PACKET" /\ Pop("server")
      /\ UNCHANGED <<tcpVars, writing, wire, requests, responses, last_udp_sender, has_udp_sender>>
      /\ \/ UNCHANGED answers
         \/ has_udp_sender /\ answers' = Append(answers, a)
  BY DEF ServerUdpPacket, Front, SendTo
<1>2. "server" \in Sides
  BY DEF Sides
<1>3. /\ \A s \in Sides : FlowSound(s)' /\ AllSplit(s)'
      /\ batch' \in [Sides -> Seq(Messages)]
      /\ n \in DOMAIN requests
  BY <1>1, <1>2, TakePacket
<1>4. TypeOK /\ LastSender /\ RightHost
  BY DEF IInv
<1>5. answers' \in Seq([to : Hosts, request : DOMAIN requests]) /\ RightHost'
  <2>1. CASE UNCHANGED answers
    BY <1>1, <1>4, <2>1 DEF TypeOK, RightHost
  <2>2. CASE has_udp_sender /\ answers' = Append(answers, a)
    <3> HIDE DEF n
    <3>1. requests # <<>> /\ last_udp_sender = requests[Len(requests)]
      BY <1>4, <2>2 DEF LastSender
    <3>2. Len(requests) \in Nat \ {0} /\ DOMAIN requests = 1 .. Len(requests)
          /\ requests \in Seq(Hosts)
      BY <1>4, <3>1, EmptySeq, LenProperties DEF TypeOK
    <3>3. requests[Len(requests)] \in Hosts
      BY <3>2, ElementOfSeq
    <3>4. a \in [to : Hosts, request : DOMAIN requests]
      BY <1>3, <3>1, <3>3
    <3>5. answers \in Seq([to : Hosts, request : DOMAIN requests])
      BY <1>4 DEF TypeOK
    <3>6. /\ answers' \in Seq([to : Hosts, request : DOMAIN requests])
          /\ Len(answers') = Len(answers) + 1
          /\ \A i \in 1 .. Len(answers) : answers'[i] = answers[i]
          /\ answers'[Len(answers) + 1] = a
      BY <2>2, <3>4, <3>5, AppendProperties
    <3>7. Len(answers) \in Nat /\ DOMAIN answers = 1 .. Len(answers)
          /\ DOMAIN answers' = 1 .. Len(answers) + 1
      BY <3>5, <3>6, LenProperties
    <3>8. ASSUME NEW i \in DOMAIN answers'
          PROVE  \E j \in answers'[i].request .. Len(requests) : requests[j] = answers'[i].to
      <4>1. CASE i \in 1 .. Len(answers)
        BY <1>4, <3>6, <3>7, <4>1 DEF RightHost
      <4>2. CASE i = Len(answers) + 1
        <5>1. answers'[i].request = n /\ answers'[i].to = requests[Len(requests)]
          BY <3>1, <3>6, <4>2
        <5>2. Len(requests) \in n .. Len(requests)
          BY <1>3, <3>2
        <5> QED BY <5>1, <5>2
      <4> QED BY <3>7, <3>8, <4>1, <4>2
    <3> QED BY <1>1, <3>6, <3>8 DEF RightHost
  <2> QED BY <1>1, <2>1, <2>2
<1>6. LastSender'
  BY <1>1, <1>4 DEF LastSender
<1>7. TypeOK'
  BY <1>1, <1>3, <1>4, <1>5, TcpKept DEF TypeOK
<1> QED BY <1>1, <1>3, <1>5, <1>6, <1>7, TcpKept DEF IInv

\* ClientReadUdp puts a response in flight.
LEMMA ClientReadUdpInv ==
  ASSUME NEW n \in responses, IInv, ClientReadUdp(n)
  PROVE  IInv'
<1>1. /\ writing["client"] = <<>> /\ responses' = responses \ {n}
      /\ SendTunnel("client", Packet(n))
      /\ UNCHANGED <<tcpVars, batch, wire, requests, answers, last_udp_sender, has_udp_sender>>
  BY DEF ClientReadUdp, AtSelect
<1>2. /\ "server" \in Sides /\ "client" \in Sides
      /\ Other("server") = "client" /\ Other("client") = "server"
      /\ \A s \in Sides : s = "server" \/ s = "client"
  BY DEF Sides, Other
<1>3. TypeOK /\ (\A s \in Sides : FlowSound(s) /\ AllSplit(s)) /\ RequestsGrow
      /\ \A s \in Sides : StreamsKept(s) /\ ReadKept(s)
  BY <1>1, TcpKept DEF IInv, RequestsGrow
<1>4. n \in DOMAIN requests /\ n \in Nat
  <2>1. n \in DOMAIN requests /\ requests \in Seq(Hosts)
    BY <1>3 DEF TypeOK
  <2> QED BY <2>1, LenProperties
<1>5. Packet(n) \in Messages /\ Packet(n).type = "UDP_PACKET" /\ Packet(n).item \in DOMAIN requests'
  BY <1>1, <1>4, MessageTypes
<1>6. FlowSound("server")' /\ AllSplit("server")'
  <2>1. Flow("server")' = Append(Flow("server"), Packet(n))
    BY <1>1, <1>2, <1>3, <1>5, SendAppends
  <2> QED BY <1>2, <1>3, <1>5, <2>1, AppendSide
<1>7. FlowSound("client")' /\ AllSplit("client")'
  <2>1. Flow("client")' = Flow("client")
    BY <1>1, <1>2, <1>3, SendKeeps
  <2> QED BY <1>2, <1>3, <2>1, KeepSide
<1>8. writing' \in [Sides -> Seq(Messages)] /\ \A s \in Sides : Len(writing'[s]) <= 1
  BY <1>1, <1>2, <1>3, <1>5, SendType
<1>9. TypeOK'
  BY <1>1, <1>3, <1>8, TcpKept DEF TypeOK
<1>10. RightHost' /\ LastSender'
  BY <1>1 DEF IInv, RightHost, LastSender
<1>11. \A s \in Sides : FlowSound(s)' /\ AllSplit(s)'
  BY <1>2, <1>6, <1>7
<1> QED BY <1>1, <1>9, <1>10, <1>11, TcpKept DEF IInv

-----------------------------------------------------------------------------
\* A step that changes nothing keeps the invariant.
LEMMA StutterInv == ASSUME IInv, UNCHANGED vars PROVE IInv'
<1>1. UNCHANGED tcpVars /\ UNCHANGED udpVars /\ UNCHANGED writing /\ UNCHANGED batch
      /\ UNCHANGED wire
  BY DEF vars
<1>2. \A s \in Sides : FlowSound(s)' /\ AllSplit(s)'
  <2> TAKE s \in Sides
  <2>1. Flow(s)' = Flow(s)
    BY <1>1 DEF Flow
  <2> QED BY <1>1, <2>1, KeepSide, TcpKept, UdpKept DEF IInv
<1>3. TypeOK'
  BY <1>1, TcpKept, UdpKept DEF IInv, TypeOK
<1> QED BY <1>1, <1>2, <1>3, TcpKept, UdpKept DEF IInv

\* Every step keeps the invariant.
LEMMA NextInv == ASSUME IInv, Next PROVE IInv'
<1>1. ASSUME NEW side \in Sides, NEW c \in Conns, PeerReads(side, c) PROVE IInv'
  BY <1>1, PeerReadsInv
<1>2. ASSUME NEW side \in Sides, Thread(side) PROVE IInv'
  <2>1. CASE WriteTunnel(side)
    BY <2>1, WriteTunnelInv
  <2>2. CASE ReadTunnel(side)
    BY <2>2, ReadTunnelInv
  <2>3. CASE HandleData(side)
    BY <2>3, HandleDataInv
  <2>4. CASE HandleUnknown(side)
    BY <2>4, HandleUnknownInv
  <2>5. CASE HandleClose(side)
    BY <2>5, HandleCloseInv
  <2>6. CASE \E c \in Conns : ReadConn(side, c)
    BY <2>6, ReadConnInv
  <2>7. CASE ServerUdp
    BY <2>7, ServerUdpPacketInv, ServerReadUdpInv DEF ServerUdp
  <2>8. CASE ClientUdp
    BY <2>8, ClientUdpPacketInv, ClientReadUdpInv DEF ClientUdp
  <2> QED BY <1>2, <2>1, <2>2, <2>3, <2>4, <2>5, <2>6, <2>7, <2>8 DEF Thread
<1> QED BY <1>1, <1>2 DEF Next

\* The invariant holds in every reachable state.
LEMMA Inductive == Spec => []IInv
<1>1. Init => IInv
  BY InitInv
<1>2. IInv /\ [Next]_vars => IInv'
  BY NextInv, StutterInv
<1> QED BY <1>1, <1>2, PTL DEF Spec

\* The state of the two programs, of the tunnel and of the peers has the types and
\* the bounds of TypeOK, for any sizes of the buffers.
THEOREM TypeCorrect == Spec => []TypeOK
<1>1. IInv => TypeOK
  BY DEF IInv
<1> QED BY <1>1, Inductive, PTL

\* What a peer gets of a connection is a beginning of what the other side sent: no
\* unit is lost, repeated or out of order, although TCPSocket::send may write a part.
THEOREM StreamCorrect == Spec => []StreamWhole
<1>1. IInv => StreamWhole
  BY DEF IInv
<1> QED BY <1>1, Inductive, PTL

\* A response goes to the host that sent the last datagram, which has sent one
\* since the request was read.
THEOREM ResponseCorrect == Spec => []RightHost
<1>1. IInv => RightHost
  BY DEF IInv
<1> QED BY <1>1, Inductive, PTL

=============================================================================
