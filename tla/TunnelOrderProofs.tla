------------------------- MODULE TunnelOrderProofs -------------------------
(***************************************************************************)
(* For any sessions, bounds and faults but a new start of the server: what *)
(* a peer receives is in order, nothing twice.                             *)
(***************************************************************************)
EXTENDS TunnelSystemProofs

-----------------------------------------------------------------------------
(* Order in a sequence of messages.                                        *)

Data(m, s) == m.type = TCP_DATA /\ m.session = s

\* Items of one session come in increasing order.
Rising(q) ==
  \A s \in Sessions : \A i, j \in DOMAIN q :
    i < j /\ Data(q[i], s) /\ Data(q[j], s) => q[i].item < q[j].item

\* They have been read, and are after all that was received.
Ahead(q, got, read) ==
  \A s \in Sessions : \A m \in Range(q) :
    Data(m, s) => m.item <= read[s] /\ \A k \in DOMAIN got[s] : got[s][k][2] < m.item

GotRising(got, read) ==
  \A s \in Sessions : \A i \in DOMAIN got[s] :
    got[s][i][2] <= read[s] /\ \A j \in DOMAIN got[s] : i < j => got[s][i][2] < got[s][j][2]

\* p is q without its first, or without any number of the last.
Thins(p, q) == \E d \in {0, 1} : \A i \in DOMAIN p : i + d \in DOMAIN q /\ p[i] = q[i + d]

\* A sequence that loses messages at either end stays in order.
LEMMA ThinRising ==
  ASSUME NEW S, NEW q \in Seq(S), NEW p \in Seq(S), Thins(p, q)
  PROVE  (Rising(q) => Rising(p)) /\ Range(p) \subseteq Range(q) /\ (q = <<>> => p = <<>>)
<1>1. PICK d \in {0, 1} : \A i \in DOMAIN p : i + d \in DOMAIN q /\ p[i] = q[i + d]
  BY DEF Thins
<1>2. DOMAIN p = 1 .. Len(p) /\ Len(p) \in Nat
  BY LenProperties
<1>3. Range(p) \subseteq Range(q)
  BY <1>1 DEF Range
<1>4. ASSUME Rising(q) PROVE Rising(p)
  <2> SUFFICES ASSUME NEW s \in Sessions, NEW i \in DOMAIN p, NEW j \in DOMAIN p,
                      i < j, Data(p[i], s), Data(p[j], s)
               PROVE  p[i].item < p[j].item
    BY DEF Rising
  <2>1. i + d < j + d
    BY <1>2
  <2> QED BY <1>1, <1>4, <2>1 DEF Rising
<1>5. ASSUME q = <<>> PROVE p = <<>>
  <2>1. DOMAIN p = {}
    <3>1. DOMAIN q = {}
      BY <1>5
    <3> QED BY <1>1, <3>1
  <2>2. Len(p) = 0
    BY <1>2, <2>1
  <2> QED BY <2>2, EmptySeq
<1> QED BY <1>3, <1>4, <1>5

LEMMA TailThins ==
  ASSUME NEW S, NEW q \in Seq(S), q # <<>>
  PROVE  Thins(Tail(q), q)
<1>1. /\ Tail(q) \in Seq(S) /\ Len(Tail(q)) = Len(q) - 1
      /\ \A i \in 1 .. Len(Tail(q)) : Tail(q)[i] = q[i + 1]
  BY HeadTailProperties
<1>2. Len(q) \in Nat /\ DOMAIN q = 1 .. Len(q) /\ DOMAIN Tail(q) = 1 .. Len(q) - 1
  BY <1>1, LenProperties
<1>3. \A i \in 1 .. Len(q) - 1 : i + 1 \in 1 .. Len(q)
  BY <1>2
<1> QED BY <1>1, <1>2, <1>3 DEF Thins

LEMMA BeginningThins ==
  ASSUME NEW S, NEW q \in Seq(S), NEW p \in Beginnings(q) \cup {q, <<>>}
  PROVE  p \in Seq(S) /\ Thins(p, q)
<1>1. \A i \in DOMAIN q : i + 0 = i
  BY LenProperties
<1>2. CASE p = q
  BY <1>1, <1>2 DEF Thins
<1>3. CASE p = <<>>
  BY <1>3, NoMessages DEF Thins
<1>4. CASE p \in Beginnings(q)
  <2>1. PICK k \in 0 .. Len(q) : p = SubSeq(q, 1, k)
    BY <1>4 DEF Beginnings
  <2>2. Len(q) \in Nat /\ DOMAIN q = 1 .. Len(q) /\ \A i \in 1 .. Len(q) : q[i] \in S
    BY LenProperties, ElementOfSeq
  <2>3. 1 \in Int /\ k \in Int /\ k \in Nat /\ \A i \in 1 .. k : q[i] \in S /\ i \in 1 .. Len(q)
    BY <2>2
  <2>4. /\ p \in Seq(S) /\ Len(p) = IF 1 <= k THEN k - 1 + 1 ELSE 0
        /\ \A i \in 1 .. k - 1 + 1 : p[i] = q[1 + i - 1]
    BY <2>1, <2>3, SubSeqProperties
  <2>5. DOMAIN p = 1 .. k /\ \A i \in 1 .. k : p[i] = q[i + 0] /\ i + 0 \in 1 .. Len(q)
    BY <2>3, <2>4, LenProperties
  <2> QED BY <2>2, <2>4, <2>5 DEF Thins
<1> QED BY <1>2, <1>3, <1>4

\* A message is added that comes after those of its session.
LEMMA AppendRising ==
  ASSUME NEW S, NEW q \in Seq(S), NEW m \in S, Rising(q),
         \A s \in Sessions : \A x \in Range(q) : Data(x, s) /\ Data(m, s) => x.item < m.item
  PROVE  Rising(Append(q, m))
<1> DEFINE p == Append(q, m)
<1>1. /\ Len(p) = Len(q) + 1 /\ p \in Seq(S)
      /\ \A i \in 1 .. Len(q) : p[i] = q[i]
      /\ p[Len(q) + 1] = m
  BY AppendProperties
<1>2. Len(q) \in Nat /\ DOMAIN q = 1 .. Len(q) /\ DOMAIN p = 1 .. Len(q) + 1
  BY <1>1, LenProperties
<1> HIDE DEF p
<1> SUFFICES ASSUME NEW s \in Sessions, NEW i \in DOMAIN p, NEW j \in DOMAIN p,
                    i < j, Data(p[i], s), Data(p[j], s)
             PROVE  p[i].item < p[j].item
  BY DEF Rising, p
<1>3. i \in 1 .. Len(q) /\ (j \in 1 .. Len(q) \/ j = Len(q) + 1)
  BY <1>2
<1>4. CASE j \in 1 .. Len(q)
  BY <1>1, <1>2, <1>3, <1>4 DEF Rising
<1>5. CASE j = Len(q) + 1
  <2>1. p[i] = q[i] /\ p[j] = m /\ q[i] \in Range(q)
    BY <1>1, <1>2, <1>3, <1>5 DEF Range
  <2> QED BY <2>1
<1> QED BY <1>3, <1>4, <1>5

\* The first message is before those of its session that remain.
LEMMA HeadFirst ==
  ASSUME NEW S, NEW q \in Seq(S), q # <<>>, Rising(q), NEW s \in Sessions, Data(Head(q), s),
         NEW x \in Range(Tail(q)), Data(x, s)
  PROVE  Head(q).item < x.item
<1>1. /\ Tail(q) \in Seq(S) /\ Len(Tail(q)) = Len(q) - 1
      /\ \A i \in 1 .. Len(Tail(q)) : Tail(q)[i] = q[i + 1]
  BY HeadTailProperties
<1>2. /\ Len(q) \in Nat /\ DOMAIN q = 1 .. Len(q) /\ DOMAIN Tail(q) = 1 .. Len(q) - 1
      /\ Head(q) = q[1]
  BY <1>1, LenProperties
<1>3. PICK i \in 1 .. Len(q) - 1 : x = Tail(q)[i]
  BY <1>2 DEF Range
<1>4. x = q[i + 1] /\ 1 < i + 1 /\ i + 1 \in 1 .. Len(q) /\ 1 \in 1 .. Len(q)
  BY <1>1, <1>2, <1>3
<1> QED BY <1>2, <1>4 DEF Rising

-----------------------------------------------------------------------------
(* Order on the way: the strengthening of InOrder.                         *)

\* A tunnel carries something only while the server has it or will accept it.
HeldOK == \A t \in Tunnels : toServer[t] # <<>> => t = serverTunnel \/ t \in Range(backlog)

ToClientOrder ==
  /\ Rising(toClient) /\ Ahead(toClient, destGot, outRead) /\ GotRising(destGot, outRead)

ToServerOrder ==
  /\ GotRising(outGot, destRead)
  /\ \A t \in Tunnels : Rising(toServer[t]) /\ Ahead(toServer[t], outGot, destRead)
  /\ \A t, u \in Tunnels : t < u =>
       \A m \in Range(toServer[t]), n \in Range(toServer[u]), s \in Sessions :
         Data(m, s) /\ Data(n, s) => m.item < n.item

OrderInv == HeldOK /\ ToClientOrder /\ ToServerOrder

\* The variables of one direction, their types, and how two of them change.
Typed(q, got, read, max, bound) ==
  /\ max \in Nat /\ bound \in Nat /\ q \in Seq(Carried(max))
  /\ got \in [Sessions -> Seq(Sessions \X (1 .. max))] /\ read \in [Sessions -> 0 .. bound]
Counted(read, s, more) == more = [read EXCEPT ![s] = read[s] + 1]
Added(got, s, n, new) == new = [got EXCEPT ![s] = Append(got[s], <<s, n>>)]

-----------------------------------------------------------------------------
(* What a step does to one direction: it may lose messages, add one that   *)
(* is no data, read an item and perhaps send it, or deliver the first.     *)

ClientLoses == Thins(toClient', toClient) /\ UNCHANGED <<outRead, destGot>>
ClientIsTold ==
  /\ \E m \in Carried(MaxOut) : m.type # TCP_DATA /\ toClient' = Append(toClient, m)
  /\ UNCHANGED <<outRead, destGot>>
OutsideIsRead ==
  /\ UNCHANGED destGot
  /\ \E s \in Sessions :
       /\ Counted(outRead, s, outRead')
       /\ \/ Thins(toClient', toClient)
          \/ \E m \in Carried(MaxOut) :
               Data(m, s) /\ m.item = outRead[s] + 1 /\ toClient' = Append(toClient, m)
DestReceives ==
  /\ toClient # <<>> /\ toClient' = Tail(toClient) /\ UNCHANGED outRead
  /\ \E s \in Sessions :
       /\ Data(ClientMsg, s)
       /\ Added(destGot, s, ClientMsg.item, destGot')

ToClientMove == ClientLoses \/ ClientIsTold \/ OutsideIsRead \/ DestReceives

ServerLoses == (\A t \in Tunnels : Thins(toServer'[t], toServer[t])) /\ UNCHANGED <<destRead, outGot>>
ClientSends(m) ==
  /\ clientTunnel = tunnels /\ tunnels \in Tunnels /\ ~ClientCut
  /\ toServer' = [toServer EXCEPT ![tunnels] = Append(toServer[tunnels], m)]
ServerIsTold ==
  /\ \E m \in Carried(MaxDest) : m.type # TCP_DATA /\ ClientSends(m)
  /\ UNCHANGED <<destRead, outGot>>
DestIsRead ==
  /\ UNCHANGED outGot
  /\ \E s \in Sessions :
       /\ Counted(destRead, s, destRead')
       /\ \/ \A t \in Tunnels : Thins(toServer'[t], toServer[t])
          \/ \E m \in Carried(MaxDest) : Data(m, s) /\ m.item = destRead[s] + 1 /\ ClientSends(m)
OutsideReceives ==
  /\ serverTunnel \in Tunnels /\ toServer[serverTunnel] # <<>>
  /\ toServer' = [toServer EXCEPT ![serverTunnel] = Tail(toServer[serverTunnel])]
  /\ UNCHANGED destRead
  /\ \E s \in Sessions :
       /\ Data(ServerMsg, s)
       /\ Added(outGot, s, ServerMsg.item, outGot')

ToServerMove == ServerLoses \/ ServerIsTold \/ DestIsRead \/ OutsideReceives

-----------------------------------------------------------------------------
(* Each such step keeps the order.                                         *)

LEMMA CarriedItem == ASSUME NEW max, NEW m \in Carried(max) PROVE m.item \in Nat
BY DEF Carried

LEMMA ThinAhead ==
  ASSUME NEW p, NEW q, NEW got, NEW read, Range(p) \subseteq Range(q), Ahead(q, got, read)
  PROVE  Ahead(p, got, read)
BY DEF Ahead

\* More is read: what was ahead still is.
LEMMA ReadAhead ==
  ASSUME NEW q, NEW got, NEW read, NEW max, NEW bound, Typed(q, got, read, max, bound),
         NEW s \in Sessions, NEW more, Counted(read, s, more),
         Ahead(q, got, read), GotRising(got, read)
  PROVE  Ahead(q, got, more) /\ GotRising(got, more)
<1>0. /\ max \in Nat /\ bound \in Nat /\ q \in Seq(Carried(max))
      /\ got \in [Sessions -> Seq(Sessions \X (1 .. max))] /\ read \in [Sessions -> 0 .. bound]
      /\ more = [read EXCEPT ![s] = read[s] + 1]
  BY DEF Typed, Counted
<1> USE <1>0
<1>1. \A r \in Sessions : read[r] \in Int /\ more[r] \in Int /\ read[r] <= more[r]
  <2> TAKE r \in Sessions
  <2>1. read[r] \in Int /\ (more[r] = read[r] \/ more[r] = read[r] + 1)
    OBVIOUS
  <2> QED BY <2>1
<1>2. \A m \in Range(q) : m.item \in Int
  BY ElementOfSeq, LenProperties, CarriedItem DEF Range
<1>3. \A r \in Sessions : \A i \in DOMAIN got[r] : got[r][i][2] \in Int
  <2> TAKE r \in Sessions
  <2>1. got[r] \in Seq(Sessions \X (1 .. max))
    OBVIOUS
  <2>2. \A i \in DOMAIN got[r] : got[r][i] \in Sessions \X (1 .. max)
    BY <2>1, ElementOfSeq, LenProperties
  <2> QED BY <2>2
<1>4. \A a, b, c \in Int : a <= b /\ b <= c => a <= c
  OBVIOUS
<1>5. Ahead(q, got, more)
  BY <1>1, <1>2, <1>4, Zenon DEF Ahead
<1>6. GotRising(got, more)
  BY <1>1, <1>3, <1>4, Zenon DEF GotRising
<1> QED BY <1>5, <1>6

\* The item n is after what was received, and before what is to come.
IsNext(q, got, read, s, n) ==
  /\ GotRising(got, read) /\ n <= read[s] /\ \A k \in DOMAIN got[s] : got[s][k][2] < n
  /\ Ahead(q, got, read) /\ \A m \in Range(q) : Data(m, s) => n < m.item

LEMMA ReceiveRising ==
  ASSUME NEW q, NEW got, NEW read, NEW max, NEW bound, Typed(q, got, read, max, bound),
         NEW s \in Sessions, NEW n \in 1 .. max, NEW new, Added(got, s, n, new),
         IsNext(q, got, read, s, n)
  PROVE  GotRising(new, read) /\ Ahead(q, new, read)
<1>0. /\ max \in Nat /\ bound \in Nat /\ q \in Seq(Carried(max))
      /\ got \in [Sessions -> Seq(Sessions \X (1 .. max))] /\ read \in [Sessions -> 0 .. bound]
      /\ new = [got EXCEPT ![s] = Append(got[s], <<s, n>>)]
  BY DEF Typed, Added
<1> USE <1>0
<1> USE DEF IsNext
<1> DEFINE e == <<s, n>>
<1>1. e \in Sessions \X (1 .. max) /\ e[2] = n
  OBVIOUS
<1>2. new[s] = Append(got[s], e) /\ got[s] \in Seq(Sessions \X (1 .. max))
      /\ \A r \in Sessions : r # s => new[r] = got[r]
  OBVIOUS
<1> HIDE DEF e
<1>3. /\ Len(got[s]) \in Nat
      /\ DOMAIN new[s] = 1 .. Len(got[s]) + 1 /\ DOMAIN got[s] = 1 .. Len(got[s])
      /\ \A i \in 1 .. Len(got[s]) : new[s][i] = got[s][i]
      /\ new[s][Len(got[s]) + 1] = e
  BY <1>1, <1>2, AppendProperties, LenProperties
<1>4. \A i \in DOMAIN new[s] :
        \/ i \in DOMAIN got[s] /\ new[s][i] = got[s][i]
        \/ i = Len(got[s]) + 1 /\ new[s][i][2] = n
  <2>1. \A i \in DOMAIN new[s] : i \in DOMAIN got[s] \/ i = Len(got[s]) + 1
    <3>1. \A l \in Nat : \A i \in 1 .. l + 1 : i \in 1 .. l \/ i = l + 1
      OBVIOUS
    <3> QED BY <1>3, <3>1
  <2>2. new[s][Len(got[s]) + 1][2] = n
    BY <1>1, <1>3
  <2> QED BY <1>3, <2>1, <2>2
<1>5. ASSUME NEW i \in DOMAIN new[s]
      PROVE  new[s][i][2] <= read[s] /\ \A j \in DOMAIN new[s] : i < j => new[s][i][2] < new[s][j][2]
  <2>1. CASE i = Len(got[s]) + 1 /\ new[s][i][2] = n
    <3>1. \A j \in DOMAIN new[s] : ~(i < j)
      BY <1>3, <2>1
    <3> QED BY <2>1, <3>1
  <2>2. CASE i \in DOMAIN got[s] /\ new[s][i] = got[s][i]
    <3>1. got[s][i][2] <= read[s] /\ got[s][i][2] < n
      BY <2>2 DEF GotRising
    <3>2. ASSUME NEW j \in DOMAIN new[s], i < j PROVE new[s][i][2] < new[s][j][2]
      <4>1. CASE j \in DOMAIN got[s] /\ new[s][j] = got[s][j]
        BY <2>2, <3>2, <4>1 DEF GotRising
      <4>2. CASE new[s][j][2] = n
        BY <2>2, <3>1, <4>2
      <4> QED BY <1>4, <4>1, <4>2
    <3> QED BY <2>2, <3>1, <3>2
  <2> QED BY <1>4, <2>1, <2>2
<1>6. GotRising(new, read)
  BY <1>2, <1>5 DEF GotRising
<1>7. Ahead(q, new, read)
  <2> SUFFICES ASSUME NEW r \in Sessions, NEW m \in Range(q), Data(m, r)
               PROVE  m.item <= read[r] /\ \A k \in DOMAIN new[r] : new[r][k][2] < m.item
    BY DEF Ahead
  <2>1. m.item <= read[r] /\ \A k \in DOMAIN got[r] : got[r][k][2] < m.item
    BY DEF Ahead
  <2>2. CASE r = s
    BY <1>4, <2>1, <2>2
  <2>3. CASE r # s
    BY <1>2, <2>1, <2>3
  <2> QED BY <2>2, <2>3
<1> QED BY <1>6, <1>7

\* The item just read is sent: it comes after all that is on the way.
LEMMA SentRising ==
  ASSUME NEW q, NEW got, NEW read, NEW max, NEW bound, Typed(q, got, read, max, bound),
         NEW m \in Carried(max), NEW s \in Sessions, Data(m, s), m.item = read[s] + 1,
         NEW more, Counted(read, s, more),
         Rising(q), Ahead(q, got, read), GotRising(got, read)
  PROVE  Rising(Append(q, m)) /\ Ahead(Append(q, m), got, more)
<1>0. /\ max \in Nat /\ bound \in Nat /\ q \in Seq(Carried(max))
      /\ got \in [Sessions -> Seq(Sessions \X (1 .. max))] /\ read \in [Sessions -> 0 .. bound]
      /\ more = [read EXCEPT ![s] = read[s] + 1]
  BY DEF Typed, Counted
<1> USE <1>0
<1>1. \A x \in Range(q) : x.item \in Int
  BY ElementOfSeq, LenProperties, CarriedItem DEF Range
<1>2. \A r \in Sessions : Data(m, r) => r = s
  BY DEF Data
<1>3. read[s] \in Int /\ more[s] = read[s] + 1
  OBVIOUS
<1>4. \A x \in Range(q) : Data(x, s) => x.item < m.item
  BY <1>1, <1>3 DEF Ahead
<1>5. Rising(Append(q, m))
  BY <1>2, <1>4, AppendRising
<1>6. Range(Append(q, m)) = Range(q) \cup {m}
  BY AppendRange
<1>7. \A k \in DOMAIN got[s] : got[s][k][2] < m.item
  <2> TAKE k \in DOMAIN got[s]
  <2>1. got[s] \in Seq(Sessions \X (1 .. max))
    OBVIOUS
  <2>2. got[s][k] \in Sessions \X (1 .. max)
    BY <2>1, ElementOfSeq, LenProperties
  <2>3. got[s][k][2] \in Int /\ got[s][k][2] <= read[s]
    BY <2>2 DEF GotRising
  <2> QED BY <1>3, <2>3
<1>8. Ahead(q, got, more)
  BY ReadAhead
<1>9. m.item <= more[s]
  BY <1>3
<1> QED BY <1>2, <1>5, <1>6, <1>7, <1>8, <1>9 DEF Ahead

LEMMA ToClientStep ==
  ASSUME TypeInv, WireOK', ToClientOrder, ToClientMove
  PROVE  ToClientOrder'
<1>1. /\ toClient \in Seq(Carried(MaxOut)) /\ toClient' \in Seq(Carried(MaxOut))
      /\ destGot \in [Sessions -> Seq(Sessions \X (1 .. MaxOut))]
      /\ Typed(toClient, destGot, outRead, MaxOut, MaxOut)
      /\ Typed(toClient', destGot, outRead, MaxOut, MaxOut)
  BY LimitsAssumption DEF TypeInv, WireOK, PeersOK, Typed
<1>2. Rising(toClient) /\ Ahead(toClient, destGot, outRead) /\ GotRising(destGot, outRead)
  BY DEF ToClientOrder
<1>3. ASSUME Thins(toClient', toClient)
      PROVE  Rising(toClient') /\ Range(toClient') \subseteq Range(toClient)
  BY <1>1, <1>2, <1>3, ThinRising
<1>4. CASE ClientLoses
  <2>1. Ahead(toClient', destGot, outRead) /\ UNCHANGED <<outRead, destGot>>
    BY <1>2, <1>3, <1>4, ThinAhead DEF ClientLoses
  <2> QED BY <1>2, <1>3, <1>4, <2>1 DEF ClientLoses, ToClientOrder
<1>5. CASE ClientIsTold
  <2>1. PICK m \in Carried(MaxOut) : m.type # TCP_DATA /\ toClient' = Append(toClient, m)
    BY <1>5 DEF ClientIsTold
  <2>2. \A s \in Sessions : ~Data(m, s)
    BY <2>1 DEF Data
  <2>3. Rising(toClient') /\ Range(toClient') = Range(toClient) \cup {m}
    BY <1>1, <1>2, <2>1, <2>2, AppendRising, AppendRange
  <2>4. Ahead(toClient', destGot, outRead)
    BY <1>2, <2>2, <2>3 DEF Ahead
  <2> QED BY <1>2, <1>5, <2>3, <2>4 DEF ClientIsTold, ToClientOrder
<1>6. CASE OutsideIsRead
  <2>1. PICK s \in Sessions :
          /\ Counted(outRead, s, outRead')
          /\ \/ Thins(toClient', toClient)
             \/ \E m \in Carried(MaxOut) :
                  Data(m, s) /\ m.item = outRead[s] + 1 /\ toClient' = Append(toClient, m)
    BY <1>6 DEF OutsideIsRead
  <2>2. UNCHANGED destGot
    BY <1>6 DEF OutsideIsRead
  <2>3. Ahead(toClient, destGot, outRead') /\ GotRising(destGot, outRead')
    BY ONLY <1>1, <1>2, <2>1, ReadAhead
  <2>4. CASE Thins(toClient', toClient)
    <3>1. Ahead(toClient', destGot, outRead')
      BY <1>3, <2>3, <2>4, ThinAhead
    <3> QED BY <1>3, <2>2, <2>3, <2>4, <3>1 DEF ToClientOrder
  <2>5. ASSUME NEW m \in Carried(MaxOut), Data(m, s), m.item = outRead[s] + 1,
               toClient' = Append(toClient, m)
        PROVE  Rising(toClient') /\ Ahead(toClient', destGot, outRead')
    <3>1. Rising(Append(toClient, m)) /\ Ahead(Append(toClient, m), destGot, outRead')
      BY ONLY <1>1, <1>2, <2>1, <2>5, SentRising
    <3> QED BY <2>5, <3>1
  <2> QED BY <2>1, <2>2, <2>3, <2>4, <2>5 DEF ToClientOrder
<1>7. CASE DestReceives
  <2>1. /\ toClient # <<>> /\ toClient' = Tail(toClient) /\ outRead' = outRead
        /\ ClientMsg = Head(toClient)
    BY <1>7 DEF DestReceives, ClientMsg
  <2>2. PICK s \in Sessions :
          /\ Data(ClientMsg, s)
          /\ Added(destGot, s, ClientMsg.item, destGot')
    BY <1>7 DEF DestReceives
  <2>3. Head(toClient) \in Carried(MaxOut) /\ Head(toClient) \in Range(toClient)
    BY <1>1, <2>1, TailRange
  <2>4. Rising(toClient') /\ Ahead(toClient', destGot, outRead)
    BY <1>1, <1>2, <1>3, <2>1, TailThins, ThinAhead
  <2>5. \A m \in Range(toClient') : Data(m, s) => Head(toClient).item < m.item
    BY <1>1, <1>2, <2>1, <2>2, HeadFirst
  <2> DEFINE n == ClientMsg.item
  <2>6. /\ n \in 1 .. MaxOut /\ n <= outRead[s] /\ \A k \in DOMAIN destGot[s] : destGot[s][k][2] < n
    BY <1>2, <2>1, <2>2, <2>3 DEF Ahead, Data, Carried
  <2>7. Added(destGot, s, n, destGot')
        /\ \A m \in Range(toClient') : Data(m, s) => n < m.item
    BY <2>1, <2>2, <2>5
  <2> HIDE DEF n
  <2>8. GotRising(destGot', outRead) /\ Ahead(toClient', destGot', outRead)
    <3>1. IsNext(toClient', destGot, outRead, s, n)
      BY <1>2, <2>4, <2>6, <2>7 DEF IsNext
    <3> QED BY ONLY <1>1, <2>6, <2>7, <3>1, ReceiveRising
  <2> QED BY <2>1, <2>4, <2>8 DEF ToClientOrder
<1> QED BY <1>4, <1>5, <1>6, <1>7 DEF ToClientMove

\* What is in flight is between the tunnel of the server and the last of the client.
LEMMA HeldBetween ==
  ASSUME TypeInv, HeldOK, NEW t \in Tunnels, toServer[t] # <<>>
  PROVE  serverTunnel <= t /\ t <= tunnels
<1>1. CASE t = serverTunnel
  BY <1>1 DEF TypeInv, TunnelsOK
<1>2. CASE t \in Range(backlog)
  <2>1. PICK i \in DOMAIN backlog : t = backlog[i]
    BY <1>2 DEF Range
  <2>2. backlog \in Seq(1 .. tunnels) /\ serverTunnel < backlog[i] /\ serverTunnel \in Nat
    BY DEF TypeInv, TunnelsOK
  <2>3. backlog[i] \in 1 .. tunnels
    BY <2>2, ElementOfSeq, LenProperties
  <2> QED BY <2>1, <2>2, <2>3
<1> QED BY <1>1, <1>2 DEF HeldOK

\* The order between the tunnels: what the client sends later comes on a later one.
InTurn(q) ==
  \A t, u \in Tunnels : t < u =>
    \A m \in Range(q[t]), n \in Range(q[u]), s \in Sessions :
      Data(m, s) /\ Data(n, s) => m.item < n.item

LEMMA ThinnerInTurn ==
  ASSUME NEW p, NEW q, \A t \in Tunnels : Range(p[t]) \subseteq Range(q[t]), InTurn(q)
  PROVE  InTurn(p)
BY DEF InTurn

\* The client adds to the last tunnel.
LEMMA SendInTurn ==
  ASSUME TypeInv, HeldOK, ToServerOrder, NEW m \in Carried(MaxDest), ClientSends(m),
         \A s \in Sessions : Data(m, s) => m.item = destRead[s] + 1
  PROVE  InTurn(toServer')
<1>1. /\ toServer \in [Tunnels -> Seq(Carried(MaxDest))] /\ tunnels \in Tunnels
      /\ toServer' = [toServer EXCEPT ![tunnels] = Append(toServer[tunnels], m)]
      /\ destRead \in [Sessions -> 0 .. MaxDest]
  BY DEF TypeInv, WireOK, PeersOK, ClientSends
<1>2. /\ Range(toServer'[tunnels]) = Range(toServer[tunnels]) \cup {m}
      /\ \A t \in Tunnels : t # tunnels => toServer'[t] = toServer[t]
  BY <1>1, AppendRange
<1>3. ASSUME NEW t \in Tunnels, NEW x \in Range(toServer[t]), NEW s \in Sessions, Data(x, s), Data(m, s)
      PROVE  x.item < m.item
  <2>1. x.item <= destRead[s]
    BY <1>3 DEF ToServerOrder, Ahead
  <2>2. toServer[t] \in Seq(Carried(MaxDest))
    BY <1>1
  <2>3. x \in Carried(MaxDest)
    BY <1>3, <2>2, ElementOfSeq, LenProperties DEF Range
  <2>4. x.item \in Int /\ m.item = destRead[s] + 1 /\ destRead[s] \in Int
    BY <1>1, <1>3, <2>3, CarriedItem
  <2> QED BY <2>1, <2>4
<1>4. \A u \in Tunnels : tunnels < u => Range(toServer[u]) = {}
  <2> TAKE u \in Tunnels
  <2>1. tunnels \in Int /\ u \in Int
    BY <1>1, LimitsAssumption DEF Tunnels
  <2>2. tunnels < u => toServer[u] = <<>>
    BY <2>1, HeldBetween
  <2> QED BY <2>2, NoMessages
<1> SUFFICES ASSUME NEW t \in Tunnels, NEW u \in Tunnels, t < u, NEW s \in Sessions,
                    NEW x \in Range(toServer'[t]), NEW y \in Range(toServer'[u]), Data(x, s), Data(y, s)
             PROVE  x.item < y.item
  BY DEF InTurn
<1>5. CASE t = tunnels
  <2>1. tunnels \in Int /\ u \in Int /\ tunnels < u
    BY <1>1, <1>5, LimitsAssumption DEF Tunnels
  <2>2. toServer'[u] = toServer[u] /\ Range(toServer[u]) = {}
    BY <1>2, <1>4, <2>1
  <2>3. y \in {}
    BY <2>2
  <2> QED BY <2>3
<1>6. CASE t # tunnels /\ u = tunnels /\ y = m
  BY <1>2, <1>3, <1>6
<1>7. CASE x \in Range(toServer[t]) /\ y \in Range(toServer[u])
  BY <1>7 DEF ToServerOrder
<1> QED BY <1>2, <1>5, <1>6, <1>7

LEMMA ToServerStep ==
  ASSUME TypeInv, WireOK', HeldOK, ToServerOrder, ToServerMove
  PROVE  ToServerOrder'
<1>1. /\ toServer \in [Tunnels -> Seq(Carried(MaxDest))]
      /\ \A t \in Tunnels :
           /\ toServer[t] \in Seq(Carried(MaxDest)) /\ toServer'[t] \in Seq(Carried(MaxDest))
           /\ Typed(toServer[t], outGot, destRead, MaxDest, MaxDest)
           /\ Typed(toServer'[t], outGot, destRead, MaxDest, MaxDest)
  BY LimitsAssumption DEF TypeInv, WireOK, PeersOK, Typed
<1>2. /\ GotRising(outGot, destRead) /\ InTurn(toServer)
      /\ \A t \in Tunnels : Rising(toServer[t]) /\ Ahead(toServer[t], outGot, destRead)
  BY DEF ToServerOrder, InTurn
<1>3. \A t \in Tunnels :
        Thins(toServer'[t], toServer[t])
          => Rising(toServer'[t]) /\ Range(toServer'[t]) \subseteq Range(toServer[t])
  BY <1>1, <1>2, ThinRising
<1>4. ASSUME GotRising(outGot', destRead'), InTurn(toServer'),
             \A t \in Tunnels : Rising(toServer'[t]) /\ Ahead(toServer'[t], outGot', destRead')
      PROVE  ToServerOrder'
  BY <1>4 DEF ToServerOrder, InTurn
<1>5. ASSUME \A t \in Tunnels : Thins(toServer'[t], toServer[t])
      PROVE  InTurn(toServer')
  BY <1>2, <1>3, <1>5, ThinnerInTurn
<1>6. CASE ServerLoses
  <2>1. \A t \in Tunnels : Ahead(toServer'[t], outGot, destRead)
    BY <1>2, <1>3, <1>6, ThinAhead DEF ServerLoses
  <2> QED BY <1>2, <1>3, <1>4, <1>5, <1>6, <2>1 DEF ServerLoses
<1>7. CASE ServerIsTold
  <2>1. PICK m \in Carried(MaxDest) : m.type # TCP_DATA /\ ClientSends(m)
    BY <1>7 DEF ServerIsTold
  <2>2. (\A s \in Sessions : ~Data(m, s)) /\ UNCHANGED <<destRead, outGot>>
    BY <1>7, <2>1 DEF Data, ServerIsTold
  <2>3. InTurn(toServer')
    BY <2>1, <2>2, SendInTurn
  <2>4. ASSUME NEW t \in Tunnels PROVE Rising(toServer'[t]) /\ Ahead(toServer'[t], outGot, destRead)
    <3>1. CASE toServer'[t] = toServer[t]
      BY <1>2, <3>1
    <3>2. CASE toServer'[t] = Append(toServer[t], m)
      <4>1. Rising(toServer'[t]) /\ Range(toServer'[t]) = Range(toServer[t]) \cup {m}
        BY <1>1, <1>2, <2>2, <3>2, AppendRising, AppendRange
      <4> QED BY <1>2, <2>2, <4>1 DEF Ahead
    <3> QED BY <1>1, <2>1, <3>1, <3>2 DEF ClientSends
  <2> QED BY <1>2, <1>4, <2>2, <2>3, <2>4
<1>8. CASE DestIsRead
  <2>1. PICK s \in Sessions :
          /\ Counted(destRead, s, destRead')
          /\ \/ \A t \in Tunnels : Thins(toServer'[t], toServer[t])
             \/ \E m \in Carried(MaxDest) : Data(m, s) /\ m.item = destRead[s] + 1 /\ ClientSends(m)
    BY <1>8 DEF DestIsRead
  <2>2. UNCHANGED outGot
    BY <1>8 DEF DestIsRead
  <2>3. ASSUME NEW t \in Tunnels PROVE Ahead(toServer[t], outGot, destRead') /\ GotRising(outGot, destRead')
    BY ONLY <1>1, <1>2, <2>1, <2>3, ReadAhead
  <2>4. GotRising(outGot, destRead')
    <3>1. 1 \in Tunnels
      BY LimitsAssumption DEF Tunnels
    <3> QED BY <2>3, <3>1
  <2>5. CASE \A t \in Tunnels : Thins(toServer'[t], toServer[t])
    <3>1. \A t \in Tunnels : Ahead(toServer'[t], outGot, destRead')
      BY <1>3, <2>3, <2>5, ThinAhead
    <3> QED BY <1>3, <1>4, <1>5, <2>2, <2>4, <2>5, <3>1
  <2>6. ASSUME NEW m \in Carried(MaxDest), Data(m, s), m.item = destRead[s] + 1, ClientSends(m)
        PROVE  ToServerOrder'
    <3>1. \A r \in Sessions : Data(m, r) => m.item = destRead[r] + 1
      BY <2>6 DEF Data
    <3>2. InTurn(toServer')
      BY <2>6, <3>1, SendInTurn
    <3>3. ASSUME NEW t \in Tunnels PROVE Rising(toServer'[t]) /\ Ahead(toServer'[t], outGot, destRead')
      <4>1. CASE toServer'[t] = toServer[t]
        BY <1>2, <2>3, <4>1
      <4>2. CASE toServer'[t] = Append(toServer[t], m)
        <5>1. Rising(Append(toServer[t], m)) /\ Ahead(Append(toServer[t], m), outGot, destRead')
          BY ONLY <1>1, <1>2, <2>1, <2>6, <3>3, SentRising
        <5> QED BY <4>2, <5>1
      <4> QED BY <1>1, <2>6, <4>1, <4>2 DEF ClientSends
    <3> QED BY <1>4, <2>2, <2>4, <3>2, <3>3
  <2> QED BY <2>1, <2>5, <2>6
<1>9. CASE OutsideReceives
  <2> DEFINE q == toServer[serverTunnel]
  <2>1. /\ serverTunnel \in Tunnels /\ q # <<>> /\ ServerMsg = Head(q) /\ destRead' = destRead
        /\ toServer'[serverTunnel] = Tail(q)
        /\ \A t \in Tunnels : t # serverTunnel => toServer'[t] = toServer[t]
    BY <1>1, <1>9 DEF OutsideReceives, ServerMsg
  <2>2. PICK s \in Sessions : Data(ServerMsg, s) /\ Added(outGot, s, ServerMsg.item, outGot')
    BY <1>9 DEF OutsideReceives
  <2>3. Head(q) \in Carried(MaxDest) /\ Head(q) \in Range(q) /\ Thins(Tail(q), q)
    BY <1>1, <2>1, TailRange, TailThins
  <2>4. \A t \in Tunnels : Thins(toServer'[t], toServer[t])
    <3> TAKE t \in Tunnels
    <3>1. CASE t = serverTunnel
      BY <2>1, <2>3, <3>1
    <3>2. CASE t # serverTunnel
      BY <1>1, <2>1, <3>2, BeginningThins
    <3> QED BY <3>1, <3>2
  <2>5. \A t \in Tunnels : Rising(toServer'[t]) /\ Ahead(toServer'[t], outGot, destRead)
    BY <1>2, <1>3, <2>4, ThinAhead
  <2>6. ASSUME NEW t \in Tunnels, NEW x \in Range(toServer'[t]), Data(x, s)
        PROVE  Head(q).item < x.item
    <3>1. CASE t = serverTunnel
      BY <1>1, <1>2, <2>1, <2>2, <2>6, <3>1, HeadFirst
    <3>2. CASE t # serverTunnel
      <4>1. x \in Range(toServer[t]) /\ toServer[t] # <<>>
        BY <2>1, <2>6, <3>2, NoMessages
      <4>2. serverTunnel < t
        <5>1. serverTunnel <= t /\ serverTunnel \in Int /\ t \in Int
          BY <2>1, <4>1, HeldBetween, LimitsAssumption DEF Tunnels
        <5> QED BY <3>2, <5>1
      <4> QED BY <1>2, <2>1, <2>2, <2>3, <2>6, <4>1, <4>2 DEF InTurn
    <3> QED BY <3>1, <3>2
  <2> DEFINE n == ServerMsg.item
  <2>7. /\ n \in 1 .. MaxDest /\ n <= destRead[s] /\ \A k \in DOMAIN outGot[s] : outGot[s][k][2] < n
    BY <1>2, <2>1, <2>2, <2>3 DEF Ahead, Data, Carried
  <2>8. Added(outGot, s, n, outGot')
        /\ \A t \in Tunnels : \A x \in Range(toServer'[t]) : Data(x, s) => n < x.item
    BY <2>1, <2>2, <2>6
  <2> HIDE DEF n
  <2>9. \A t \in Tunnels : GotRising(outGot', destRead) /\ Ahead(toServer'[t], outGot', destRead)
    <3> TAKE t \in Tunnels
    <3>1. /\ Typed(toServer'[t], outGot, destRead, MaxDest, MaxDest)
          /\ IsNext(toServer'[t], outGot, destRead, s, n)
      BY <1>1, <1>2, <2>5, <2>7, <2>8 DEF IsNext
    <3> QED BY ONLY <3>1, <2>7, <2>8, ReceiveRising
  <2> QED BY <1>4, <1>5, <2>1, <2>4, <2>5, <2>9
<1> QED BY <1>6, <1>7, <1>8, <1>9 DEF ToServerMove

-----------------------------------------------------------------------------
(* Every step is such a step.                                              *)

LEMMA ClientQueueThins ==
  ASSUME TypeInv,
         \/ toClient' \in Beginnings(toClient) \cup {toClient, <<>>}
         \/ toClient # <<>> /\ toClient' = Tail(toClient)
  PROVE  Thins(toClient', toClient)
<1>1. toClient \in Seq(Carried(MaxOut))
  BY DEF TypeInv, WireOK
<1> QED BY <1>1, TailThins, BeginningThins

LEMMA ServerQueuesThin ==
  ASSUME TypeInv,
         \A t \in Tunnels :
           \/ toServer'[t] \in Beginnings(toServer[t]) \cup {toServer[t], <<>>}
           \/ toServer[t] # <<>> /\ toServer'[t] = Tail(toServer[t])
  PROVE  \A t \in Tunnels : Thins(toServer'[t], toServer[t])
<1> TAKE t \in Tunnels
<1>1. toServer[t] \in Seq(Carried(MaxDest))
  BY DEF TypeInv, WireOK
<1> QED BY <1>1, TailThins, BeginningThins

\* An end of the tunnel is closed, a program ends, or nothing is sent.
LEMMA CloseServerEndThins ==
  ASSUME TypeInv, NEW u, CloseServerEnd(u)
  PROVE  Thins(toClient', toClient) /\ \A t \in Tunnels : Thins(toServer'[t], toServer[t])
BY ClientQueueThins, ServerQueuesThin DEF CloseServerEnd, LoseToClient

LEMMA CutThins ==
  ASSUME TypeInv, clientTunnel \in Tunnels, NEW q \in Beginnings(toServer[clientTunnel]),
         toServer' = [toServer EXCEPT ![clientTunnel] = q]
  PROVE  \A t \in Tunnels : Thins(toServer'[t], toServer[t])
<1>1. \A t \in Tunnels : toServer'[t] = IF t = clientTunnel THEN q ELSE toServer[t]
  BY DEF TypeInv, WireOK
<1>2. \A t \in Tunnels : toServer'[t] \in Beginnings(toServer[t]) \cup {toServer[t], <<>>}
  BY <1>1
<1> QED BY <1>2, ServerQueuesThin

LEMMA CloseClientEndThins ==
  ASSUME TypeInv, CloseClientEnd
  PROVE  Thins(toClient', toClient) /\ \A t \in Tunnels : Thins(toServer'[t], toServer[t])
<1>1. Thins(toClient', toClient)
  BY ClientQueueThins DEF CloseClientEnd
<1>2. CASE UNCHANGED toServer
  BY <1>1, <1>2, ServerQueuesThin
<1>3. CASE clientTunnel # 0
  <2>1. clientTunnel \in Tunnels
    BY <1>3, HeldTunnels DEF TypeInv
  <2>2. PICK q \in Beginnings(toServer[clientTunnel]) :
          toServer' = [toServer EXCEPT ![clientTunnel] = q]
    BY <1>3 DEF CloseClientEnd, LoseToServer
  <2> QED BY <1>1, <2>1, <2>2, CutThins
<1> QED BY <1>2, <1>3 DEF CloseClientEnd

LEMMA ServerStopsThins ==
  ASSUME TypeInv, ServerStops
  PROVE  Thins(toClient', toClient) /\ \A t \in Tunnels : Thins(toServer'[t], toServer[t])
BY ClientQueueThins, ServerQueuesThin DEF ServerStops, LoseToClient

LEMMA WireKeptThins ==
  ASSUME TypeInv
  PROVE  /\ UNCHANGED toClient => Thins(toClient', toClient)
         /\ UNCHANGED toServer => \A t \in Tunnels : Thins(toServer'[t], toServer[t])
BY ClientQueueThins, ServerQueuesThin

LEMMA ClientTold ==
  ASSUME TypeInv, NEW m \in Carried(MaxOut), m.type # TCP_DATA, NEW ok, SendToClient(m, ok),
         UNCHANGED <<outRead, destGot>>
  PROVE  ToClientMove
<1>1. UNCHANGED toClient \/ toClient' = Append(toClient, m)
  BY DEF SendToClient
<1> QED BY <1>1, WireKeptThins DEF ToClientMove, ClientLoses, ClientIsTold

\* What the client sends goes to its tunnel, the last, unless that is cut.
LEMMA ClientSendsOrNot ==
  ASSUME TypeInv, InLoop, NEW m, NEW ok, SendToServer(m, ok)
  PROVE  UNCHANGED toServer \/ ClientSends(m)
<1>1. clientTunnel = tunnels /\ clientTunnel \in Tunnels
  BY HeldTunnels DEF TypeInv, TunnelsOK
<1> QED BY <1>1 DEF SendToServer, ClientSends

LEMMA ServerTold ==
  ASSUME TypeInv, InLoop, NEW m \in Carried(MaxDest), m.type # TCP_DATA, NEW ok, SendToServer(m, ok),
         UNCHANGED <<destRead, outGot>>
  PROVE  ToServerMove
<1>1. UNCHANGED toServer \/ ClientSends(m)
  BY ClientSendsOrNot
<1> QED BY <1>1, WireKeptThins DEF ToServerMove, ServerLoses, ServerIsTold

LEMMA ServerSideToClient ==
  ASSUME TypeInv, Server
  PROVE  ToClientMove
<1>0. PeersOK /\ TablesOK
  BY DEF TypeInv
<1>1. ASSUME Thins(toClient', toClient), UNCHANGED <<outRead, destGot>> PROVE ToClientMove
  BY <1>1 DEF ToClientMove, ClientLoses
<1>2. ASSUME UNCHANGED <<toClient, outRead, destGot>> PROVE ToClientMove
  BY <1>1, <1>2, WireKeptThins
<1>3. CASE AcceptTunnel \/ ServerTunnelEnd
  BY <1>1, <1>3, CloseServerEndThins DEF AcceptTunnel, ServerTunnelEnd, outsideVars, destVars
<1>4. CASE ServerTcpClose \/ ServerUdpPacket
  BY <1>2, <1>4 DEF ServerTcpClose, ServerUdpPacket, outsideVars, destVars
<1>5. ASSUME NEW s \in Sessions, RejectOutside(s) PROVE ToClientMove
  BY <1>2, <1>5 DEF RejectOutside, destVars, tunnelVars
<1>6. ASSUME NEW ok \in BOOLEAN, ServerReadUdp(ok) PROVE ToClientMove
  <2> DEFINE m == Message(UDP_PACKET, 0, None, 0)
  <2>1. UNCHANGED <<outRead, destGot>> /\ (UNCHANGED toClient \/ SendToClient(m, ok) \/ CloseServerEnd(serverTunnel))
    BY <1>6 DEF ServerReadUdp, outsideVars, destVars
  <2>2. m \in Carried(MaxOut) /\ m.type # TCP_DATA
    BY MessageCarried DEF UDP_PACKET, TCP_DATA, Message
  <2> HIDE DEF m
  <2> QED BY <1>1, <1>2, <2>1, <2>2, ClientTold, CloseServerEndThins
<1>7. ASSUME NEW s \in Sessions, NEW ok \in BOOLEAN, AcceptOutside(s, ok) PROVE ToClientMove
  <2> DEFINE m == Message(TCP_OPEN, next_conn_id, s, 0)
  <2>1. UNCHANGED <<outRead, destGot>> /\ SendToClient(m, ok) /\ s \in Waiting
    BY <1>7 DEF AcceptOutside, destVars, Waiting
  <2>2. next_conn_id \in ConnIds
    BY <2>1, NumberLeft DEF TypeInv
  <2>3. m \in Carried(MaxOut) /\ m.type # TCP_DATA
    BY <2>2, MessageCarried DEF UDP_PACKET, TCP_DATA, TCP_OPEN, Message
  <2> HIDE DEF m
  <2> QED BY <2>1, <2>3, ClientTold
<1>8. ASSUME NEW id \in ConnIds, NEW ok \in BOOLEAN, ReadOutside(id, ok) PROVE ToClientMove
  <2> DEFINE s == serverConns[id]
             m == Message(TCP_DATA, id, s, outRead[s] + 1)
  <2>1. /\ s # None /\ outRead[s] < outSent[s] /\ Counted(outRead, s, outRead') /\ UNCHANGED destGot
        /\ SendToClient(m, ok) \/ UNCHANGED toClient
    BY <1>8 DEF ReadOutside, ServerHas, destVars, Counted
  <2>2. s \in Sessions
    BY <1>0, <2>1 DEF TablesOK
  <2>3. outRead[s] + 1 \in 1 .. MaxOut /\ outRead[s] + 1 \in Nat
    BY <1>0, <2>1, <2>2, LimitsAssumption DEF PeersOK
  <2>4. m \in Carried(MaxOut) /\ Data(m, s) /\ m.item = outRead[s] + 1
    BY <2>2, <2>3, MessageCarried DEF UDP_PACKET, TCP_DATA, Message, Data
  <2> HIDE DEF m, s
  <2>5. Thins(toClient', toClient) \/ toClient' = Append(toClient, m)
    BY <2>1, WireKeptThins DEF SendToClient
  <2> QED BY <2>1, <2>2, <2>4, <2>5 DEF ToClientMove, OutsideIsRead
<1>9. ASSUME NEW id \in ConnIds, NEW ok \in BOOLEAN, ReadOutsideEnd(id, ok) PROVE ToClientMove
  <2> DEFINE m == Message(TCP_CLOSE, id, serverConns[id], 0)
  <2>1. /\ UNCHANGED <<outRead, destGot>> /\ serverConns[id] # None
        /\ SendToClient(m, ok) \/ UNCHANGED toClient
    BY <1>9 DEF ReadOutsideEnd, ServerHas, destVars, outsideVars
  <2>2. serverConns[id] \in Sessions
    BY <1>0, <2>1 DEF TablesOK
  <2>3. m \in Carried(MaxOut) /\ m.type # TCP_DATA
    BY <2>2, MessageCarried DEF UDP_PACKET, TCP_DATA, TCP_CLOSE, Message
  <2> HIDE DEF m
  <2> QED BY <1>2, <2>1, <2>3, ClientTold
<1>10. ASSUME NEW wrote \in BOOLEAN, NEW ok \in BOOLEAN, ServerTcpData(wrote, ok) PROVE ToClientMove
  <2> DEFINE id == ServerMsg.conn_id
             m == Message(TCP_CLOSE, id, serverConns[id], 0)
  <2>1. /\ UNCHANGED <<outRead, destGot>> /\ ServerHead(TCP_DATA) /\ ServerPop
        /\ UNCHANGED toClient \/ (serverConns[id] # None /\ SendToClient(m, ok))
    BY <1>10 DEF ServerTcpData, ServerHas, destVars
  <2>2. id \in ConnIds
    <3>1. ServerMsg \in Carried(MaxDest) /\ ServerMsg.type = TCP_DATA
      BY <2>1, ServerHeadWire DEF TCP_DATA
    <3> QED BY <3>1 DEF Carried, TCP_DATA, UDP_PACKET
  <2>3. CASE serverConns[id] # None /\ SendToClient(m, ok)
    <3>1. serverConns[id] \in Sessions
      BY <1>0, <2>2, <2>3 DEF TablesOK
    <3>2. m \in Carried(MaxOut) /\ m.type # TCP_DATA
      BY <2>2, <3>1, MessageCarried DEF UDP_PACKET, TCP_DATA, TCP_CLOSE, Message
    <3> HIDE DEF m, id
    <3> QED BY <2>1, <2>3, <3>2, ClientTold
  <2> QED BY <1>2, <2>1, <2>3
<1> QED BY <1>3, <1>4, <1>5, <1>6, <1>7, <1>8, <1>9, <1>10 DEF Server

LEMMA ClientSideToClient ==
  ASSUME TypeInv, KnownOnce, Client
  PROVE  ToClientMove
<1>1. ASSUME Thins(toClient', toClient), UNCHANGED <<outRead, destGot>> PROVE ToClientMove
  BY <1>1 DEF ToClientMove, ClientLoses
<1>2. ASSUME UNCHANGED <<toClient, outRead, destGot>> PROVE ToClientMove
  BY <1>1, <1>2, WireKeptThins
<1>3. ASSUME NEW type, ClientHead(type), ClientPop PROVE Thins(toClient', toClient)
  BY <1>3, ClientQueueThins DEF ClientHead, ClientPop
<1> USE DEF outsideVars, destVars
<1>4. CASE Connect
  BY <1>2, <1>4 DEF Connect
<1>5. CASE ConnectFails
  BY <1>1, <1>2, <1>5, CloseClientEndThins DEF ConnectFails, ClientStops
<1>6. CASE ClientTcpClose \/ ClientUdpPacket
  BY <1>1, <1>3, <1>6 DEF ClientTcpClose, ClientUdpPacket
<1>7. CASE ClientTunnelEnd
  BY <1>1, <1>7, CloseClientEndThins DEF ClientTunnelEnd, LeaveLoop
<1>8. ASSUME NEW ok \in BOOLEAN, ClientReadUdp(ok) PROVE ToClientMove
  BY <1>1, <1>2, <1>8, CloseClientEndThins DEF ClientReadUdp, LeaveLoop
<1>9. ASSUME NEW b \in BOOLEAN, NEW ok \in BOOLEAN, ClientTcpOpen(b, ok) PROVE ToClientMove
  BY <1>1, <1>3, <1>9 DEF ClientTcpOpen
<1>10. ASSUME NEW wrote \in BOOLEAN, NEW ok \in BOOLEAN, ClientTcpData(wrote, ok) PROVE ToClientMove
  <2>1. ClientHead(TCP_DATA) /\ ClientPop /\ UNCHANGED outRead
    BY <1>10 DEF ClientTcpData
  <2>2. CASE UNCHANGED destGot
    BY <1>1, <1>3, <2>1, <2>2
  <2>3. CASE ~UNCHANGED destGot
    <3> DEFINE s == clientConns[ClientMsg.conn_id]
    <3>1. /\ s \in Sessions /\ s = ClientMsg.session
          /\ destGot' = [destGot EXCEPT ![s] = Append(@, <<ClientMsg.session, ClientMsg.item>>)]
      BY <1>10, <2>3, ClientDelivers DEF KnownOnce
    <3> HIDE DEF s
    <3>2. Data(ClientMsg, s) /\ Added(destGot, s, ClientMsg.item, destGot')
      BY <2>1, <3>1 DEF Data, Added, ClientHead, ClientMsg
    <3> QED BY <2>1, <3>1, <3>2 DEF ToClientMove, DestReceives, ClientHead, ClientPop
  <2> QED BY <2>2, <2>3
<1>11. ASSUME NEW id \in ConnIds, NEW ok \in BOOLEAN, ReadDest(id, ok) PROVE ToClientMove
  BY <1>1, <1>2, <1>11, CloseClientEndThins DEF ReadDest, LeaveLoop
<1>12. ASSUME NEW id \in ConnIds, NEW ok \in BOOLEAN, ReadDestEnd(id, ok) PROVE ToClientMove
  BY <1>2, <1>12 DEF ReadDestEnd
<1> QED BY <1>4, <1>5, <1>6, <1>7, <1>8, <1>9, <1>10, <1>11, <1>12 DEF Client

LEMMA ServerSideToServer ==
  ASSUME TypeInv, KnownOnce, Server
  PROVE  ToServerMove
<1>1. ASSUME \A t \in Tunnels : Thins(toServer'[t], toServer[t]), UNCHANGED <<destRead, outGot>>
      PROVE  ToServerMove
  BY <1>1 DEF ToServerMove, ServerLoses
<1>2. ASSUME UNCHANGED <<toServer, destRead, outGot>> PROVE ToServerMove
  BY <1>1, <1>2, WireKeptThins
<1>3. ASSUME NEW type, ServerHead(type), ServerPop
      PROVE  /\ serverTunnel \in Tunnels /\ toServer[serverTunnel] # <<>> /\ ServerMsg.type = type
             /\ \A t \in Tunnels : Thins(toServer'[t], toServer[t])
             /\ toServer' = [toServer EXCEPT ![serverTunnel] = Tail(toServer[serverTunnel])]
  <2>1. serverTunnel \in Tunnels /\ toServer[serverTunnel] # <<>> /\ ServerMsg.type = type
    BY <1>3, HeldTunnels DEF ServerHead, ServerMsg, TypeInv
  <2>2. /\ toServer' = [toServer EXCEPT ![serverTunnel] = Tail(toServer[serverTunnel])]
        /\ toServer \in [Tunnels -> Seq(Carried(MaxDest))]
    BY <1>3 DEF ServerPop, TypeInv, WireOK
  <2>3. \A t \in Tunnels : toServer'[t] = IF t = serverTunnel THEN Tail(toServer[serverTunnel]) ELSE toServer[t]
    BY <2>2
  <2> QED BY <2>1, <2>2, <2>3, ServerQueuesThin
<1> USE DEF outsideVars, destVars
<1>4. CASE AcceptTunnel \/ ServerTunnelEnd
  BY <1>1, <1>4, CloseServerEndThins DEF AcceptTunnel, ServerTunnelEnd
<1>5. CASE ServerTcpClose \/ ServerUdpPacket
  BY <1>1, <1>3, <1>5 DEF ServerTcpClose, ServerUdpPacket
<1>6. ASSUME NEW s \in Sessions, RejectOutside(s) PROVE ToServerMove
  BY <1>2, <1>6 DEF RejectOutside, tunnelVars
<1>7. ASSUME NEW ok \in BOOLEAN, ServerReadUdp(ok) PROVE ToServerMove
  BY <1>1, <1>2, <1>7, CloseServerEndThins DEF ServerReadUdp
<1>8. ASSUME NEW s \in Sessions, NEW ok \in BOOLEAN, AcceptOutside(s, ok) PROVE ToServerMove
  BY <1>2, <1>8 DEF AcceptOutside
<1>9. ASSUME NEW id \in ConnIds, NEW ok \in BOOLEAN, ReadOutside(id, ok) \/ ReadOutsideEnd(id, ok)
      PROVE  ToServerMove
  BY <1>2, <1>9 DEF ReadOutside, ReadOutsideEnd
<1>10. ASSUME NEW wrote \in BOOLEAN, NEW ok \in BOOLEAN, ServerTcpData(wrote, ok) PROVE ToServerMove
  <2>1. ServerHead(TCP_DATA) /\ ServerPop /\ UNCHANGED destRead
    BY <1>10 DEF ServerTcpData
  <2>2. CASE UNCHANGED outGot
    BY <1>1, <1>3, <2>1, <2>2
  <2>3. CASE ~UNCHANGED outGot
    <3> DEFINE s == serverConns[ServerMsg.conn_id]
    <3>1. /\ s \in Sessions /\ s = ServerMsg.session
          /\ outGot' = [outGot EXCEPT ![s] = Append(@, <<ServerMsg.session, ServerMsg.item>>)]
      BY <1>10, <2>3, ServerDelivers DEF KnownOnce
    <3> HIDE DEF s
    <3>2. Data(ServerMsg, s) /\ Added(outGot, s, ServerMsg.item, outGot')
      BY <1>3, <2>1, <3>1 DEF Data, Added
    <3> QED BY <1>3, <2>1, <3>1, <3>2 DEF ToServerMove, OutsideReceives
  <2> QED BY <2>2, <2>3
<1> QED BY <1>4, <1>5, <1>6, <1>7, <1>8, <1>9, <1>10 DEF Server

LEMMA ClientSideToServer ==
  ASSUME TypeInv, Client
  PROVE  ToServerMove
<1>0. PeersOK /\ TablesOK
  BY DEF TypeInv
<1>1. ASSUME \A t \in Tunnels : Thins(toServer'[t], toServer[t]), UNCHANGED <<destRead, outGot>>
      PROVE  ToServerMove
  BY <1>1 DEF ToServerMove, ServerLoses
<1>2. ASSUME UNCHANGED <<toServer, destRead, outGot>> PROVE ToServerMove
  BY <1>1, <1>2, WireKeptThins
<1>3. ASSUME NEW id \in ConnIds, NEW s \in Sessions
      PROVE  Message(TCP_CLOSE, id, s, 0) \in Carried(MaxDest) /\ Message(TCP_CLOSE, id, s, 0).type # TCP_DATA
  BY MessageCarried DEF UDP_PACKET, TCP_DATA, TCP_CLOSE, Message
<1> USE DEF outsideVars, destVars
<1>4. CASE Connect
  BY <1>2, <1>4 DEF Connect
<1>5. CASE ConnectFails
  BY <1>1, <1>2, <1>5, CloseClientEndThins DEF ConnectFails, ClientStops
<1>6. CASE ClientTcpClose \/ ClientUdpPacket
  BY <1>2, <1>6 DEF ClientTcpClose, ClientUdpPacket
<1>7. CASE ClientTunnelEnd
  BY <1>1, <1>7, CloseClientEndThins DEF ClientTunnelEnd, LeaveLoop
<1>8. ASSUME NEW ok \in BOOLEAN, ClientReadUdp(ok) PROVE ToServerMove
  <2> DEFINE m == Message(UDP_PACKET, 0, None, 0)
  <2>1. UNCHANGED <<destRead, outGot>> /\ (CloseClientEnd \/ (InLoop /\ SendToServer(m, ok)))
    BY <1>8 DEF ClientReadUdp, LeaveLoop
  <2>2. m \in Carried(MaxDest) /\ m.type # TCP_DATA
    BY MessageCarried DEF UDP_PACKET, TCP_DATA, Message
  <2> HIDE DEF m
  <2> QED BY <1>1, <2>1, <2>2, ServerTold, CloseClientEndThins
<1>9. ASSUME NEW b \in BOOLEAN, NEW ok \in BOOLEAN, ClientTcpOpen(b, ok) \/ ClientTcpData(b, ok)
      PROVE  ToServerMove
  <2> DEFINE id == ClientMsg.conn_id
             s == ClientMsg.session
             m == Message(TCP_CLOSE, id, s, 0)
  <2>1. /\ UNCHANGED <<destRead, outGot>> /\ ClientPop /\ InLoop
        /\ ClientHead(TCP_OPEN) \/ ClientHead(TCP_DATA)
        /\ UNCHANGED toServer \/ SendToServer(m, ok)
    BY <1>9 DEF ClientTcpOpen, ClientTcpData, ClientHead
  <2>2. id \in ConnIds /\ s \in Sessions
    <3>1. ClientMsg \in Carried(MaxOut) /\ ClientMsg.type # UDP_PACKET
      BY <2>1, ClientHeadWire DEF TCP_OPEN, TCP_DATA, UDP_PACKET
    <3> QED BY <3>1 DEF Carried
  <2>3. m \in Carried(MaxDest) /\ m.type # TCP_DATA
    BY <1>3, <2>2
  <2> HIDE DEF m
  <2> QED BY <1>2, <2>1, <2>3, ServerTold
<1>10. ASSUME NEW id \in ConnIds, NEW ok \in BOOLEAN, ReadDest(id, ok) PROVE ToServerMove
  <2> DEFINE s == clientConns[id]
             m == Message(TCP_DATA, id, s, destRead[s] + 1)
  <2>1. /\ s # None /\ destRead[s] < destSent[s] /\ Counted(destRead, s, destRead') /\ UNCHANGED outGot
        /\ InLoop /\ (SendToServer(m, ok) \/ CloseClientEnd)
    BY <1>10 DEF ReadDest, ClientHas, LeaveLoop, Counted
  <2>2. s \in Sessions
    BY <1>0, <2>1 DEF TablesOK
  <2>3. destRead[s] + 1 \in 1 .. MaxDest /\ destRead[s] + 1 \in Nat
    BY <1>0, <2>1, <2>2, LimitsAssumption DEF PeersOK
  <2>4. m \in Carried(MaxDest) /\ Data(m, s) /\ m.item = destRead[s] + 1
    BY <2>2, <2>3, MessageCarried DEF UDP_PACKET, TCP_DATA, Message, Data
  <2> HIDE DEF m, s
  <2>5. (\A t \in Tunnels : Thins(toServer'[t], toServer[t])) \/ ClientSends(m)
    BY <2>1, WireKeptThins, CloseClientEndThins, ClientSendsOrNot
  <2> QED BY <2>1, <2>2, <2>4, <2>5 DEF ToServerMove, DestIsRead
<1>11. ASSUME NEW id \in ConnIds, NEW ok \in BOOLEAN, ReadDestEnd(id, ok) PROVE ToServerMove
  <2> DEFINE m == Message(TCP_CLOSE, id, clientConns[id], 0)
  <2>1. UNCHANGED <<destRead, outGot>> /\ InLoop /\ SendToServer(m, ok) /\ clientConns[id] # None
    BY <1>11 DEF ReadDestEnd, ClientHas
  <2>2. m \in Carried(MaxDest) /\ m.type # TCP_DATA
    BY <1>0, <1>3, <2>1 DEF TablesOK
  <2> HIDE DEF m
  <2> QED BY <2>1, <2>2, ServerTold
<1> QED BY <1>4, <1>5, <1>6, <1>7, <1>8, <1>9, <1>10, <1>11 DEF Client

LEMMA Moves ==
  ASSUME TypeInv, KnownOnce, InStep
  PROVE  ToClientMove /\ ToServerMove
<1>1. ASSUME Thins(toClient', toClient), \A t \in Tunnels : Thins(toServer'[t], toServer[t]),
             UNCHANGED <<outRead, outGot, destRead, destGot>>
      PROVE  ToClientMove /\ ToServerMove
  BY <1>1 DEF ToClientMove, ClientLoses, ToServerMove, ServerLoses
<1>2. ASSUME UNCHANGED <<toClient, toServer, outRead, outGot, destRead, destGot>>
      PROVE  ToClientMove /\ ToServerMove
  BY <1>1, <1>2, WireKeptThins
<1> USE DEF outsideVars, destVars
<1>3. CASE Peers
  BY <1>2, <1>3 DEF Peers, OutsideConnect, OutsideSend, OutsideEnds, DestSend, DestEnds, tunnelVars
<1>4. CASE Server
  BY <1>4, ServerSideToClient, ServerSideToServer
<1>5. CASE Client
  BY <1>5, ClientSideToClient, ClientSideToServer
<1>6. CASE FaultStep
  <2>1. CASE Break
    <3>1. toClient' \in Beginnings(toClient) /\ clientTunnel \in Tunnels
      BY <2>1, HeldTunnels DEF Break, LoseToClient, TypeInv
    <3>2. PICK q \in Beginnings(toServer[clientTunnel]) :
            toServer' = [toServer EXCEPT ![clientTunnel] = q]
      BY <2>1 DEF Break, LoseToServer
    <3>3. Thins(toClient', toClient) /\ \A t \in Tunnels : Thins(toServer'[t], toServer[t])
      BY <3>1, <3>2, ClientQueueThins, CutThins
    <3> QED BY <1>1, <2>1, <3>3 DEF Break
  <2>2. CASE ServerSigpipe \/ KillServer
    BY <1>1, <2>2, ServerStopsThins DEF ServerSigpipe, KillServer
  <2>3. CASE ClientSigpipe \/ KillClient
    BY <1>1, <2>3, CloseClientEndThins DEF ClientSigpipe, KillClient, ClientStops
  <2>4. CASE StartServer \/ StartClient
    BY <1>2, <2>4 DEF StartServer, StartClient, tunnelVars
  <2> QED BY <1>6, <2>1, <2>2, <2>3, <2>4 DEF FaultStep
<1> QED BY <1>3, <1>4, <1>5, <1>6 DEF InStep

-----------------------------------------------------------------------------
(* The tunnels that carry something.                                       *)

\* What a tunnel carries it carried before, or it is the last and not cut.
LEMMA HeldByMove ==
  ASSUME TypeInv, WireOK', HeldOK, ToServerMove, serverTunnel' = serverTunnel,
         Range(backlog) \subseteq Range(backlog')
  PROVE  HeldOK'
<1>1. ASSUME NEW t \in Tunnels, toServer'[t] # <<>>
      PROVE  toServer[t] # <<>> \/ (t = clientTunnel /\ ~ClientCut)
  <2>1. /\ toServer[t] \in Seq(Carried(MaxDest)) /\ toServer'[t] \in Seq(Carried(MaxDest))
        /\ toServer \in [Tunnels -> Seq(Carried(MaxDest))]
    BY DEF TypeInv, WireOK
  <2>2. CASE Thins(toServer'[t], toServer[t])
    BY <1>1, <2>1, <2>2, ThinRising
  <2>3. ASSUME NEW m, ClientSends(m) PROVE toServer[t] # <<>> \/ (t = clientTunnel /\ ~ClientCut)
    BY <1>1, <2>1, <2>3 DEF ClientSends
  <2>4. CASE OutsideReceives
    BY <1>1, <2>1, <2>4 DEF OutsideReceives
  <2> QED BY <2>2, <2>3, <2>4 DEF ToServerMove, ServerLoses, ServerIsTold, DestIsRead
<1>2. ~ClientCut => clientTunnel = serverTunnel \/ clientTunnel \in Range(backlog)
  BY DEF ClientCut
<1> QED BY <1>1, <1>2 DEF HeldOK

\* The server closes its end: that tunnel carries nothing any more.
LEMMA HeldAccept == ASSUME TypeInv, HeldOK, AcceptTunnel PROVE HeldOK'
<1>1. /\ backlog # <<>> /\ serverTunnel' = Head(backlog) /\ backlog' = Tail(backlog)
      /\ toServer' = [u \in Tunnels |-> IF u = serverTunnel THEN <<>> ELSE toServer[u]]
      /\ backlog \in Seq(1 .. tunnels)
  BY DEF AcceptTunnel, CloseServerEnd, TypeInv, TunnelsOK
<1>2. \A t \in Range(backlog) : t = Head(backlog) \/ t \in Range(Tail(backlog))
  <2>1. /\ Tail(backlog) \in Seq(1 .. tunnels) /\ Len(Tail(backlog)) = Len(backlog) - 1
        /\ \A i \in 1 .. Len(Tail(backlog)) : Tail(backlog)[i] = backlog[i + 1]
    BY <1>1, HeadTailProperties
  <2>2. /\ Len(backlog) \in Nat /\ DOMAIN backlog = 1 .. Len(backlog)
        /\ DOMAIN Tail(backlog) = 1 .. Len(backlog) - 1 /\ Head(backlog) = backlog[1]
    BY <1>1, <2>1, LenProperties
  <2>3. ASSUME NEW i \in 1 .. Len(backlog), i # 1 PROVE backlog[i] \in Range(Tail(backlog))
    <3>1. i - 1 \in 1 .. Len(backlog) - 1 /\ (i - 1) + 1 = i
      BY <2>2, <2>3
    <3>2. Tail(backlog)[i - 1] = backlog[i]
      BY <2>1, <3>1
    <3> QED BY <2>2, <3>1, <3>2 DEF Range
  <2> QED BY <2>2, <2>3 DEF Range
<1> QED BY <1>1, <1>2 DEF HeldOK

LEMMA HeldClose ==
  ASSUME HeldOK, CloseServerEnd(serverTunnel), UNCHANGED backlog
  PROVE  HeldOK'
BY DEF HeldOK, CloseServerEnd

LEMMA HeldStep ==
  ASSUME TypeInv, WireOK', KnownOnce, HeldOK, InStep
  PROVE  HeldOK'
<1>1. ASSUME UNCHANGED <<serverTunnel, backlog>> PROVE HeldOK'
  BY <1>1, Moves, HeldByMove
<1>2. ASSUME CloseServerEnd(serverTunnel), UNCHANGED backlog PROVE HeldOK'
  BY <1>2, HeldClose
<1> USE DEF serverVars, tunnelVars
<1>3. CASE Peers
  BY <1>1, <1>3 DEF Peers, OutsideConnect, OutsideSend, OutsideEnds, DestSend, DestEnds
<1>4. CASE Server
  <2>1. CASE AcceptTunnel
    BY <2>1, HeldAccept
  <2>2. CASE ServerTunnelEnd
    BY <1>2, <2>2 DEF ServerTunnelEnd
  <2>3. ASSUME NEW ok \in BOOLEAN, ServerReadUdp(ok) PROVE HeldOK'
    BY <1>1, <1>2, <2>3 DEF ServerReadUdp
  <2>4. CASE ServerTcpClose \/ ServerUdpPacket
    BY <1>1, <2>4 DEF ServerTcpClose, ServerUdpPacket
  <2>5. ASSUME NEW s \in Sessions, RejectOutside(s) PROVE HeldOK'
    BY <1>1, <2>5 DEF RejectOutside
  <2>6. ASSUME NEW s \in Sessions, NEW ok \in BOOLEAN, AcceptOutside(s, ok) PROVE HeldOK'
    BY <1>1, <2>6 DEF AcceptOutside
  <2>7. ASSUME NEW id \in ConnIds, NEW ok \in BOOLEAN, ReadOutside(id, ok) \/ ReadOutsideEnd(id, ok)
        PROVE  HeldOK'
    BY <1>1, <2>7 DEF ReadOutside, ReadOutsideEnd
  <2>8. ASSUME NEW wrote \in BOOLEAN, NEW ok \in BOOLEAN, ServerTcpData(wrote, ok) PROVE HeldOK'
    BY <1>1, <2>8 DEF ServerTcpData
  <2> QED BY <1>4, <2>1, <2>2, <2>3, <2>4, <2>5, <2>6, <2>7, <2>8 DEF Server
<1>5. CASE Client
  <2>1. CASE Connect
    <3>1. serverTunnel' = serverTunnel /\ backlog' = Append(backlog, tunnels + 1)
      BY <2>1 DEF Connect
    <3>2. Range(backlog) \subseteq Range(backlog')
      <4>1. backlog \in Seq(Nat) /\ tunnels + 1 \in Nat
        <5>1. backlog \in Seq(1 .. tunnels) /\ tunnels \in Nat
          BY DEF TypeInv, TunnelsOK
        <5> QED BY <5>1, WiderSeq
      <4> QED BY <3>1, <4>1, AppendRange
    <3> QED BY <3>1, <3>2, Moves, HeldByMove
  <2>2. CASE ~Connect
    <3>1. UNCHANGED <<serverTunnel, backlog>>
      BY <1>5, <2>2 DEF Client, ConnectFails, ClientTcpClose, ClientUdpPacket, ClientTunnelEnd,
           ClientReadUdp, ClientTcpOpen, ClientTcpData, ReadDest, ReadDestEnd
    <3> QED BY <1>1, <3>1
  <2> QED BY <2>1, <2>2
<1>6. CASE FaultStep
  <2>1. CASE ServerSigpipe \/ KillServer
    BY <2>1 DEF ServerSigpipe, KillServer, ServerStops, HeldOK
  <2>2. CASE ~(ServerSigpipe \/ KillServer)
    <3>1. UNCHANGED <<serverTunnel, backlog>>
      BY <1>6, <2>2 DEF FaultStep, Break, ClientSigpipe, KillClient, StartServer, StartClient
    <3> QED BY <1>1, <3>1
  <2> QED BY <2>1, <2>2
<1> QED BY <1>3, <1>4, <1>5, <1>6 DEF InStep

-----------------------------------------------------------------------------
(* The invariant.                                                          *)

LEMMA OrderStep ==
  ASSUME TypeInv, WireOK', KnownOnce, OrderInv, InStep
  PROVE  OrderInv'
BY Moves, HeldStep, ToClientStep, ToServerStep DEF OrderInv

LEMMA OrderInit == ASSUME Init PROVE OrderInv
<1>1. DOMAIN <<>> = {} /\ Range(<<>>) = {}
  BY NoMessages
<1>2. HeldOK
  BY DEF Init, HeldOK
<1>3. ToClientOrder
  BY <1>1 DEF Init, ToClientOrder, Rising, Ahead, GotRising
<1>4. ToServerOrder
  BY <1>1 DEF Init, ToServerOrder, Rising, Ahead, GotRising
<1> QED BY <1>2, <1>3, <1>4 DEF OrderInv

LEMMA OrderStutter == ASSUME OrderInv, UNCHANGED vars PROVE OrderInv'
<1> USE DEF vars, outsideVars, destVars, serverVars, clientVars, tunnelVars, boundVars
<1>1. HeldOK'
  BY DEF OrderInv, HeldOK
<1>2. ToClientOrder'
  BY DEF OrderInv, ToClientOrder, Rising, Ahead, GotRising
<1>3. ToServerOrder'
  BY DEF OrderInv, ToServerOrder, Rising, Ahead, GotRising
<1> QED BY <1>1, <1>2, <1>3 DEF OrderInv

LEMMA OrderInductive ==
  ASSUME "startServer" \notin Faults
  PROVE  Spec => [](~misread => OrderInv)
<1> DEFINE J == ~misread => OrderInv
           B == TypeInv /\ (~misread => KnownOnce /\ OwnOnly)
<1>1. Init => J
  BY OrderInit
<1>2. ASSUME B, TypeInv', J, [Next]_vars PROVE J'
  <2> SUFFICES ASSUME ~misread' PROVE OrderInv'
    OBVIOUS
  <2>1. CASE Next
    BY <1>2, <2>1, InStepBefore, OrderStep DEF TypeInv
  <2>2. CASE UNCHANGED vars
    <3>1. ~misread
      BY <2>2 DEF vars, readVars
    <3> QED BY <1>2, <2>2, <3>1, OrderStutter
  <2> QED BY <1>2, <2>1, <2>2
<1>3. Spec => []B
  BY BindInductive DEF B
<1> HIDE DEF J, B
<1>4. B /\ TypeInv' /\ J /\ [Next]_vars => J'
  BY <1>2
<1>5. Spec => []J
  BY <1>1, <1>3, <1>4, TypeInductive, PTL DEF Spec
<1>6. J => (~misread => OrderInv)
  BY DEF J
<1> QED BY <1>5, <1>6, PTL

\* Over any number of lost tunnels and restarts of the client nothing is delivered twice or
\* out of order, in either direction, unless the server is started again, and until a message
\* that was lost in part is read on with the bytes of the next tunnel.
THEOREM Ordered ==
  ASSUME "startServer" \notin Faults
  PROVE  Spec => []InOrder
<1>1. (~misread => OrderInv) => InOrder
  BY DEF OrderInv, ToClientOrder, ToServerOrder, GotRising, InOrder
<1> QED BY <1>1, OrderInductive, PTL

=============================================================================
