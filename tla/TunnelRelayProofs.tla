------------------------- MODULE TunnelRelayProofs -------------------------
(***************************************************************************)
(* For any sessions, bounds and faults but a new start of the server, the  *)
(* two programs implement the service RelayService offers to the peers.    *)
(***************************************************************************)
EXTENDS TunnelLosslessProofs

-----------------------------------------------------------------------------
(* The steps of the service.                                               *)

LEMMA Sides ==
  /\ Relay!Other("outside") = "dest" /\ Relay!Other("dest") = "outside"
  /\ "outside" \in Relay!Sides /\ "dest" \in Relay!Sides
BY DEF Relay!Other, Relay!Sides

\* One entry of one side changes.
Sets(a, s, x, b) == b = [a EXCEPT ![s] = x]
InOutside(a, b, s, x) == [[outside |-> a, dest |-> b] EXCEPT !["outside"][s] = x]
InDest(a, b, s, x) == [[outside |-> a, dest |-> b] EXCEPT !["dest"][s] = x]

LEMMA OutsideChanges ==
  ASSUME NEW a, NEW b, NEW s, NEW x, NEW c, Sets(a, s, x, c)
  PROVE  [outside |-> c, dest |-> b] = InOutside(a, b, s, x)
BY DEF Sets, InOutside

LEMMA DestChanges ==
  ASSUME NEW a, NEW b, NEW s, NEW x, NEW c, Sets(b, s, x, c)
  PROVE  [outside |-> a, dest |-> c] = InDest(a, b, s, x)
BY DEF Sets, InDest

RelayStep == Relay!Next \/ UNCHANGED Relay!vars

LEMMA RelayStutter ==
  ASSUME UNCHANGED <<outside, dest, outSent, destSent, outGot, destGot, misread>>
  PROVE  RelayStep
BY DEF RelayStep, Relay!vars

LEMMA RelayConnects ==
  ASSUME NEW s \in Sessions, UNCHANGED <<outSent, destSent, outGot, destGot, misread>>,
         \/ outside[s] = "idle" /\ outside' = [outside EXCEPT ![s] = "up"] /\ UNCHANGED dest
         \/ /\ dest[s] = "idle" /\ outside[s] # "idle"
            /\ dest' = [dest EXCEPT ![s] = "up"] /\ UNCHANGED outside
  PROVE  RelayStep
<1>1. CASE outside[s] = "idle" /\ outside' = [outside EXCEPT ![s] = "up"] /\ UNCHANGED dest
  <2>1. [outside |-> outside', dest |-> dest'] = InOutside(outside, dest, s, "up")
    <3>1. Sets(outside, s, "up", outside') /\ dest' = dest
      BY <1>1 DEF Sets
    <3> QED BY ONLY <3>1, OutsideChanges
  <2>2. Relay!Connect("outside", s)
    BY <1>1, <2>1 DEF Relay!Connect, InOutside
  <2> QED BY <2>2, Sides DEF RelayStep, Relay!Next
<1>2. CASE /\ dest[s] = "idle" /\ outside[s] # "idle"
           /\ dest' = [dest EXCEPT ![s] = "up"] /\ UNCHANGED outside
  <2>1. [outside |-> outside', dest |-> dest'] = InDest(outside, dest, s, "up")
    <3>1. Sets(dest, s, "up", dest') /\ outside' = outside
      BY <1>2 DEF Sets
    <3> QED BY ONLY <3>1, DestChanges
  <2>2. Relay!Connect("dest", s)
    BY <1>2, <2>1 DEF Relay!Connect, InDest
  <2> QED BY <2>2, Sides DEF RelayStep, Relay!Next
<1> QED BY <1>1, <1>2

LEMMA RelaySends ==
  ASSUME NEW s \in Sessions, UNCHANGED <<outside, dest, outGot, destGot, misread>>,
         \/ outside[s] = "up" /\ Counted(outSent, s, outSent') /\ UNCHANGED destSent
         \/ dest[s] = "up" /\ Counted(destSent, s, destSent') /\ UNCHANGED outSent
  PROVE  RelayStep
<1>1. CASE outside[s] = "up" /\ Counted(outSent, s, outSent') /\ UNCHANGED destSent
  <2>1. [outside |-> outSent', dest |-> destSent'] = InOutside(outSent, destSent, s, outSent[s] + 1)
    <3>1. Sets(outSent, s, outSent[s] + 1, outSent') /\ destSent' = destSent
      BY <1>1 DEF Counted, Sets
    <3> QED BY ONLY <3>1, OutsideChanges
  <2>2. Relay!Send("outside", s)
    BY <1>1, <2>1 DEF Relay!Send, InOutside
  <2> QED BY <2>2, Sides DEF RelayStep, Relay!Next
<1>2. CASE dest[s] = "up" /\ Counted(destSent, s, destSent') /\ UNCHANGED outSent
  <2>1. [outside |-> outSent', dest |-> destSent'] = InDest(outSent, destSent, s, destSent[s] + 1)
    <3>1. Sets(destSent, s, destSent[s] + 1, destSent') /\ outSent' = outSent
      BY <1>2 DEF Counted, Sets
    <3> QED BY ONLY <3>1, DestChanges
  <2>2. Relay!Send("dest", s)
    BY <1>2, <2>1 DEF Relay!Send, InDest
  <2> QED BY <2>2, Sides DEF RelayStep, Relay!Next
<1> QED BY <1>1, <1>2

LEMMA RelayEnds ==
  ASSUME NEW s \in Sessions, NEW how \in Ended, UNCHANGED <<outSent, destSent, outGot, destGot, misread>>,
         \/ StillReads(outside[s]) /\ outside' = [outside EXCEPT ![s] = how] /\ UNCHANGED dest
         \/ StillReads(dest[s]) /\ dest' = [dest EXCEPT ![s] = how] /\ UNCHANGED outside
  PROVE  RelayStep
<1>1. how \in Relay!EndStates /\ \A p : StillReads(p) <=> Relay!Reads(p)
  BY DEF Relay!EndStates, Ended, Relay!Reads, StillReads
<1>2. CASE StillReads(outside[s]) /\ outside' = [outside EXCEPT ![s] = how] /\ UNCHANGED dest
  <2>1. [outside |-> outside', dest |-> dest'] = InOutside(outside, dest, s, how)
    <3>1. Sets(outside, s, how, outside') /\ dest' = dest
      BY <1>2 DEF Sets
    <3> QED BY ONLY <3>1, OutsideChanges
  <2>2. Relay!End("outside", s)
    BY <1>1, <1>2, <2>1 DEF Relay!End, InOutside
  <2> QED BY <2>2, Sides DEF RelayStep, Relay!Next
<1>3. CASE StillReads(dest[s]) /\ dest' = [dest EXCEPT ![s] = how] /\ UNCHANGED outside
  <2>1. [outside |-> outside', dest |-> dest'] = InDest(outside, dest, s, how)
    <3>1. Sets(dest, s, how, dest') /\ outside' = outside
      BY <1>3 DEF Sets
    <3> QED BY ONLY <3>1, DestChanges
  <2>2. Relay!End("dest", s)
    BY <1>1, <1>3, <2>1 DEF Relay!End, InDest
  <2> QED BY <2>2, Sides DEF RelayStep, Relay!Next
<1> QED BY <1>2, <1>3

\* The last of what was received is before n if all of it is.
LEMMA LastBelow ==
  ASSUME NEW max \in Nat, NEW q \in Seq(Sessions \X (1 .. max)), NEW n \in Nat \ {0},
         \A k \in DOMAIN q : q[k][2] < n
  PROVE  Relay!LastOf(q) \in Nat /\ Relay!LastOf(q) + 1 <= n
<1>1. CASE q = <<>>
  BY <1>1 DEF Relay!LastOf
<1>2. CASE q # <<>>
  <2>1. Len(q) \in DOMAIN q /\ q[Len(q)] \in Sessions \X (1 .. max)
    BY <1>2, EmptySeq, LenProperties, ElementOfSeq
  <2> QED BY <1>2, <2>1 DEF Relay!LastOf
<1> QED BY <1>1, <1>2

\* An item that was sent and comes after all that was received.
Fresh(got, s, n, sent) ==
  /\ n \in 1 .. sent[s] /\ sent[s] \in Nat
  /\ \E max \in Nat : got[s] \in Seq(Sessions \X (1 .. max))
  /\ \A k \in DOMAIN got[s] : got[s][k][2] < n

\* Nothing is missing before nor after: the item is the next.
Numbered(q, r) == \A i \in DOMAIN q : q[i] = <<r, i>>

LEMMA NextItem ==
  ASSUME NEW max \in Nat, NEW q \in Seq(Sessions \X (1 .. max)), NEW n \in 1 .. max,
         NEW r \in Sessions, Numbered(q, r), Numbered(Append(q, <<r, n>>), r)
  PROVE  n = Relay!LastOf(q) + 1
<1> DEFINE e == <<r, n>>
<1>1. Len(q) \in Nat /\ DOMAIN q = 1 .. Len(q) /\ e \in Sessions \X (1 .. max)
  BY LenProperties
<1>2. /\ Append(q, e) \in Seq(Sessions \X (1 .. max)) /\ Len(Append(q, e)) = Len(q) + 1
      /\ Append(q, e)[Len(q) + 1] = e
  BY <1>1, AppendProperties
<1>3. Len(q) + 1 \in DOMAIN Append(q, e)
  BY <1>1, <1>2, LenProperties
<1>4. n = Len(q) + 1
  BY <1>2, <1>3 DEF Numbered
<1>5. Relay!LastOf(q) = Len(q)
  <2>1. CASE q = <<>>
    BY <2>1 DEF Relay!LastOf
  <2>2. CASE q # <<>>
    <3>1. Len(q) \in DOMAIN q
      BY <1>1, <2>2, EmptySeq
    <3> QED BY <2>2, <3>1 DEF Relay!LastOf, Numbered
  <2> QED BY <2>1, <2>2
<1> QED BY <1>4, <1>5

Joins(got, s, n) == OneTunnel => n = Relay!LastOf(got[s]) + 1

LEMMA RelayDelivers ==
  ASSUME NEW s \in Sessions, NEW n, UNCHANGED <<outside, dest, outSent, destSent, misread>>,
         \/ /\ StillReads(dest[s]) /\ Fresh(destGot, s, n, outSent) /\ Joins(destGot, s, n)
            /\ Added(destGot, s, n, destGot') /\ UNCHANGED outGot
         \/ /\ StillReads(outside[s]) /\ Fresh(outGot, s, n, destSent) /\ Joins(outGot, s, n)
            /\ Added(outGot, s, n, outGot') /\ UNCHANGED destGot
  PROVE  RelayStep
<1>1. \A p : StillReads(p) <=> Relay!Reads(p)
  BY DEF Relay!Reads, StillReads
<1>2. ASSUME NEW got, NEW sent, Fresh(got, s, n, sent)
      PROVE  n \in Relay!LastOf(got[s]) + 1 .. sent[s]
  <2>1. PICK max \in Nat : got[s] \in Seq(Sessions \X (1 .. max))
    BY <1>2 DEF Fresh
  <2>2. n \in 1 .. sent[s] /\ sent[s] \in Nat /\ \A k \in DOMAIN got[s] : got[s][k][2] < n
    BY <1>2 DEF Fresh
  <2>3. n \in Nat \ {0}
    BY <2>2
  <2>4. Relay!LastOf(got[s]) \in Nat /\ Relay!LastOf(got[s]) + 1 <= n
    BY ONLY <2>1, <2>2, <2>3, LastBelow
  <2> QED BY ONLY <2>2, <2>4
<1>3. CASE /\ StillReads(dest[s]) /\ Fresh(destGot, s, n, outSent) /\ Joins(destGot, s, n)
           /\ Added(destGot, s, n, destGot') /\ UNCHANGED outGot
  <2>1. [outside |-> outGot', dest |-> destGot'] = InDest(outGot, destGot, s, Append(destGot[s], <<s, n>>))
    <3>1. Sets(destGot, s, Append(destGot[s], <<s, n>>), destGot') /\ outGot' = outGot
      BY <1>3 DEF Added, Sets
    <3> QED BY ONLY <3>1, DestChanges
  <2>2. n \in Relay!LastOf(destGot[s]) + 1 .. outSent[s] /\ (OneTunnel => n = Relay!LastOf(destGot[s]) + 1)
    BY <1>2, <1>3 DEF Joins
  <2>3. Relay!Deliver("dest", s)
    <3>1. /\ Relay!Reads([outside |-> outside, dest |-> dest]["dest"][s])
          /\ [outside |-> outGot, dest |-> destGot]["dest"][s] = destGot[s]
          /\ [outside |-> outSent, dest |-> destSent][Relay!Other("dest")][s] = outSent[s]
      BY <1>1, <1>3, Sides
    <3>2. UNCHANGED <<[outside |-> outside, dest |-> dest], [outside |-> outSent, dest |-> destSent]>>
      OBVIOUS
    <3> QED BY <2>1, <2>2, <3>1, <3>2 DEF Relay!Deliver, InDest
  <2> QED BY <2>3, Sides DEF RelayStep, Relay!Next
<1>4. CASE /\ StillReads(outside[s]) /\ Fresh(outGot, s, n, destSent) /\ Joins(outGot, s, n)
           /\ Added(outGot, s, n, outGot') /\ UNCHANGED destGot
  <2>1. [outside |-> outGot', dest |-> destGot'] = InOutside(outGot, destGot, s, Append(outGot[s], <<s, n>>))
    <3>1. Sets(outGot, s, Append(outGot[s], <<s, n>>), outGot') /\ destGot' = destGot
      BY <1>4 DEF Added, Sets
    <3> QED BY ONLY <3>1, OutsideChanges
  <2>2. n \in Relay!LastOf(outGot[s]) + 1 .. destSent[s] /\ (OneTunnel => n = Relay!LastOf(outGot[s]) + 1)
    BY <1>2, <1>4 DEF Joins
  <2>3. Relay!Deliver("outside", s)
    <3>1. /\ Relay!Reads([outside |-> outside, dest |-> dest]["outside"][s])
          /\ [outside |-> outGot, dest |-> destGot]["outside"][s] = outGot[s]
          /\ [outside |-> outSent, dest |-> destSent][Relay!Other("outside")][s] = destSent[s]
      BY <1>1, <1>4, Sides
    <3>2. UNCHANGED <<[outside |-> outside, dest |-> dest], [outside |-> outSent, dest |-> destSent]>>
      OBVIOUS
    <3> QED BY <2>1, <2>2, <3>1, <3>2 DEF Relay!Deliver, InOutside
  <2> QED BY <2>3, Sides DEF RelayStep, Relay!Next
<1> QED BY <1>3, <1>4

LEMMA RelayInit == ASSUME Init PROVE Relay!Init
BY DEF Init, Relay!Init, Relay!Sides

-----------------------------------------------------------------------------
(* Every step is one of the service or changes nothing a peer sees.        *)

\* The first message for the destination is one it may get.
LEMMA ClientFresh ==
  ASSUME TypeInv, ToClientOrder, toClient # <<>>, NEW s \in Sessions, Data(ClientMsg, s)
  PROVE  Fresh(destGot, s, ClientMsg.item, outSent)
<1>1. /\ toClient \in Seq(Carried(MaxOut)) /\ destGot[s] \in Seq(Sessions \X (1 .. MaxOut))
      /\ outRead[s] \in Nat /\ outSent[s] \in Nat /\ outRead[s] <= outSent[s] /\ MaxOut \in Nat
  <2>1. /\ destGot \in [Sessions -> Seq(Sessions \X (1 .. MaxOut))] /\ outRead[s] <= outSent[s]
        /\ outRead \in [Sessions -> 0 .. MaxOut] /\ outSent \in [Sessions -> 0 .. MaxOut]
        /\ toClient \in Seq(Carried(MaxOut)) /\ MaxOut \in Nat
    BY LimitsAssumption DEF TypeInv, WireOK, PeersOK
  <2> QED BY ONLY <2>1, s \in Sessions
<1>2. ClientMsg \in Carried(MaxOut) /\ ClientMsg \in Range(toClient)
  BY <1>1, TailRange DEF ClientMsg
<1>3. ClientMsg.item \in 1 .. MaxOut
  BY <1>2 DEF Carried, Data
<1>4. ClientMsg.item <= outRead[s] /\ \A k \in DOMAIN destGot[s] : destGot[s][k][2] < ClientMsg.item
  BY <1>2 DEF ToClientOrder, Ahead
<1>5. ClientMsg.item \in 1 .. outSent[s]
  BY ONLY <1>1, <1>3, <1>4
<1> QED BY <1>1, <1>4, <1>5 DEF Fresh

LEMMA ServerFresh ==
  ASSUME TypeInv, ToServerOrder, serverTunnel \in Tunnels, toServer[serverTunnel] # <<>>,
         NEW s \in Sessions, Data(ServerMsg, s)
  PROVE  Fresh(outGot, s, ServerMsg.item, destSent)
<1>1. /\ toServer[serverTunnel] \in Seq(Carried(MaxDest))
      /\ outGot[s] \in Seq(Sessions \X (1 .. MaxDest))
      /\ destRead[s] \in Nat /\ destSent[s] \in Nat /\ destRead[s] <= destSent[s] /\ MaxDest \in Nat
  <2>1. /\ outGot \in [Sessions -> Seq(Sessions \X (1 .. MaxDest))] /\ destRead[s] <= destSent[s]
        /\ destRead \in [Sessions -> 0 .. MaxDest] /\ destSent \in [Sessions -> 0 .. MaxDest]
        /\ toServer \in [Tunnels -> Seq(Carried(MaxDest))] /\ MaxDest \in Nat
    BY LimitsAssumption DEF TypeInv, WireOK, PeersOK
  <2> QED BY ONLY <2>1, s \in Sessions, serverTunnel \in Tunnels
<1>2. ServerMsg \in Carried(MaxDest) /\ ServerMsg \in Range(toServer[serverTunnel])
  BY <1>1, TailRange DEF ServerMsg
<1>3. ServerMsg.item \in 1 .. MaxDest
  BY <1>2 DEF Carried, Data
<1>4. ServerMsg.item <= destRead[s] /\ \A k \in DOMAIN outGot[s] : outGot[s][k][2] < ServerMsg.item
  BY <1>2 DEF ToServerOrder, Ahead
<1>5. ServerMsg.item \in 1 .. destSent[s]
  BY ONLY <1>1, <1>3, <1>4
<1> QED BY <1>1, <1>4, <1>5 DEF Fresh

\* Nothing is missing up to the item that is received: it joins on.
LEMMA ReceivedJoins ==
  ASSUME NEW max \in Nat, NEW got \in [Sessions -> Seq(Sessions \X (1 .. max))], NEW s \in Sessions,
         NEW n \in 1 .. max, NEW new, Added(got, s, n, new), OneTunnel => Whole(got) /\ Whole(new)
  PROVE  Joins(got, s, n)
<1> SUFFICES ASSUME OneTunnel PROVE n = Relay!LastOf(got[s]) + 1
  BY DEF Joins
<1>1. got[s] \in Seq(Sessions \X (1 .. max)) /\ new[s] = Append(got[s], <<s, n>>)
  BY DEF Added
<1>2. Numbered(got[s], s) /\ Numbered(Append(got[s], <<s, n>>), s)
  BY <1>1 DEF Whole, Numbered
<1> QED BY <1>1, <1>2, NextItem

\* What the programs promise beyond the order.
WholeIfOne == OneTunnel => Gapless

LEMMA PeersRelay ==
  ASSUME TypeInv, Peers, UNCHANGED misread
  PROVE  RelayStep
<1> USE DEF outsideVars, destVars
<1>1. ASSUME NEW s \in Sessions, OutsideConnect(s) PROVE RelayStep
  BY <1>1, RelayConnects DEF OutsideConnect
<1>2. ASSUME NEW s \in Sessions, OutsideSend(s) PROVE RelayStep
  BY <1>2, RelaySends DEF OutsideSend, Counted
<1>3. ASSUME NEW s \in Sessions, DestSend(s) PROVE RelayStep
  BY <1>3, RelaySends DEF DestSend, Counted
<1>4. ASSUME NEW s \in Sessions, NEW how \in Endings, OutsideEnds(s, how) PROVE RelayStep
  BY <1>4, EndingsAssumption, RelayEnds DEF OutsideEnds
<1>5. ASSUME NEW s \in Sessions, NEW how \in Endings, DestEnds(s, how) PROVE RelayStep
  BY <1>5, EndingsAssumption, RelayEnds DEF DestEnds
<1> QED BY <1>1, <1>2, <1>3, <1>4, <1>5 DEF Peers

LEMMA ServerRelay ==
  ASSUME TypeInv, KnownOnce, ToServerOrder, WholeIfOne, WholeIfOne', Server, UNCHANGED misread
  PROVE  RelayStep
<1> USE DEF outsideVars, destVars
<1>1. ASSUME NEW wrote \in BOOLEAN, NEW ok \in BOOLEAN, ServerTcpData(wrote, ok) PROVE RelayStep
  <2> DEFINE s == serverConns[ServerMsg.conn_id]
  <2>1. UNCHANGED <<outside, dest, outSent, destSent, destGot>> /\ ServerHead(TCP_DATA)
    BY <1>1 DEF ServerTcpData
  <2>2. CASE UNCHANGED outGot
    BY <2>1, <2>2, RelayStutter
  <2>3. CASE ~UNCHANGED outGot
    <3>1. /\ s \in Sessions /\ s = ServerMsg.session
          /\ outGot' = [outGot EXCEPT ![s] = Append(@, <<ServerMsg.session, ServerMsg.item>>)]
      BY <1>1, <2>3, ServerDelivers DEF KnownOnce
    <3>2. StillReads(outside[s])
      BY <1>1, <2>3 DEF ServerTcpData
    <3> HIDE DEF s
    <3>3. serverTunnel \in Tunnels /\ toServer[serverTunnel] # <<>> /\ Data(ServerMsg, s)
      BY <2>1, <3>1, HeldTunnels DEF ServerHead, ServerMsg, TypeInv, Data
    <3>4. Fresh(outGot, s, ServerMsg.item, destSent) /\ Added(outGot, s, ServerMsg.item, outGot')
      BY <3>1, <3>3, ServerFresh DEF Added
    <3>5. Joins(outGot, s, ServerMsg.item)
      <4> DEFINE n == ServerMsg.item
                 new == outGot'
      <4>1. outGot \in [Sessions -> Seq(Sessions \X (1 .. MaxDest))] /\ MaxDest \in Nat
        BY LimitsAssumption DEF TypeInv, PeersOK
      <4>2. n \in 1 .. MaxDest
        <5>1. ServerMsg \in Carried(MaxDest)
          BY <2>1, <1>1, ServerHeadWire DEF TCP_DATA, ServerTcpData
        <5> QED BY <3>3, <5>1 DEF Carried, Data
      <4>3. OneTunnel => Whole(outGot) /\ Whole(new)
        BY DEF WholeIfOne, OneTunnel, Gapless, Whole
      <4>4. Added(outGot, s, n, new)
        BY <3>4
      <4> HIDE DEF n, new
      <4>5. Joins(outGot, s, n)
        BY ONLY <3>1, <4>1, <4>2, <4>3, <4>4, ReceivedJoins
      <4> QED BY <4>5 DEF n
    <3> QED BY <2>1, <3>1, <3>2, <3>4, <3>5, RelayDelivers
  <2> QED BY <2>2, <2>3
<1>2. ASSUME UNCHANGED <<outside, dest, outSent, destSent, outGot, destGot>> PROVE RelayStep
  BY <1>2, RelayStutter
<1>3. ASSUME NEW ok \in BOOLEAN, NEW s \in Sessions, RejectOutside(s) \/ AcceptOutside(s, ok) PROVE RelayStep
  BY <1>2, <1>3 DEF RejectOutside, AcceptOutside
<1>4. ASSUME NEW ok \in BOOLEAN, NEW id \in ConnIds, ReadOutside(id, ok) \/ ReadOutsideEnd(id, ok)
      PROVE  RelayStep
  BY <1>2, <1>4 DEF ReadOutside, ReadOutsideEnd
<1>5. CASE AcceptTunnel \/ ServerTcpClose \/ ServerUdpPacket \/ ServerTunnelEnd
  BY <1>2, <1>5 DEF AcceptTunnel, ServerTcpClose, ServerUdpPacket, ServerTunnelEnd
<1>6. ASSUME NEW ok \in BOOLEAN, ServerReadUdp(ok) PROVE RelayStep
  BY <1>2, <1>6 DEF ServerReadUdp
<1> QED BY <1>1, <1>3, <1>4, <1>5, <1>6 DEF Server

LEMMA ClientRelay ==
  ASSUME TypeInv, KnownOnce, OpenInv, ToClientOrder, WholeIfOne, WholeIfOne', Client, UNCHANGED misread
  PROVE  RelayStep
<1> USE DEF outsideVars, destVars
<1>1. ASSUME NEW wrote \in BOOLEAN, NEW ok \in BOOLEAN, ClientTcpData(wrote, ok) PROVE RelayStep
  <2> DEFINE s == clientConns[ClientMsg.conn_id]
  <2>1. UNCHANGED <<outside, dest, outSent, destSent, outGot>> /\ ClientHead(TCP_DATA)
    BY <1>1 DEF ClientTcpData
  <2>2. CASE UNCHANGED destGot
    BY <2>1, <2>2, RelayStutter
  <2>3. CASE ~UNCHANGED destGot
    <3>1. /\ s \in Sessions /\ s = ClientMsg.session
          /\ destGot' = [destGot EXCEPT ![s] = Append(@, <<ClientMsg.session, ClientMsg.item>>)]
      BY <1>1, <2>3, ClientDelivers DEF KnownOnce
    <3>2. StillReads(dest[s])
      BY <1>1, <2>3 DEF ClientTcpData
    <3> HIDE DEF s
    <3>3. toClient # <<>> /\ Data(ClientMsg, s)
      BY <2>1, <3>1 DEF ClientHead, ClientMsg, Data
    <3>4. Fresh(destGot, s, ClientMsg.item, outSent) /\ Added(destGot, s, ClientMsg.item, destGot')
      BY <3>1, <3>3, ClientFresh DEF Added
    <3>5. Joins(destGot, s, ClientMsg.item)
      <4> DEFINE n == ClientMsg.item
                 new == destGot'
      <4>1. destGot \in [Sessions -> Seq(Sessions \X (1 .. MaxOut))] /\ MaxOut \in Nat
        BY LimitsAssumption DEF TypeInv, PeersOK
      <4>2. n \in 1 .. MaxOut
        <5>1. ClientMsg \in Carried(MaxOut)
          BY <2>1, <1>1, ClientHeadWire DEF TCP_DATA, ClientTcpData
        <5> QED BY <3>3, <5>1 DEF Carried, Data
      <4>3. OneTunnel => Whole(destGot) /\ Whole(new)
        BY DEF WholeIfOne, OneTunnel, Gapless, Whole
      <4>4. Added(destGot, s, n, new)
        BY <3>4
      <4> HIDE DEF n, new
      <4>5. Joins(destGot, s, n)
        BY ONLY <3>1, <4>1, <4>2, <4>3, <4>4, ReceivedJoins
      <4> QED BY <4>5 DEF n
    <3> QED BY <2>1, <3>1, <3>2, <3>4, <3>5, RelayDelivers
  <2> QED BY <2>2, <2>3
<1>2. ASSUME NEW b \in BOOLEAN, NEW ok \in BOOLEAN, ClientTcpOpen(b, ok) PROVE RelayStep
  <2> DEFINE s == ClientMsg.session
  <2>1. ClientHead(TCP_OPEN) /\ ClientPop /\ UNCHANGED <<outside, outSent, destSent, outGot, destGot>>
    BY <1>2 DEF ClientTcpOpen
  <2>2. CASE UNCHANGED dest
    BY <2>1, <2>2, RelayStutter
  <2>3. CASE dest' = [dest EXCEPT ![s] = "up"]
    <3>1. ClientMsg \in Carried(MaxOut) /\ ClientMsg.type = TCP_OPEN /\ ClientMsg \in Range(toClient)
      BY <2>1, ClientHeadWire DEF TCP_OPEN
    <3>2. s \in Sessions /\ Opens(ClientMsg, s)
      BY <3>1 DEF Carried, Opens, TCP_OPEN, UDP_PACKET
    <3>3. s \notin Waiting /\ dest[s] = "idle"
      BY <3>1, <3>2 DEF OpenInv
    <3>4. outside[s] # "idle"
      BY <3>2, <3>3 DEF Waiting
    <3> HIDE DEF s
    <3> QED BY <2>1, <2>3, <3>2, <3>3, <3>4, RelayConnects
  <2> QED BY <1>2, <2>2, <2>3 DEF ClientTcpOpen
<1>3. ASSUME UNCHANGED <<outside, dest, outSent, destSent, outGot, destGot>> PROVE RelayStep
  BY <1>3, RelayStutter
<1>4. CASE Connect \/ ConnectFails \/ ClientTcpClose \/ ClientUdpPacket \/ ClientTunnelEnd
  BY <1>3, <1>4 DEF Connect, ConnectFails, ClientTcpClose, ClientUdpPacket, ClientTunnelEnd
<1>5. ASSUME NEW ok \in BOOLEAN, ClientReadUdp(ok) PROVE RelayStep
  BY <1>3, <1>5 DEF ClientReadUdp
<1>6. ASSUME NEW ok \in BOOLEAN, NEW id \in ConnIds, ReadDest(id, ok) \/ ReadDestEnd(id, ok) PROVE RelayStep
  BY <1>3, <1>6 DEF ReadDest, ReadDestEnd
<1> QED BY <1>1, <1>2, <1>4, <1>5, <1>6 DEF Client

LEMMA NextRelay ==
  ASSUME TypeInv, KnownOnce, OpenInv, OrderInv, WholeIfOne, WholeIfOne', InStep
  PROVE  RelayStep
<1>0. UNCHANGED misread
  BY MisreadKept
<1>1. CASE FaultStep
  <2>1. UNCHANGED <<outside, dest, outSent, destSent, outGot, destGot>>
    BY <1>1 DEF FaultStep, Break, ServerSigpipe, ClientSigpipe, KillServer, KillClient, StartServer,
         StartClient, outsideVars, destVars
  <2> QED BY <1>0, <2>1, RelayStutter
<1> QED BY <1>0, <1>1, PeersRelay, ServerRelay, ClientRelay DEF InStep, OrderInv

\* A message is read that was lost in part, and was not all there is: the promise ends.
LEMMA MisreadsRelay ==
  ASSUME Misreads, OneTunnel => ~misread'
  PROVE  RelayStep
<1>1. misread' = TRUE /\ UNCHANGED <<outside, dest, outSent, destSent, outGot, destGot>>
  BY DEF Misreads, ServerMisreads, ClientMisreads, outsideVars, destVars
<1>2. Relay!Misread
  BY <1>1 DEF Relay!Misread
<1> QED BY <1>2 DEF RelayStep, Relay!Next

\* What is kept with one tunnel: nothing is missing or misread.
OneKeeps == OneTunnel => Gapless /\ ~misread

LEMMA OneKeepsAlways == Spec => []OneKeeps
<1>1. CASE OneTunnel
  <2>1. Spec => []Gapless /\ []~misread
    BY <1>1, NothingMissing, NothingMisread
  <2>2. Gapless /\ ~misread => OneKeeps
    BY DEF OneKeeps
  <2> QED BY <2>1, <2>2, PTL
<1>2. CASE ~OneTunnel
  <2>1. OneKeeps
    BY <1>2 DEF OneKeeps
  <2> QED BY <2>1, PTL
<1> QED BY <1>1, <1>2

\* The two programs offer the peers the service of RelayService, unless the server is
\* started again: items may be missing where a tunnel takes the place of another, and the
\* promise ends when a message that was lost in part is read on with the bytes of the next
\* tunnel. With one tunnel none is missing and the promise does not end.
THEOREM Implements ==
  ASSUME "startServer" \notin Faults
  PROVE  Spec => ImplementsRelay
<1> DEFINE B == TypeInv /\ (~misread => KnownOnce /\ OwnOnly)
           O == ~misread => OpenInv
           R == ~misread => OrderInv
<1>1. Init => Relay!Init
  BY RelayInit
<1>2. ASSUME B, O, R, OneKeeps, OneKeeps', [Next]_vars PROVE [Relay!Next]_(Relay!vars)
  <2>1. CASE UNCHANGED vars
    BY <2>1, RelayStutter DEF RelayStep, vars, outsideVars, destVars, readVars
  <2>2. CASE Next /\ misread
    <3>1. misread'
      BY <2>2, MisreadKept DEF Next, Misreads, ServerMisreads, ClientMisreads
    <3>2. Relay!Garbled
      BY <2>2, <3>1 DEF Relay!Garbled
    <3> QED BY <3>2 DEF Relay!Next
  <2>3. CASE InStep /\ ~misread
    <3>1. WholeIfOne /\ WholeIfOne'
      BY <1>2 DEF OneKeeps, WholeIfOne, OneTunnel
    <3> QED BY <1>2, <2>3, <3>1, NextRelay DEF RelayStep
  <2>4. CASE Misreads
    <3>1. OneTunnel => ~misread'
      BY <1>2 DEF OneKeeps, OneTunnel
    <3> QED BY <2>4, <3>1, MisreadsRelay DEF RelayStep
  <2> QED BY <1>2, <2>1, <2>2, <2>3, <2>4 DEF Next
<1>3. Spec => []B /\ []O /\ []R
  BY BindInductive, OpenInductive, OrderInductive
<1> HIDE DEF B, O, R
<1>4. B /\ O /\ R /\ OneKeeps /\ OneKeeps' /\ [Next]_vars => [Relay!Next]_(Relay!vars)
  BY <1>2
<1> QED BY <1>1, <1>3, <1>4, OneKeepsAlways, PTL DEF Spec, ImplementsRelay, Relay!Spec

=============================================================================
