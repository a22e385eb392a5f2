------------------------ MODULE TunnelLosslessProofs ------------------------
(***************************************************************************)
(* While the network cuts no tunnel and no program is started again: no    *)
(* connection is left open on one side only, and nothing is missing from   *)
(* what a peer receives.                                                   *)
(***************************************************************************)
EXTENDS TunnelOrderProofs

-----------------------------------------------------------------------------
(* TCP_OPEN is the first message of a session.                             *)

Opens(m, s) == m.type = TCP_OPEN /\ m.session = s
Tells(m, s) == m.type # UDP_PACKET /\ m.session = s

OpenFirst(q) ==
  \A s \in Sessions : \A i, j \in DOMAIN q : Opens(q[i], s) /\ Tells(q[j], s) => i <= j

\* A session that waits has no number yet, and one has one.
SessionOnce ==
  \A s \in Sessions, id \in ConnIds :
    Known(id, s) => s \notin Waiting /\ \A i \in ConnIds : Known(i, s) => i = id

\* The destination is connected to once for a session: one TCP_OPEN is on the way for
\* it when it has got its number, until it is handled.
OpenInv ==
  /\ SessionOnce
  /\ \A s \in Waiting : dest[s] = "idle"
  /\ OpenFirst(toClient)
  /\ \A s \in Sessions : \A m \in Range(toClient) :
       Opens(m, s) => s \notin Waiting /\ dest[s] = "idle"

LEMMA ThinOpenFirst ==
  ASSUME NEW S, NEW q \in Seq(S), NEW p \in Seq(S), Thins(p, q), OpenFirst(q)
  PROVE  OpenFirst(p)
<1>1. PICK d \in {0, 1} : \A i \in DOMAIN p : i + d \in DOMAIN q /\ p[i] = q[i + d]
  BY DEF Thins
<1>2. DOMAIN p = 1 .. Len(p) /\ Len(p) \in Nat
  BY LenProperties
<1> SUFFICES ASSUME NEW s \in Sessions, NEW i \in DOMAIN p, NEW j \in DOMAIN p,
                    Opens(p[i], s), Tells(p[j], s)
             PROVE  i <= j
  BY DEF OpenFirst
<1>3. i + d <= j + d
  BY <1>1 DEF OpenFirst
<1> QED BY <1>2, <1>3

LEMMA AppendOpenFirst ==
  ASSUME NEW S, NEW q \in Seq(S), NEW m, OpenFirst(q),
         \A s \in Sessions : \A x \in Range(q) : ~(Tells(x, s) /\ Opens(m, s))
  PROVE  OpenFirst(Append(q, m)) /\ Range(Append(q, m)) = Range(q) \cup {m}
<1> DEFINE p == Append(q, m)
           T == S \cup {m}
<1>1. q \in Seq(T) /\ m \in T
  BY WiderSeq
<1> HIDE DEF T
<1>2. /\ Len(p) = Len(q) + 1 /\ p \in Seq(T)
      /\ \A i \in 1 .. Len(q) : p[i] = q[i]
      /\ p[Len(q) + 1] = m
  BY <1>1, AppendProperties
<1>3. Len(q) \in Nat /\ DOMAIN q = 1 .. Len(q) /\ DOMAIN p = 1 .. Len(q) + 1
  BY <1>1, <1>2, LenProperties
<1>4. Range(p) = Range(q) \cup {m}
  BY <1>1, AppendRange
<1> HIDE DEF p
<1>5. \A i \in DOMAIN p : \/ i \in DOMAIN q /\ p[i] = q[i] /\ q[i] \in Range(q)
                          \/ i = Len(q) + 1 /\ p[i] = m
  <2> TAKE i \in DOMAIN p
  <2>1. i \in 1 .. Len(q) \/ i = Len(q) + 1
    BY <1>3
  <2> QED BY <1>2, <1>3, <2>1 DEF Range
<1>6. ASSUME NEW s \in Sessions, NEW i \in DOMAIN p, NEW j \in DOMAIN p, Opens(p[i], s), Tells(p[j], s)
      PROVE  i <= j
  <2>1. CASE j = Len(q) + 1
    BY <1>3, <2>1
  <2>2. CASE j \in DOMAIN q /\ p[j] = q[j] /\ q[j] \in Range(q)
    <3>1. i \in DOMAIN q /\ p[i] = q[i]
      BY <1>5, <1>6, <2>2
    <3> QED BY <1>6, <2>2, <3>1 DEF OpenFirst
  <2> QED BY <1>5, <2>1, <2>2
<1>7. OpenFirst(p)
  BY <1>6 DEF OpenFirst
<1> QED BY <1>4, <1>7 DEF p

\* No TCP_OPEN comes after the first message, if that is of its session.
LEMMA HeadOpenFirst ==
  ASSUME NEW S, NEW q \in Seq(S), q # <<>>, OpenFirst(q), NEW s \in Sessions, Tells(Head(q), s),
         NEW x \in Range(Tail(q))
  PROVE  ~Opens(x, s)
<1>1. /\ Tail(q) \in Seq(S) /\ Len(Tail(q)) = Len(q) - 1
      /\ \A i \in 1 .. Len(Tail(q)) : Tail(q)[i] = q[i + 1]
  BY HeadTailProperties
<1>2. /\ Len(q) \in Nat /\ DOMAIN q = 1 .. Len(q) /\ DOMAIN Tail(q) = 1 .. Len(q) - 1
      /\ Head(q) = q[1]
  BY <1>1, LenProperties
<1>3. PICK i \in 1 .. Len(q) - 1 : x = Tail(q)[i]
  BY <1>2 DEF Range
<1>4. x = q[i + 1] /\ ~(i + 1 <= 1) /\ i + 1 \in 1 .. Len(q) /\ 1 \in 1 .. Len(q)
  BY <1>1, <1>2, <1>3
<1> QED BY <1>2, <1>4 DEF OpenFirst

-----------------------------------------------------------------------------
(* What a step does to the opens: none is sent or handled, the server sends*)
(* one for a session that waits, or the client connects for the first.     *)

NoOpen ==
  /\ Thins(toClient', toClient) \/ \E m : m.type # TCP_OPEN /\ toClient' = Append(toClient, m)
  /\ Waiting' \subseteq Waiting
  /\ \A s \in Sessions : dest[s] = "idle" => dest'[s] = "idle"
ServerOpens ==
  /\ UNCHANGED dest /\ Waiting' \subseteq Waiting
  /\ \E s \in Waiting :
       /\ s \notin Waiting'
       /\ UNCHANGED toClient \/ \E m : Opens(m, s) /\ toClient' = Append(toClient, m)
DestOpens ==
  /\ toClient # <<>> /\ toClient' = Tail(toClient) /\ Waiting' = Waiting
  /\ \E s \in Sessions : Opens(Head(toClient), s) /\ dest' = [dest EXCEPT ![s] = "up"]

\* What is on the way tells nothing of a session that has no number yet.
LEMMA WaitingUntold ==
  ASSUME TypeInv, SessionOnce, NEW s \in Waiting, NEW m \in Range(toClient)
  PROVE  ~Tells(m, s)
<1>1. toClient \in Seq(Carried(MaxOut)) /\ s \in Sessions
  BY DEF TypeInv, WireOK, Waiting
<1>2. m \in Carried(MaxOut)
  BY <1>1, ElementOfSeq, LenProperties DEF Range
<1> SUFFICES ASSUME Tells(m, s) PROVE FALSE
  OBVIOUS
<1>3. m.conn_id \in ConnIds /\ Known(m.conn_id, s)
  BY <1>2, MessageKnown DEF Tells
<1> QED BY <1>1, <1>3 DEF SessionOnce

LEMMA OpenKept ==
  ASSUME TypeInv, WireOK', OpenInv, SessionOnce', NoOpen \/ ServerOpens \/ DestOpens
  PROVE  OpenInv'
<1>1. /\ toClient \in Seq(Carried(MaxOut)) /\ toClient' \in Seq(Carried(MaxOut))
      /\ dest \in [Sessions -> PeerStates] /\ Waiting \subseteq Sessions
  BY DEF TypeInv, WireOK, PeersOK, Waiting
<1>2. /\ \A s \in Waiting : dest[s] = "idle"
      /\ OpenFirst(toClient)
      /\ \A s \in Sessions : \A m \in Range(toClient) :
           Opens(m, s) => s \notin Waiting /\ dest[s] = "idle"
  BY DEF OpenInv
<1>3. ASSUME Thins(toClient', toClient)
      PROVE  OpenFirst(toClient') /\ Range(toClient') \subseteq Range(toClient)
  BY <1>1, <1>2, <1>3, ThinRising, ThinOpenFirst
<1>4. CASE NoOpen
  <2>1. Waiting' \subseteq Waiting /\ \A s \in Sessions : dest[s] = "idle" => dest'[s] = "idle"
    BY <1>4 DEF NoOpen
  <2>2. ASSUME NEW m, m.type # TCP_OPEN, toClient' = Append(toClient, m)
        PROVE  OpenFirst(toClient') /\ Range(toClient') = Range(toClient) \cup {m}
    <3>1. \A s \in Sessions : ~Opens(m, s)
      BY <2>2 DEF Opens
    <3> QED BY <1>1, <1>2, <2>2, <3>1, AppendOpenFirst
  <2>3. OpenFirst(toClient') /\ \A s \in Sessions : \A m \in Range(toClient') : Opens(m, s) => m \in Range(toClient)
    <3>1. CASE Thins(toClient', toClient)
      BY <1>3, <3>1
    <3>2. ASSUME NEW m, m.type # TCP_OPEN, toClient' = Append(toClient, m)
          PROVE  OpenFirst(toClient') /\ \A s \in Sessions : \A x \in Range(toClient') : Opens(x, s) => x \in Range(toClient)
      BY <2>2, <3>2 DEF Opens
    <3> QED BY <1>4, <3>1, <3>2 DEF NoOpen
  <2> QED BY <1>1, <1>2, <2>1, <2>3 DEF OpenInv
<1>5. CASE ServerOpens
  <2>1. PICK s \in Waiting :
          /\ s \notin Waiting'
          /\ UNCHANGED toClient \/ \E m : Opens(m, s) /\ toClient' = Append(toClient, m)
    BY <1>5 DEF ServerOpens
  <2>2. UNCHANGED dest /\ Waiting' \subseteq Waiting /\ s \in Sessions
    BY <1>1, <1>5 DEF ServerOpens
  <2>3. CASE UNCHANGED toClient
    BY <1>1, <1>2, <2>2, <2>3 DEF OpenInv
  <2>4. ASSUME NEW m, Opens(m, s), toClient' = Append(toClient, m) PROVE OpenInv'
    <3>1. \A r \in Sessions : Opens(m, r) => r = s
      BY <2>4 DEF Opens
    <3>2. \A x \in Range(toClient) : ~Tells(x, s)
      BY <1>1, <2>1, <2>2, WaitingUntold DEF OpenInv
    <3>3. OpenFirst(toClient') /\ Range(toClient') = Range(toClient) \cup {m}
      BY <1>1, <1>2, <2>4, <3>1, <3>2, AppendOpenFirst
    <3> QED BY <1>2, <2>1, <2>2, <3>1, <3>3 DEF OpenInv
  <2> QED BY <2>1, <2>3, <2>4
<1>6. CASE DestOpens
  <2>1. toClient # <<>> /\ toClient' = Tail(toClient) /\ Waiting' = Waiting
    BY <1>6 DEF DestOpens
  <2>2. PICK s \in Sessions : Opens(Head(toClient), s) /\ dest' = [dest EXCEPT ![s] = "up"]
    BY <1>6 DEF DestOpens
  <2>3. OpenFirst(toClient') /\ Range(toClient') \subseteq Range(toClient)
        /\ \A x \in Range(toClient') : ~Opens(x, s)
    <3>1. Tells(Head(toClient), s)
      BY <2>2 DEF Opens, Tells, TCP_OPEN, UDP_PACKET
    <3> QED BY <1>1, <1>2, <1>3, <2>1, <3>1, TailThins, HeadOpenFirst
  <2>4. s \notin Waiting /\ \A r \in Sessions : r # s => dest'[r] = dest[r]
    BY <1>1, <1>2, <2>1, <2>2, TailRange
  <2> QED BY <1>1, <1>2, <2>1, <2>3, <2>4 DEF OpenInv
<1> QED BY <1>4, <1>5, <1>6

\* Nothing is sent to the client, or a message of another type.
LEMMA NoOpenSent ==
  ASSUME NEW m, m.type # TCP_OPEN, NEW ok, SendToClient(m, ok), TypeInv,
         Waiting' \subseteq Waiting, \A s \in Sessions : dest[s] = "idle" => dest'[s] = "idle"
  PROVE  NoOpen
BY WireKeptThins DEF SendToClient, NoOpen

LEMMA ServerOpenMove ==
  ASSUME TypeInv, Server
  PROVE  NoOpen \/ ServerOpens
<1> USE DEF outsideVars, destVars
<1>1. ASSUME Thins(toClient', toClient), UNCHANGED <<outside, dest>>, queued' \subseteq queued
      PROVE  NoOpen
  BY <1>1 DEF NoOpen, Waiting
<1>2. ASSUME UNCHANGED <<toClient, outside, dest>>, queued' \subseteq queued PROVE NoOpen
  BY <1>1, <1>2, WireKeptThins
<1>3. ASSUME NEW type \in {TCP_CLOSE, TCP_DATA, UDP_PACKET}, NEW id, NEW s, NEW n, NEW ok,
             SendToClient(Message(type, id, s, n), ok), UNCHANGED <<outside, dest, queued>>
      PROVE  NoOpen
  <2>1. Message(type, id, s, n).type # TCP_OPEN
    BY DEF Message, TCP_OPEN, TCP_CLOSE, TCP_DATA, UDP_PACKET
  <2>2. Waiting' \subseteq Waiting
    BY <1>3 DEF Waiting
  <2> QED BY <1>3, <2>1, <2>2, NoOpenSent
<1>4. CASE AcceptTunnel \/ ServerTunnelEnd
  BY <1>1, <1>4, CloseServerEndThins DEF AcceptTunnel, ServerTunnelEnd
<1>5. CASE ServerTcpClose \/ ServerUdpPacket
  BY <1>2, <1>5 DEF ServerTcpClose, ServerUdpPacket
<1>6. ASSUME NEW s \in Sessions, RejectOutside(s) PROVE NoOpen
  BY <1>2, <1>6 DEF RejectOutside, tunnelVars
<1>7. ASSUME NEW ok \in BOOLEAN, ServerReadUdp(ok) PROVE NoOpen
  BY <1>1, <1>2, <1>3, <1>7, CloseServerEndThins DEF ServerReadUdp
<1>8. ASSUME NEW s \in Sessions, NEW ok \in BOOLEAN, AcceptOutside(s, ok) PROVE ServerOpens
  <2> DEFINE m == Message(TCP_OPEN, next_conn_id, s, 0)
  <2>1. /\ s \in queued /\ queued' = queued \ {s} /\ UNCHANGED <<outside, dest>>
        /\ UNCHANGED toClient \/ toClient' = Append(toClient, m)
    BY <1>8 DEF AcceptOutside, SendToClient
  <2>2. outside[s] # "idle"
    BY <2>1 DEF TypeInv, PeersOK
  <2>3. s \in Waiting /\ s \notin Waiting' /\ Waiting' \subseteq Waiting
    BY <2>1, <2>2 DEF Waiting
  <2>4. Opens(m, s)
    BY DEF Opens, Message
  <2> HIDE DEF m
  <2> QED BY <2>1, <2>3, <2>4 DEF ServerOpens
<1>9. ASSUME NEW id \in ConnIds, NEW ok \in BOOLEAN, ReadOutside(id, ok) \/ ReadOutsideEnd(id, ok)
      PROVE  NoOpen
  BY <1>2, <1>3, <1>9 DEF ReadOutside, ReadOutsideEnd
<1>10. ASSUME NEW wrote \in BOOLEAN, NEW ok \in BOOLEAN, ServerTcpData(wrote, ok) PROVE NoOpen
  BY <1>2, <1>3, <1>10 DEF ServerTcpData
<1> QED BY <1>4, <1>5, <1>6, <1>7, <1>8, <1>9, <1>10 DEF Server

LEMMA ClientOpenMove ==
  ASSUME TypeInv, Client
  PROVE  NoOpen \/ DestOpens
<1> USE DEF outsideVars, destVars
<1>1. ASSUME Thins(toClient', toClient), UNCHANGED <<outside, queued, dest>> PROVE NoOpen
  BY <1>1 DEF NoOpen, Waiting
<1>2. ASSUME UNCHANGED <<toClient, outside, queued, dest>> PROVE NoOpen
  BY <1>1, <1>2, WireKeptThins
<1>3. ASSUME NEW type, ClientHead(type), ClientPop PROVE Thins(toClient', toClient)
  BY <1>3, ClientQueueThins DEF ClientHead, ClientPop
<1>4. CASE Connect
  BY <1>2, <1>4 DEF Connect
<1>5. CASE ConnectFails
  BY <1>1, <1>2, <1>5, CloseClientEndThins DEF ConnectFails, ClientStops
<1>6. CASE ClientTcpClose \/ ClientUdpPacket
  BY <1>1, <1>3, <1>6 DEF ClientTcpClose, ClientUdpPacket
<1>7. CASE ClientTunnelEnd
  BY <1>1, <1>7, CloseClientEndThins DEF ClientTunnelEnd, LeaveLoop
<1>8. ASSUME NEW ok \in BOOLEAN, ClientReadUdp(ok) PROVE NoOpen
  BY <1>1, <1>2, <1>8, CloseClientEndThins DEF ClientReadUdp, LeaveLoop
<1>9. ASSUME NEW b \in BOOLEAN, NEW ok \in BOOLEAN, ClientTcpOpen(b, ok) PROVE NoOpen \/ DestOpens
  <2> DEFINE s == ClientMsg.session
  <2>1. ClientHead(TCP_OPEN) /\ ClientPop /\ UNCHANGED <<outside, queued>>
    BY <1>9 DEF ClientTcpOpen
  <2>2. UNCHANGED dest \/ dest' = [dest EXCEPT ![s] = "up"]
    BY <1>9 DEF ClientTcpOpen
  <2>3. CASE UNCHANGED dest
    BY <1>1, <1>3, <2>1, <2>3
  <2>4. CASE dest' = [dest EXCEPT ![s] = "up"]
    <3>1. ClientMsg \in Carried(MaxOut) /\ ClientMsg.type = TCP_OPEN
      BY <2>1, ClientHeadWire DEF TCP_OPEN
    <3>2. s \in Sessions /\ Opens(Head(toClient), s)
      BY <3>1 DEF Carried, Opens, ClientMsg, TCP_OPEN, UDP_PACKET
    <3>3. toClient # <<>> /\ toClient' = Tail(toClient) /\ Waiting' = Waiting
      BY <2>1 DEF ClientHead, ClientPop, Waiting
    <3> QED BY <2>4, <3>2, <3>3 DEF DestOpens
  <2> QED BY <2>2, <2>3, <2>4
<1>10. ASSUME NEW wrote \in BOOLEAN, NEW ok \in BOOLEAN, ClientTcpData(wrote, ok) PROVE NoOpen
  BY <1>1, <1>3, <1>10 DEF ClientTcpData
<1>11. ASSUME NEW id \in ConnIds, NEW ok \in BOOLEAN, ReadDest(id, ok) PROVE NoOpen
  BY <1>1, <1>2, <1>11, CloseClientEndThins DEF ReadDest, LeaveLoop
<1>12. ASSUME NEW id \in ConnIds, NEW ok \in BOOLEAN, ReadDestEnd(id, ok) PROVE NoOpen
  BY <1>2, <1>12 DEF ReadDestEnd
<1> QED BY <1>4, <1>5, <1>6, <1>7, <1>8, <1>9, <1>10, <1>11, <1>12 DEF Client

LEMMA OpenMove ==
  ASSUME TypeInv, InStep
  PROVE  NoOpen \/ ServerOpens \/ DestOpens
<1> USE DEF outsideVars, destVars
<1>1. ASSUME Thins(toClient', toClient), UNCHANGED <<outside, dest>>, queued' \subseteq queued
      PROVE  NoOpen
  BY <1>1 DEF NoOpen, Waiting
<1>2. CASE Peers
  <2>1. UNCHANGED toClient
    BY <1>2 DEF Peers, OutsideConnect, OutsideSend, OutsideEnds, DestSend, DestEnds, tunnelVars
  <2>2. Waiting' \subseteq Waiting
    <3>1. ASSUME NEW s \in Sessions, OutsideConnect(s) PROVE Waiting' \subseteq Waiting
      BY <3>1 DEF OutsideConnect, Waiting, TypeInv, PeersOK
    <3>2. ASSUME NEW s \in Sessions, NEW how \in Endings, OutsideEnds(s, how) PROVE Waiting' \subseteq Waiting
      <4>1. how # "idle"
        BY EndingsAssumption DEF Ended
      <4> QED BY <3>2, <4>1 DEF OutsideEnds, Waiting, TypeInv, PeersOK
    <3>3. ASSUME UNCHANGED <<outside, queued>> PROVE Waiting' \subseteq Waiting
      BY <3>3 DEF Waiting
    <3> QED BY <1>2, <3>1, <3>2, <3>3 DEF Peers, OutsideSend, DestSend, DestEnds
  <2>3. \A s \in Sessions : dest[s] = "idle" => dest'[s] = "idle"
    <3>1. ASSUME NEW s \in Sessions, NEW how \in Endings, DestEnds(s, how)
          PROVE  \A r \in Sessions : dest[r] = "idle" => dest'[r] = "idle"
      BY <3>1 DEF DestEnds, StillReads, TypeInv, PeersOK
    <3> QED BY <1>2, <3>1 DEF Peers, OutsideConnect, OutsideSend, OutsideEnds, DestSend
  <2> QED BY <2>1, <2>2, <2>3, WireKeptThins DEF NoOpen
<1>3. CASE Server
  BY <1>3, ServerOpenMove
<1>4. CASE Client
  BY <1>4, ClientOpenMove
<1>5. CASE FaultStep
  <2>1. CASE Break
    <3>1. toClient' \in Beginnings(toClient) /\ UNCHANGED <<outside, dest, queued>>
      BY <2>1 DEF Break, LoseToClient
    <3> QED BY <1>1, <3>1, ClientQueueThins
  <2>2. CASE ServerSigpipe \/ KillServer
    <3>1. ServerStops /\ UNCHANGED <<outside, dest>>
      BY <2>2 DEF ServerSigpipe, KillServer
    <3> QED BY <1>1, <3>1, ServerStopsThins DEF ServerStops
  <2>3. CASE ClientSigpipe \/ KillClient
    BY <1>1, <2>3, CloseClientEndThins DEF ClientSigpipe, KillClient, ClientStops
  <2>4. CASE StartServer \/ StartClient
    BY <1>1, <2>4, WireKeptThins DEF StartServer, StartClient, tunnelVars
  <2> QED BY <1>5, <2>1, <2>2, <2>3, <2>4 DEF FaultStep
<1> QED BY <1>2, <1>3, <1>4, <1>5 DEF InStep

\* Only AcceptOutside gives a session a number, its first and last.
LEMMA SessionStep ==
  ASSUME TypeInv, SessionOnce, InStep
  PROVE  SessionOnce'
<1>1. Waiting' \subseteq Waiting
  BY OpenMove DEF NoOpen, ServerOpens, DestOpens
<1>2. CASE NoNews
  BY <1>1, <1>2 DEF SessionOnce, NoNews
<1>3. ASSUME NEW s \in Sessions, NEW ok \in BOOLEAN, AcceptOutside(s, ok) PROVE SessionOnce'
  <2>1. \A id \in ConnIds, r \in Sessions :
          Known(id, r)' => Known(id, r) \/ (id = next_conn_id /\ r = s)
    BY <1>3, AcceptOutsideWire
  <2>2. s \in Waiting /\ s \notin Waiting'
    BY <1>3 DEF AcceptOutside, Waiting, TypeInv, PeersOK
  <2>3. \A id \in ConnIds : ~Known(id, s)
    BY <2>2 DEF SessionOnce
  <2> QED BY <1>1, <2>1, <2>2, <2>3 DEF SessionOnce
<1> QED BY <1>2, <1>3, NewsStep

LEMMA OpenInit == ASSUME Init PROVE OpenInv
<1>1. DOMAIN <<>> = {} /\ Range(<<>>) = {}
  BY NoMessages
<1>2. \A id \in ConnIds, s \in Sessions : ~Known(id, s)
  BY <1>1, SessionsAssumption DEF Init, Known, NoConns
<1> QED BY <1>1, <1>2 DEF Init, OpenInv, OpenFirst, SessionOnce, Waiting

LEMMA OpenStutter == ASSUME OpenInv, UNCHANGED vars PROVE OpenInv'
<1> USE DEF vars, outsideVars, destVars, serverVars, clientVars, tunnelVars
<1>1. SessionOnce'
  BY DEF OpenInv, SessionOnce, Known, Waiting
<1> QED BY <1>1 DEF OpenInv, OpenFirst, Waiting

LEMMA OpenInductive == Spec => [](~misread => OpenInv)
<1> DEFINE J == ~misread => OpenInv
<1>1. Init => J
  BY OpenInit
<1>2. ASSUME TypeInv, TypeInv', J, [Next]_vars PROVE J'
  <2> SUFFICES ASSUME ~misread' PROVE OpenInv'
    OBVIOUS
  <2>1. CASE Next
    <3>1. InStep /\ OpenInv
      BY <1>2, <2>1, InStepBefore
    <3> QED BY <1>2, <3>1, OpenMove, OpenKept, SessionStep DEF TypeInv, OpenInv
  <2>2. CASE UNCHANGED vars
    <3>1. ~misread
      BY <2>2 DEF vars, readVars
    <3> QED BY <1>2, <2>2, <3>1, OpenStutter
  <2> QED BY <1>2, <2>1, <2>2
<1> HIDE DEF J
<1>3. TypeInv /\ TypeInv' /\ J /\ [Next]_vars => J'
  BY <1>2
<1>4. Spec => []J
  BY <1>1, <1>3, TypeInductive, PTL DEF Spec
<1>5. J => (~misread => OpenInv)
  BY DEF J
<1> QED BY <1>4, <1>5, PTL

-----------------------------------------------------------------------------
(* A connection is read only while it is in the table of its program.      *)

\* Nothing has been read of a session that waits, and the client has connected to the
\* destination of each connection in its table.
LinkInv ==
  /\ \A s \in Waiting : outRead[s] = 0 /\ destRead[s] = 0
  /\ \A id \in ConnIds : ClientHas(id) => dest[clientConns[id]] # "idle"

OutsideReads == UNCHANGED outRead \/ \E id \in ConnIds : ServerHas(id) /\ Counted(outRead, serverConns[id], outRead')
DestReads == UNCHANGED destRead \/ \E id \in ConnIds : ClientHas(id) /\ Counted(destRead, clientConns[id], destRead')

\* The entries of the client's table stay or go, but for the session that is opened.
DestLinks ==
  \/ /\ \A id \in ConnIds : clientConns'[id] \in {clientConns[id], None}
     /\ \A s \in Sessions : dest[s] # "idle" => dest'[s] # "idle"
  \/ \E s \in Sessions, id \in ConnIds :
       clientConns' = [clientConns EXCEPT ![id] = s] /\ dest' = [dest EXCEPT ![s] = "up"]

LEMMA ReadStep ==
  ASSUME InStep
  PROVE  OutsideReads /\ DestReads
<1> USE DEF outsideVars, destVars, OutsideReads, DestReads
<1>1. CASE Peers
  BY <1>1 DEF Peers, OutsideConnect, OutsideSend, OutsideEnds, DestSend, DestEnds
<1>2. CASE FaultStep
  BY <1>2 DEF FaultStep, Break, ServerSigpipe, ClientSigpipe, KillServer, KillClient, StartServer, StartClient
<1>3. CASE Server
  <2>1. ASSUME NEW id \in ConnIds, NEW ok \in BOOLEAN, ReadOutside(id, ok) PROVE OutsideReads /\ DestReads
    BY <2>1 DEF ReadOutside, Counted
  <2>2. ASSUME UNCHANGED <<outRead, destRead>> PROVE OutsideReads /\ DestReads
    BY <2>2
  <2> QED BY <1>3, <2>1, <2>2 DEF Server, AcceptTunnel, ServerTcpClose, ServerUdpPacket, ServerTunnelEnd,
             RejectOutside, ServerReadUdp, AcceptOutside, ReadOutsideEnd, ServerTcpData
<1>4. CASE Client
  <2>1. ASSUME NEW id \in ConnIds, NEW ok \in BOOLEAN, ReadDest(id, ok) PROVE OutsideReads /\ DestReads
    BY <2>1 DEF ReadDest, Counted
  <2>2. ASSUME UNCHANGED <<outRead, destRead>> PROVE OutsideReads /\ DestReads
    BY <2>2
  <2> QED BY <1>4, <2>1, <2>2 DEF Client, Connect, ConnectFails, ClientTcpClose, ClientUdpPacket,
             ClientTunnelEnd, ClientReadUdp, ClientTcpOpen, ClientTcpData, ReadDestEnd
<1> QED BY <1>1, <1>2, <1>3, <1>4 DEF InStep

LEMMA LinkMove ==
  ASSUME TypeInv, InStep
  PROVE  DestLinks
<1> USE DEF destVars, clientVars
<1>0. TablesOK /\ PeersOK
  BY DEF TypeInv
<1>1. ASSUME UNCHANGED <<dest, clientConns>> PROVE DestLinks
  BY <1>1 DEF DestLinks
<1>2. ASSUME UNCHANGED dest, clientConns' = NoConns PROVE DestLinks
  BY <1>2 DEF DestLinks, NoConns
<1>3. ASSUME UNCHANGED dest, NEW id, ClientRemove(id) PROVE DestLinks
  BY <1>0, <1>3 DEF DestLinks, ClientRemove, TablesOK
<1>4. CASE Peers
  <2>1. ASSUME NEW s \in Sessions, NEW how \in Endings, DestEnds(s, how) PROVE DestLinks
    <3>1. how # "idle" /\ dest' = [dest EXCEPT ![s] = how] /\ UNCHANGED clientConns
      BY <2>1, EndingsAssumption DEF Ended, DestEnds
    <3> QED BY <1>0, <3>1 DEF DestLinks, PeersOK
  <2> QED BY <1>1, <1>4, <2>1 DEF Peers, OutsideConnect, OutsideSend, OutsideEnds, DestSend
<1>5. CASE Server
  BY <1>1, <1>5 DEF Server, AcceptTunnel, ServerTcpClose, ServerUdpPacket, ServerTunnelEnd,
     RejectOutside, ServerReadUdp, AcceptOutside, ReadOutside, ReadOutsideEnd, ServerTcpData
<1>6. CASE Client
  <2>1. ASSUME NEW b \in BOOLEAN, NEW ok \in BOOLEAN, ClientTcpOpen(b, ok) PROVE DestLinks
    <3>1. ClientHead(TCP_OPEN) /\ ClientPop
      BY <2>1 DEF ClientTcpOpen
    <3>2. ClientMsg \in Carried(MaxOut) /\ ClientMsg.type = TCP_OPEN
      BY <3>1, ClientHeadWire DEF TCP_OPEN
    <3>3. ClientMsg.session \in Sessions /\ ClientMsg.conn_id \in ConnIds
      BY <3>2 DEF Carried, TCP_OPEN, UDP_PACKET
    <3> QED BY <1>1, <2>1, <3>3 DEF ClientTcpOpen, DestLinks
  <2>2. ASSUME NEW w \in BOOLEAN, NEW ok \in BOOLEAN, ClientTcpData(w, ok) PROVE DestLinks
    BY <1>1, <1>3, <2>2 DEF ClientTcpData
  <2>3. ASSUME NEW id \in ConnIds, NEW ok \in BOOLEAN, ReadDest(id, ok) \/ ReadDestEnd(id, ok) PROVE DestLinks
    BY <1>1, <1>3, <2>3 DEF ReadDest, ReadDestEnd
  <2>4. CASE Connect \/ ConnectFails \/ ClientTcpClose \/ ClientUdpPacket \/ ClientTunnelEnd
    BY <1>1, <1>2, <1>3, <2>4 DEF Connect, ConnectFails, ClientStops, ClientTcpClose, ClientUdpPacket, ClientTunnelEnd
  <2>5. ASSUME NEW ok \in BOOLEAN, ClientReadUdp(ok) PROVE DestLinks
    BY <1>1, <2>5 DEF ClientReadUdp
  <2> QED BY <1>6, <2>1, <2>2, <2>3, <2>4, <2>5 DEF Client
<1>7. CASE FaultStep
  BY <1>1, <1>2, <1>7 DEF FaultStep, Break, ServerSigpipe, ClientSigpipe, KillServer, KillClient, StartServer,
     StartClient, ClientStops
<1> QED BY <1>4, <1>5, <1>6, <1>7 DEF InStep

LEMMA LinkStep ==
  ASSUME TypeInv, SessionOnce, LinkInv, InStep
  PROVE  LinkInv'
<1>0. TablesOK /\ PeersOK
  BY DEF TypeInv
<1>1. Waiting' \subseteq Waiting
  BY OpenMove DEF NoOpen, ServerOpens, DestOpens
<1>2. \A s \in Waiting : outRead'[s] = outRead[s] /\ destRead'[s] = destRead[s]
  <2> TAKE s \in Waiting
  <2>1. s \in Sessions /\ \A id \in ConnIds : serverConns[id] # s /\ clientConns[id] # s
    BY DEF SessionOnce, Known, Waiting
  <2> QED BY <1>0, <2>1, ReadStep DEF OutsideReads, DestReads, Counted, PeersOK
<1>3. \A id \in ConnIds : ClientHas(id)' => dest'[clientConns'[id]] # "idle"
  <2>1. ASSUME \A id \in ConnIds : clientConns'[id] \in {clientConns[id], None},
               \A s \in Sessions : dest[s] # "idle" => dest'[s] # "idle", NEW id \in ConnIds, ClientHas(id)'
        PROVE  dest'[clientConns'[id]] # "idle"
    <3>1. clientConns'[id] = clientConns[id] /\ ClientHas(id) /\ clientConns[id] \in Sessions
      BY <1>0, <2>1 DEF ClientHas, TablesOK
    <3> QED BY <2>1, <3>1 DEF LinkInv
  <2>2. ASSUME NEW s \in Sessions, NEW n \in ConnIds, clientConns' = [clientConns EXCEPT ![n] = s],
               dest' = [dest EXCEPT ![s] = "up"], NEW id \in ConnIds, ClientHas(id)'
        PROVE  dest'[clientConns'[id]] # "idle"
    <3>1. \A x \in Sessions : dest'[x] = IF x = s THEN "up" ELSE dest[x]
      BY <1>0, <2>2 DEF PeersOK
    <3>2. clientConns'[id] = IF id = n THEN s ELSE clientConns[id]
      BY <1>0, <2>2 DEF TablesOK
    <3>3. id # n => ClientHas(id) /\ clientConns[id] \in Sessions
      BY <1>0, <2>2, <3>2 DEF ClientHas, TablesOK
    <3> QED BY <3>1, <3>2, <3>3 DEF LinkInv
  <2> QED BY <2>1, <2>2, LinkMove DEF DestLinks
<1> QED BY <1>1, <1>2, <1>3 DEF LinkInv

LEMMA LinkInductive == Spec => [](~misread => LinkInv)
<1> DEFINE J == ~misread => LinkInv
           O == ~misread => OpenInv
<1>1. Init => J
  BY DEF Init, LinkInv, Waiting, ClientHas, NoConns
<1>2. ASSUME TypeInv, O, J, [Next]_vars PROVE J'
  <2> SUFFICES ASSUME ~misread' PROVE LinkInv'
    OBVIOUS
  <2>1. CASE Next
    BY <1>2, <2>1, InStepBefore, LinkStep DEF OpenInv
  <2>2. CASE UNCHANGED vars
    BY <1>2, <2>2 DEF LinkInv, Waiting, ClientHas, vars, outsideVars, destVars, clientVars, readVars
  <2> QED BY <1>2, <2>1, <2>2
<1>3. Spec => []O
  BY OpenInductive
<1> HIDE DEF J, O
<1>4. TypeInv /\ O /\ J /\ [Next]_vars => J'
  BY <1>2
<1>5. Spec => []J
  BY <1>1, <1>3, <1>4, TypeInductive, PTL DEF Spec
<1>6. J => (~misread => LinkInv)
  BY DEF J
<1> QED BY <1>5, <1>6, PTL

-----------------------------------------------------------------------------
(* The one tunnel. While both programs run it leads from one to the other. *)

Both == serverUp /\ InLoop

CalmInv ==
  /\ tunnels <= 1
  /\ serverUp /\ clientPhase \in {"connect", "loop"} => faults = 0
  /\ tunnels = 0 => serverConns = NoConns /\ clientConns = NoConns /\ toClient = <<>>
  /\ Both /\ ~HasTunnel => serverConns = NoConns

LEMMA BothFacts ==
  ASSUME TunnelsOK, CalmInv, Both
  PROVE  /\ clientTunnel = 1 /\ tunnels = 1 /\ ~ClientCut /\ 1 \in Tunnels
         /\ IF HasTunnel THEN serverTunnel = 1 /\ ~ServerCut ELSE serverTunnel = 0
<1>1. tunnels \in Nat /\ tunnels # 0 /\ tunnels <= 1 /\ clientTunnel = tunnels /\ faults = 0
  BY DEF TunnelsOK, CalmInv, Both, InLoop
<1>2. tunnels = 1 /\ ~(tunnels <= faults)
  BY <1>1
<1>3. ~ClientCut
  BY <1>2 DEF TunnelsOK, Both
<1>4. 1 \in Tunnels /\ serverTunnel \in 0 .. 1
  BY <1>2, HeldTunnels DEF TunnelsOK
<1>5. 1 \notin broken
  BY <1>1, <1>2, <1>3 DEF ClientCut
<1>6. serverTunnel = 0 \/ serverTunnel = 1
  BY <1>4
<1> QED BY <1>1, <1>2, <1>3, <1>4, <1>5, <1>6 DEF HasTunnel, ServerCut

\* The one tunnel that the server accepts takes the place of none.
LEMMA AcceptsFirst ==
  ASSUME TypeInv, tunnels <= 1, AcceptTunnel
  PROVE  serverTunnel = 0 /\ serverTunnel' = 1 /\ UNCHANGED <<toClient, toServer>>
<1>1. backlog # <<>> /\ serverTunnel' = Head(backlog) /\ CloseServerEnd(serverTunnel)
  BY DEF AcceptTunnel
<1>2. /\ tunnels \in Nat /\ backlog \in Seq(1 .. tunnels) /\ serverTunnel \in 0 .. tunnels
      /\ \A i \in DOMAIN backlog : serverTunnel < backlog[i]
  BY DEF TypeInv, TunnelsOK
<1>3. Head(backlog) \in 1 .. tunnels /\ \E i \in DOMAIN backlog : Head(backlog) = backlog[i]
  BY <1>1, <1>2, TailRange DEF Range
<1>4. serverTunnel = 0 /\ Head(backlog) = 1
  BY <1>2, <1>3
<1>5. UNCHANGED toClient /\ toServer' = [u \in Tunnels |-> IF u = 0 THEN <<>> ELSE toServer[u]]
  BY <1>1, <1>4 DEF CloseServerEnd
<1>6. \A u \in Tunnels : u # 0
  BY DEF Tunnels
<1>7. toServer \in [Tunnels -> Seq(Carried(MaxDest))]
  BY DEF TypeInv, WireOK
<1> QED BY <1>1, <1>4, <1>5, <1>6, <1>7

LEMMA ServerCalm ==
  ASSUME TypeInv, CalmInv, Server
  PROVE  CalmInv'
<1> USE DEF clientVars, boundVars
<1>1. UNCHANGED <<clientPhase, clientConns, tunnels, faults, serverUp>>
  BY DEF Server, AcceptTunnel, ServerTcpClose, ServerUdpPacket, ServerTunnelEnd, RejectOutside, ServerReadUdp,
     AcceptOutside, ReadOutside, ReadOutsideEnd, ServerTcpData, serverVars, tunnelVars
<1>2. tunnels = 0 => ~HasTunnel /\ ~AcceptTunnel
  <2>1. tunnels = 0 => serverTunnel = 0
    BY DEF TypeInv, TunnelsOK
  <2>2. CASE AcceptTunnel
    <3>1. serverTunnel' = 1 /\ serverTunnel' \in 0 .. tunnels'
      BY <2>2, AcceptsFirst, TunnelsStep DEF CalmInv, TunnelsOK, InStep
    <3> QED BY <1>1, <2>1, <3>1 DEF HasTunnel
  <2> QED BY <2>1, <2>2 DEF HasTunnel
<1>3. TablesOK
  BY DEF TypeInv
<1>4. ASSUME NEW id, ServerRemove(id), serverConns = NoConns PROVE serverConns' = NoConns
  BY <1>3, <1>4 DEF ServerRemove, NoConns
<1>5. ASSUME ~HasTunnel PROVE UNCHANGED toClient /\ (serverConns = NoConns => serverConns' = NoConns)
  <2>1. CASE AcceptTunnel
    BY <2>1, AcceptsFirst DEF CalmInv, AcceptTunnel
  <2>2. CASE ~AcceptTunnel
    BY <1>4, <1>5, <2>2 DEF Server, ServerTcpClose, ServerUdpPacket, ServerTunnelEnd, ServerHead,
       RejectOutside, ServerReadUdp, AcceptOutside, ReadOutside, ReadOutsideEnd, ServerTcpData, serverVars, tunnelVars
  <2> QED BY <2>1, <2>2
<1>6. Both /\ HasTunnel => HasTunnel'
  <2>1. ASSUME Both, HasTunnel PROVE ~ServerCut
    BY <2>1, BothFacts DEF TypeInv
  <2>2. CASE AcceptTunnel
    BY <2>2, AcceptsFirst DEF CalmInv, HasTunnel
  <2>3. CASE ~AcceptTunnel
    BY <2>1, <2>3 DEF Server, ServerTcpClose, ServerUdpPacket, ServerTunnelEnd, HasTunnel,
       RejectOutside, ServerReadUdp, AcceptOutside, ReadOutside, ReadOutsideEnd, ServerTcpData, serverVars
  <2> QED BY <2>2, <2>3
<1>7. Both' => Both
  BY <1>1 DEF Both, InLoop
<1>8. tunnels = 0 => serverConns' = NoConns /\ UNCHANGED toClient
  BY <1>2, <1>5 DEF CalmInv
<1>9. Both' /\ ~HasTunnel' => serverConns' = NoConns
  BY <1>5, <1>6, <1>7 DEF CalmInv
<1> QED BY <1>1, <1>8, <1>9 DEF CalmInv

LEMMA ClientCalm ==
  ASSUME OneTunnel, TypeInv, CalmInv, Client
  PROVE  CalmInv'
<1> USE DEF serverVars, boundVars
<1>0. ConnectFails => ~serverUp /\ UNCHANGED faults
  BY DEF OneTunnel, ConnectFails
<1>1. UNCHANGED <<serverUp, serverConns, serverTunnel, faults>>
  BY <1>0 DEF Client, Connect, ConnectFails, ClientTcpClose, ClientUdpPacket, ClientTunnelEnd, ClientReadUdp,
     ClientTcpOpen, ClientTcpData, ReadDest, ReadDestEnd
<1>2. CASE Connect
  <2>1. clientPhase = "connect" /\ serverUp /\ tunnels' = tunnels + 1
    BY <1>2 DEF Connect
  <2>2. tunnels = 0
    BY <2>1 DEF TypeInv, TunnelsOK, CalmInv
  <2> QED BY <1>1, <2>1, <2>2 DEF CalmInv
<1>3. CASE ConnectFails
  <2>1. ~serverUp /\ UNCHANGED tunnels
    BY <1>0, <1>3 DEF ConnectFails
  <2>2. \/ UNCHANGED <<clientConns, toClient>>
        \/ clientConns' = NoConns /\ toClient' = <<>>
    BY <1>3 DEF ConnectFails, ClientStops, CloseClientEnd
  <2> QED BY <1>1, <2>1, <2>2 DEF CalmInv, Both
<1>4. CASE ~Connect /\ ~ConnectFails
  <2>1. InLoop /\ UNCHANGED tunnels
    BY <1>4 DEF Client, ClientTcpClose, ClientUdpPacket, ClientTunnelEnd, ClientReadUdp, ClientTcpOpen,
       ClientTcpData, ReadDest, ReadDestEnd, ClientHead
  <2>2. tunnels # 0
    BY <2>1 DEF TypeInv, TunnelsOK
  <2> QED BY <1>1, <2>1, <2>2 DEF CalmInv, Both, HasTunnel, InLoop
<1> QED BY <1>2, <1>3, <1>4

\* A reconstructor holds a part of a message of another tunnel only once there were two.
LEMMA NeverMisreads ==
  ASSUME TypeInv, CalmInv, Next
  PROVE  InStep
<1>1. /\ tunnels \in Nat /\ tunnels <= 1 /\ halfToClient \subseteq 1 .. tunnels
      /\ halfToServer \subseteq 1 .. tunnels
      /\ serverTunnel \in 0 .. tunnels /\ (clientTunnel = tunnels \/ clientTunnel = 0)
  BY DEF TypeInv, TunnelsOK, HalvesOK, CalmInv
<1>2. ~ServerOutOfStep /\ ~ClientOutOfStep
  <2>1. \A t \in 1 .. tunnels : ~(t < serverTunnel) /\ ~(t < clientTunnel)
    BY <1>1
  <2> QED BY <1>1, <2>1 DEF ServerOutOfStep, ClientOutOfStep
<1> QED BY <1>2 DEF Next, Misreads, ServerMisreads, ClientMisreads

LEMMA CalmStep ==
  ASSUME OneTunnel, TypeInv, CalmInv, InStep
  PROVE  CalmInv'
<1>1. CASE Peers
  BY <1>1 DEF Peers, OutsideConnect, OutsideSend, OutsideEnds, DestSend, DestEnds, serverVars, clientVars,
     tunnelVars, boundVars, CalmInv, Both, InLoop, HasTunnel
<1>2. CASE FaultStep
  <2>1. ~Break /\ ~StartServer /\ ~StartClient
    BY DEF OneTunnel, Break, StartServer, StartClient
  <2>2. CASE ServerSigpipe \/ KillServer
    <3>1. serverUp' = FALSE /\ serverConns' = NoConns /\ toClient' \in Beginnings(toClient)
          /\ UNCHANGED <<clientConns, tunnels>>
      BY <2>2 DEF ServerSigpipe, KillServer, ServerStops, LoseToClient, clientVars
    <3>2. toClient = <<>> => toClient' = <<>>
      <4>1. ASSUME toClient = <<>> PROVE toClient' = <<>>
        <5>1. toClient \in Seq(Carried(MaxOut)) /\ toClient' \in Seq(Carried(MaxOut))
          BY <3>1, BeginningWire DEF TypeInv, WireOK
        <5>2. Thins(toClient', toClient)
          BY <3>1, ClientQueueThins
        <5> QED BY <4>1, <5>1, <5>2, ThinRising
      <4> QED BY <4>1
    <3> QED BY <3>1, <3>2 DEF CalmInv, Both
  <2>3. CASE ClientSigpipe \/ KillClient
    <3>1. clientPhase' = "dead" /\ clientConns' = NoConns /\ toClient' = <<>>
          /\ UNCHANGED <<serverConns, tunnels>>
      BY <2>3 DEF ClientSigpipe, KillClient, ClientStops, CloseClientEnd, serverVars
    <3> QED BY <3>1 DEF CalmInv, Both, InLoop
  <2> QED BY <1>2, <2>1, <2>2, <2>3 DEF FaultStep
<1> QED BY <1>1, <1>2, ServerCalm, ClientCalm DEF InStep

LEMMA CalmInductive == ASSUME OneTunnel PROVE Spec => []CalmInv
<1>1. Init => CalmInv
  BY DEF Init, CalmInv, Both, InLoop
<1>2. TypeInv /\ CalmInv /\ [Next]_vars => CalmInv'
  <2>1. ASSUME CalmInv, UNCHANGED vars PROVE CalmInv'
    BY <2>1 DEF vars, serverVars, clientVars, tunnelVars, boundVars, CalmInv, Both, InLoop, HasTunnel
  <2> QED BY <2>1, CalmStep, NeverMisreads
<1> QED BY <1>1, <1>2, TypeInductive, PTL DEF Spec

\* With one tunnel nothing is misread: there is no next tunnel to read on from.
LEMMA NothingMisread == ASSUME OneTunnel PROVE Spec => []~misread
<1>1. Init => ~misread
  BY DEF Init
<1>2. TypeInv /\ CalmInv /\ ~misread /\ [Next]_vars => ~misread'
  BY NeverMisreads, MisreadKept DEF vars, readVars
<1> QED BY <1>1, <1>2, TypeInductive, CalmInductive, PTL DEF Spec

\* Both run after a step only if they did before, or the client has just connected to a
\* server that has no connection yet.
LEMMA BothBefore ==
  ASSUME OneTunnel, TypeInv, CalmInv, InStep, Both'
  PROVE  \/ Both
         \/ Connect /\ tunnels = 0
<1>1. serverUp
  <2>1. Peers => UNCHANGED serverUp
    BY DEF Peers, OutsideConnect, OutsideSend, OutsideEnds, DestSend, DestEnds, serverVars
  <2>2. Server => UNCHANGED serverUp
    BY DEF Server, AcceptTunnel, ServerTcpClose, ServerUdpPacket, ServerTunnelEnd, RejectOutside, ServerReadUdp,
       AcceptOutside, ReadOutside, ReadOutsideEnd, ServerTcpData, serverVars
  <2>3. Client => UNCHANGED serverUp
    BY DEF Client, Connect, ConnectFails, ClientTcpClose, ClientUdpPacket, ClientTunnelEnd, ClientReadUdp,
       ClientTcpOpen, ClientTcpData, ReadDest, ReadDestEnd, serverVars
  <2>4. FaultStep => UNCHANGED serverUp \/ serverUp' = FALSE
    BY DEF OneTunnel, FaultStep, Break, ServerSigpipe, KillServer, ClientSigpipe, KillClient, StartServer,
       StartClient, ServerStops, serverVars
  <2> QED BY <2>1, <2>2, <2>3, <2>4 DEF Both, InStep
<1>2. CASE InLoop
  BY <1>1, <1>2 DEF Both
<1>3. CASE Connect
  BY <1>3 DEF Connect, CalmInv, TypeInv, TunnelsOK
<1>4. CASE ~InLoop /\ ~Connect
  <2>1. Peers => UNCHANGED clientPhase
    BY DEF Peers, OutsideConnect, OutsideSend, OutsideEnds, DestSend, DestEnds, clientVars
  <2>2. Server => UNCHANGED clientPhase
    BY DEF Server, AcceptTunnel, ServerTcpClose, ServerUdpPacket, ServerTunnelEnd, RejectOutside, ServerReadUdp,
       AcceptOutside, ReadOutside, ReadOutsideEnd, ServerTcpData, clientVars
  <2>3. Client => UNCHANGED clientPhase \/ clientPhase' = "gaveup"
    BY <1>4 DEF Client, ConnectFails, ClientTcpClose, ClientUdpPacket, ClientTunnelEnd, ClientReadUdp,
       ClientTcpOpen, ClientTcpData, ReadDest, ReadDestEnd, ClientHead, ClientStops
  <2>4. FaultStep => UNCHANGED clientPhase \/ clientPhase' = "dead"
    BY DEF OneTunnel, FaultStep, Break, ServerSigpipe, KillServer, ClientSigpipe, KillClient, StartServer,
       StartClient, ClientStops, clientVars
  <2> QED BY <1>4, <2>1, <2>2, <2>3, <2>4 DEF Both, InLoop, InStep
<1> QED BY <1>2, <1>3, <1>4

-----------------------------------------------------------------------------
(* The strengthening of NoOrphans: what one table lacks is on the way.     *)

OpenTo(id)    == InFlight(toClient, TCP_OPEN, id)
CloseTo(id)   == InFlight(toClient, TCP_CLOSE, id)
CloseFrom(id) == InFlight(toServer[1], TCP_CLOSE, id)

Told(id) ==
  /\ CloseTo(id) => ~ServerHas(id)
  /\ ServerHas(id) /\ ~ClientHas(id) => OpenTo(id) \/ CloseFrom(id)
  /\ ~ServerHas(id) /\ (ClientHas(id) \/ OpenTo(id)) => CloseTo(id)
  /\ ClientHas(id) \/ CloseFrom(id) => ~OpenTo(id)
  /\ CloseFrom(id) => ~ClientHas(id)

ToldInv == Both => \A id \in ConnIds : Told(id)

LEMMA HeadTailRange ==
  ASSUME NEW S, NEW q \in Seq(S), q # <<>>
  PROVE  Range(q) = Range(Tail(q)) \cup {Head(q)}
<1>1. /\ Tail(q) \in Seq(S) /\ Len(Tail(q)) = Len(q) - 1
      /\ \A i \in 1 .. Len(Tail(q)) : Tail(q)[i] = q[i + 1]
  BY HeadTailProperties
<1>2. /\ Len(q) \in Nat /\ DOMAIN q = 1 .. Len(q) /\ DOMAIN Tail(q) = 1 .. Len(q) - 1
      /\ Head(q) = q[1]
  BY <1>1, LenProperties
<1>3. \A i \in 1 .. Len(q) : i = 1 \/ (i - 1 \in 1 .. Len(q) - 1 /\ (i - 1) + 1 = i)
  BY <1>2
<1>4. \A i \in 1 .. Len(q) : q[i] \in Range(Tail(q)) \cup {Head(q)}
  <2> TAKE i \in 1 .. Len(q)
  <2>1. CASE i = 1
    BY <1>2, <2>1
  <2>2. CASE i - 1 \in 1 .. Len(q) - 1 /\ (i - 1) + 1 = i
    <3>1. q[i] = Tail(q)[i - 1] /\ i - 1 \in DOMAIN Tail(q)
      BY <1>1, <1>2, <2>2
    <3> QED BY <3>1 DEF Range
  <2> QED BY <1>3, <2>1, <2>2
<1>5. Range(q) \subseteq Range(Tail(q)) \cup {Head(q)}
  BY <1>2, <1>4 DEF Range
<1> QED BY <1>5, TailRange

LEMMA InFlightRange ==
  ASSUME NEW q, NEW type, NEW id
  PROVE  InFlight(q, type, id) <=> \E m \in Range(q) : m.type = type /\ m.conn_id = id
BY DEF InFlight, Range

LEMMA InFlightAppend ==
  ASSUME NEW S, NEW q \in Seq(S), NEW m \in S, NEW type, NEW id
  PROVE  InFlight(Append(q, m), type, id)
           <=> InFlight(q, type, id) \/ (m.type = type /\ m.conn_id = id)
<1>1. Range(Append(q, m)) = Range(q) \cup {m}
  BY AppendRange
<1> QED BY <1>1, InFlightRange

LEMMA InFlightTail ==
  ASSUME NEW S, NEW q \in Seq(S), q # <<>>, NEW type, NEW id
  PROVE  InFlight(q, type, id)
           <=> InFlight(Tail(q), type, id) \/ (Head(q).type = type /\ Head(q).conn_id = id)
<1>1. Range(q) = Range(Tail(q)) \cup {Head(q)}
  BY HeadTailRange
<1> QED BY <1>1, InFlightRange

\* What is sent while both run arrives, and is the only change on the way.
LEMMA SentToClient ==
  ASSUME TypeInv, CalmInv, Both, HasTunnel, NEW m \in Carried(MaxOut), NEW ok, SendToClient(m, ok)
  PROVE  /\ toClient' = Append(toClient, m)
         /\ \A id : /\ OpenTo(id)' <=> OpenTo(id) \/ (m.type = TCP_OPEN /\ m.conn_id = id)
                    /\ CloseTo(id)' <=> CloseTo(id) \/ (m.type = TCP_CLOSE /\ m.conn_id = id)
<1>1. ~ServerCut
  BY BothFacts DEF TypeInv
<1>2. toClient' = Append(toClient, m) /\ toClient \in Seq(Carried(MaxOut))
  BY <1>1 DEF SendToClient, TypeInv, WireOK
<1> QED BY <1>2, InFlightAppend DEF OpenTo, CloseTo

LEMMA SentToServer ==
  ASSUME TypeInv, CalmInv, Both, NEW m \in Carried(MaxDest), NEW ok, SendToServer(m, ok)
  PROVE  /\ toServer' = [toServer EXCEPT ![1] = Append(toServer[1], m)]
         /\ \A id : CloseFrom(id)' <=> CloseFrom(id) \/ (m.type = TCP_CLOSE /\ m.conn_id = id)
<1>1. clientTunnel = 1 /\ ~ClientCut /\ 1 \in Tunnels
  BY BothFacts DEF TypeInv
<1>2. /\ toServer' = [toServer EXCEPT ![1] = Append(toServer[1], m)]
      /\ toServer \in [Tunnels -> Seq(Carried(MaxDest))]
  BY <1>1 DEF SendToServer, TypeInv, WireOK
<1>3. toServer'[1] = Append(toServer[1], m) /\ toServer[1] \in Seq(Carried(MaxDest))
  BY <1>1, <1>2
<1> QED BY <1>2, <1>3, InFlightAppend DEF CloseFrom

\* A message is taken: if it is about a connection, none of the rest opens that.
LEMMA TakenByClient ==
  ASSUME TypeInv, KnownOnce, OpenInv, NEW type \in 1 .. 4, ClientHead(type), ClientPop
  PROVE  /\ ClientMsg \in Carried(MaxOut) /\ ClientMsg.type = type
         /\ \A id : /\ OpenTo(id) <=> OpenTo(id)' \/ (type = TCP_OPEN /\ ClientMsg.conn_id = id)
                    /\ CloseTo(id) <=> CloseTo(id)' \/ (type = TCP_CLOSE /\ ClientMsg.conn_id = id)
         /\ type # UDP_PACKET =>
              /\ ClientMsg.conn_id \in ConnIds
              /\ \A id : ClientMsg.conn_id = id => ~OpenTo(id)'
<1>1. /\ toClient \in Seq(Carried(MaxOut)) /\ toClient # <<>> /\ toClient' = Tail(toClient)
      /\ ClientMsg = Head(toClient)
  BY DEF TypeInv, WireOK, ClientHead, ClientPop, ClientMsg
<1>2. /\ ClientMsg \in Carried(MaxOut) /\ ClientMsg.type = type /\ ClientMsg \in Range(toClient)
      /\ Range(toClient') \subseteq Range(toClient)
  BY <1>1, ClientHeadWire, TailRange
<1>3. ASSUME type # UDP_PACKET, NEW id, ClientMsg.conn_id = id PROVE id \in ConnIds /\ ~OpenTo(id)'
  <2>1. PICK s \in Sessions : id \in ConnIds /\ Known(id, s) /\ Tells(Head(toClient), s)
    BY <1>1, <1>2, <1>3, MessageKnown DEF Tells
  <2>2. ASSUME NEW m \in Range(toClient'), m.type = TCP_OPEN, m.conn_id = id PROVE FALSE
    <3>1. m \in Carried(MaxOut) /\ m \in Range(toClient) /\ m.type # UDP_PACKET
      BY <1>1, <1>2, <2>2, ElementOfSeq, LenProperties DEF Range, TCP_OPEN, UDP_PACKET
    <3>2. m.session \in Sessions /\ Known(id, m.session)
      BY <2>2, <3>1, MessageKnown
    <3>3. Opens(m, s)
      BY <2>1, <2>2, <3>2 DEF KnownOnce, Opens
    <3> QED BY <1>1, <2>1, <2>2, <3>3, HeadOpenFirst DEF OpenInv
  <2> QED BY <2>1, <2>2, InFlightRange DEF OpenTo
<1> QED BY <1>1, <1>2, <1>3, InFlightTail DEF OpenTo, CloseTo

LEMMA TakenByServer ==
  ASSUME TypeInv, CalmInv, Both, NEW type \in 1 .. 4, ServerHead(type), ServerPop
  PROVE  /\ ServerMsg \in Carried(MaxDest) /\ ServerMsg.type = type /\ serverTunnel = 1
         /\ toServer[1] # <<>> /\ toServer'[1] = Tail(toServer[1]) /\ ServerMsg = Head(toServer[1])
         /\ \A id : CloseFrom(id) <=> CloseFrom(id)' \/ (type = TCP_CLOSE /\ ServerMsg.conn_id = id)
<1>1. serverTunnel = 1 /\ 1 \in Tunnels
  BY BothFacts DEF TypeInv, ServerHead
<1>2. /\ toServer \in [Tunnels -> Seq(Carried(MaxDest))] /\ toServer[1] # <<>>
      /\ toServer' = [toServer EXCEPT ![1] = Tail(toServer[1])] /\ ServerMsg = Head(toServer[1])
  BY <1>1 DEF TypeInv, WireOK, ServerHead, ServerPop, ServerMsg
<1>3. toServer'[1] = Tail(toServer[1]) /\ toServer[1] \in Seq(Carried(MaxDest))
  BY <1>1, <1>2
<1>4. ServerMsg \in Carried(MaxDest) /\ ServerMsg.type = type
  BY ServerHeadWire
<1> QED BY <1>1, <1>2, <1>3, <1>4, InFlightTail DEF CloseFrom

\* The tables' entries and the messages on the way that are about other numbers stay.
TablesSame(id) == (ServerHas(id)' <=> ServerHas(id)) /\ (ClientHas(id)' <=> ClientHas(id))
ToClientSame(id) == (OpenTo(id)' <=> OpenTo(id)) /\ (CloseTo(id)' <=> CloseTo(id))

LEMMA EntrySet ==
  ASSUME NEW conns \in [ConnIds -> Sessions \cup {None}], NEW n \in ConnIds, NEW x, NEW new,
         new = [conns EXCEPT ![n] = x], NEW id \in ConnIds
  PROVE  new[id] = IF id = n THEN x ELSE conns[id]
OBVIOUS

LEMMA AcceptTold ==
  ASSUME TypeInv, KnownOnce, CalmInv, Both, \A id \in ConnIds : Told(id),
         NEW s \in Sessions, NEW ok \in BOOLEAN, AcceptOutside(s, ok)
  PROVE  \A id \in ConnIds : Told(id)'
<1> DEFINE n == next_conn_id
           m == Message(TCP_OPEN, n, s, 0)
<1>1. HasTunnel /\ SendToClient(m, ok) /\ UNCHANGED <<clientConns, toServer>> /\ s \in Waiting
  BY DEF AcceptOutside, clientVars, Waiting
<1>2. n \in ConnIds /\ n \in Nat /\ ~ServerCut
  <2>1. n \in ConnIds
    BY <1>1, NumberLeft DEF TypeInv
  <2>2. n \in Nat
    BY DEF TypeInv, IdsOK
  <2>3. ~ServerCut
    BY <1>1, BothFacts DEF TypeInv
  <2> QED BY <2>1, <2>2, <2>3
<1>3. serverConns' = [serverConns EXCEPT ![n] = s]
  BY <1>1, <1>2 DEF AcceptOutside, SendToClient
<1>4. m \in Carried(MaxOut) /\ m.type = TCP_OPEN /\ m.conn_id = n
  <2>1. m \in Carried(MaxOut)
    BY <1>2, MessageCarried DEF TCP_OPEN, TCP_DATA, UDP_PACKET
  <2> QED BY <2>1 DEF Message
<1> HIDE DEF m
<1>5. \A id : /\ OpenTo(id)' <=> OpenTo(id) \/ n = id
              /\ CloseTo(id)' <=> CloseTo(id)
  <2>1. TCP_OPEN # TCP_CLOSE
    BY DEF TCP_OPEN, TCP_CLOSE
  <2> QED BY <1>1, <1>4, <2>1, SentToClient
<1>6. ~ServerHas(n) /\ ~ClientHas(n) /\ ~CloseTo(n) /\ ~OpenTo(n) /\ ~CloseFrom(n)
  <2>1. \A r \in Sessions : ~Known(n, r)
    BY <1>2 DEF KnownOnce
  <2>2. ~ServerHas(n) /\ ~ClientHas(n)
    BY <1>2, <2>1 DEF Known, ServerHas, ClientHas, TypeInv, TablesOK
  <2>3. \A x \in Range(toClient) : x.type # UDP_PACKET => x.conn_id # n
    <3>1. \A x \in Range(toClient) : x \in Carried(MaxOut)
      BY ElementOfSeq, LenProperties DEF TypeInv, WireOK, Range
    <3> QED BY <2>1, <3>1, MessageKnown
  <2>4. 1 \in Tunnels /\ \A x \in Range(toServer[1]) : x.type # UDP_PACKET => x.conn_id # n
    <3>1. 1 \in Tunnels
      BY BothFacts DEF TypeInv
    <3>2. \A x \in Range(toServer[1]) : x \in Carried(MaxDest)
      BY <3>1, ElementOfSeq, LenProperties DEF TypeInv, WireOK, Range
    <3> QED BY <2>1, <3>1, <3>2, MessageKnown
  <2> QED BY <2>2, <2>3, <2>4, InFlightRange DEF OpenTo, CloseTo, CloseFrom, TCP_OPEN, TCP_CLOSE, UDP_PACKET
<1> HIDE DEF n
<1> TAKE id \in ConnIds
<1>7. /\ ClientHas(id)' <=> ClientHas(id)
      /\ CloseFrom(id)' <=> CloseFrom(id)
      /\ ServerHas(id)' <=> ServerHas(id) \/ n = id
  <2>1. s # None
    BY SessionsAssumption
  <2>2. serverConns'[id] = IF id = n THEN s ELSE serverConns[id]
    BY <1>2, <1>3, EntrySet DEF TypeInv, TablesOK
  <2> QED BY <1>1, <1>6, <2>1, <2>2 DEF ServerHas, ClientHas, CloseFrom
<1> QED BY <1>5, <1>6, <1>7 DEF Told

LEMMA ServerCloseTold ==
  ASSUME TypeInv, CalmInv, Both, \A id \in ConnIds : Told(id),
         NEW n \in ConnIds, NEW s \in Sessions, NEW ok \in BOOLEAN, HasTunnel, ServerHas(n),
         SendToClient(Message(TCP_CLOSE, n, s, 0), ok), ServerRemove(n), UNCHANGED clientConns,
         \A id \in ConnIds : CloseFrom(id)' <=> CloseFrom(id)
  PROVE  \A id \in ConnIds : Told(id)'
<1> DEFINE m == Message(TCP_CLOSE, n, s, 0)
<1>1. m \in Carried(MaxOut) /\ m.type = TCP_CLOSE /\ m.conn_id = n
  <2>1. m \in Carried(MaxOut)
    BY MessageCarried DEF TCP_CLOSE, TCP_DATA, UDP_PACKET
  <2> QED BY <2>1 DEF Message
<1>2. SendToClient(m, ok)
  OBVIOUS
<1> HIDE DEF m
<1> TAKE id \in ConnIds
<1>3. /\ OpenTo(id)' <=> OpenTo(id)
      /\ CloseTo(id)' <=> CloseTo(id) \/ n = id
  <2>1. TCP_OPEN # TCP_CLOSE
    BY DEF TCP_OPEN, TCP_CLOSE
  <2> QED BY <1>1, <1>2, <2>1, SentToClient
<1>4. /\ ClientHas(id)' <=> ClientHas(id)
      /\ ServerHas(id)' <=> ServerHas(id) /\ n # id
  BY EntrySet DEF ServerRemove, ServerHas, ClientHas, TypeInv, TablesOK
<1>5. Told(id) /\ (CloseFrom(id)' <=> CloseFrom(id))
  OBVIOUS
<1> QED BY <1>3, <1>4, <1>5 DEF Told

LEMMA ClientCloseTold ==
  ASSUME TypeInv, CalmInv, Both, \A id \in ConnIds : Told(id),
         NEW n \in ConnIds, NEW s \in Sessions, NEW ok \in BOOLEAN,
         SendToServer(Message(TCP_CLOSE, n, s, 0), ok), UNCHANGED serverConns,
         ClientRemove(n) \/ (UNCHANGED clientConns /\ ~ClientHas(n)),
         \A id \in ConnIds : /\ OpenTo(id)' <=> OpenTo(id) /\ n # id
                             /\ CloseTo(id)' <=> CloseTo(id)
  PROVE  \A id \in ConnIds : Told(id)'
<1> DEFINE m == Message(TCP_CLOSE, n, s, 0)
<1>1. m \in Carried(MaxDest) /\ m.type = TCP_CLOSE /\ m.conn_id = n
  <2>1. m \in Carried(MaxDest)
    BY MessageCarried DEF TCP_CLOSE, TCP_DATA, UDP_PACKET
  <2> QED BY <2>1 DEF Message
<1>2. SendToServer(m, ok)
  OBVIOUS
<1> HIDE DEF m
<1> TAKE id \in ConnIds
<1>3. CloseFrom(id)' <=> CloseFrom(id) \/ n = id
  BY <1>1, <1>2, SentToServer
<1>4. /\ ServerHas(id)' <=> ServerHas(id)
      /\ ClientHas(id)' <=> ClientHas(id) /\ n # id
  BY EntrySet DEF ClientRemove, ServerHas, ClientHas, TypeInv, TablesOK
<1>5. Told(id) /\ (OpenTo(id)' <=> OpenTo(id) /\ n # id) /\ (CloseTo(id)' <=> CloseTo(id))
  OBVIOUS
<1> QED BY <1>3, <1>4, <1>5 DEF Told

LEMMA ToldKept ==
  ASSUME NEW id, Told(id), TablesSame(id), ToClientSame(id), CloseFrom(id)' <=> CloseFrom(id)
  PROVE  Told(id)'
BY DEF Told, TablesSame, ToClientSame

LEMMA ServerToldStep ==
  ASSUME TypeInv, KnownOnce, CalmInv, Both, \A id \in ConnIds : Told(id), Server
  PROVE  \A id \in ConnIds : Told(id)'
<1> USE DEF clientVars
<1>0. TablesOK /\ TunnelsOK
  BY DEF TypeInv
<1>1. ASSUME UNCHANGED <<serverConns, clientConns, toClient, toServer>>
      PROVE  \A id \in ConnIds : Told(id)'
  <2> TAKE id \in ConnIds
  <2>1. TablesSame(id) /\ ToClientSame(id) /\ (CloseFrom(id)' <=> CloseFrom(id))
    BY <1>1 DEF TablesSame, ToClientSame, ServerHas, ClientHas, OpenTo, CloseTo, CloseFrom
  <2> QED BY <2>1, ToldKept
<1>2. CASE AcceptTunnel
  BY <1>1, <1>2, AcceptsFirst DEF CalmInv, AcceptTunnel
<1>3. CASE ServerTunnelEnd
  BY <1>0, <1>3, BothFacts DEF ServerTunnelEnd
<1>4. CASE ServerTcpClose
  <2> DEFINE n == ServerMsg.conn_id
  <2>1. ServerHead(TCP_CLOSE) /\ ServerPop /\ ServerRemove(n) /\ UNCHANGED <<clientConns, toClient>>
    BY <1>4 DEF ServerTcpClose
  <2>2. /\ ServerMsg \in Carried(MaxDest) /\ ServerMsg.type = TCP_CLOSE
        /\ \A id : CloseFrom(id) <=> CloseFrom(id)' \/ n = id
    BY <2>1, TakenByServer DEF TCP_CLOSE
  <2>3. n \in ConnIds
    BY <2>2 DEF Carried, TCP_CLOSE, UDP_PACKET
  <2> TAKE id \in ConnIds
  <2>4. /\ ServerHas(id)' <=> ServerHas(id) /\ n # id
        /\ ClientHas(id)' <=> ClientHas(id)
        /\ ToClientSame(id)
    BY <1>0, <2>1, <2>3, EntrySet DEF ServerRemove, ServerHas, ClientHas, TablesOK, ToClientSame, OpenTo, CloseTo
  <2> HIDE DEF n
  <2>5. Told(id)
    OBVIOUS
  <2> QED BY <2>2, <2>4, <2>5 DEF Told, ToClientSame
<1>5. CASE ServerUdpPacket
  <2>1. ServerHead(UDP_PACKET) /\ ServerPop /\ UNCHANGED <<serverConns, clientConns, toClient>>
    BY <1>5 DEF ServerUdpPacket, serverVars
  <2> TAKE id \in ConnIds
  <2>2. CloseFrom(id)' <=> CloseFrom(id)
    BY <2>1, TakenByServer DEF UDP_PACKET, TCP_CLOSE
  <2>3. TablesSame(id) /\ ToClientSame(id)
    BY <2>1 DEF TablesSame, ToClientSame, ServerHas, ClientHas, OpenTo, CloseTo
  <2> QED BY <2>2, <2>3, ToldKept
<1>6. ASSUME NEW s \in Sessions, RejectOutside(s) PROVE \A id \in ConnIds : Told(id)'
  BY <1>1, <1>6 DEF RejectOutside, serverVars, tunnelVars
<1>7. ASSUME NEW ok \in BOOLEAN, ServerReadUdp(ok) PROVE \A id \in ConnIds : Told(id)'
  <2> DEFINE m == Message(UDP_PACKET, 0, None, 0)
  <2>1. UNCHANGED <<serverConns, clientConns>>
    BY <1>7 DEF ServerReadUdp
  <2>2. CASE ~HasTunnel
    BY <1>1, <1>7, <2>1, <2>2 DEF ServerReadUdp
  <2>3. CASE HasTunnel /\ ~ok
    BY <1>0, <1>7, <2>3, BothFacts DEF ServerReadUdp
  <2>4. CASE HasTunnel /\ ok
    <3>1. SendToClient(m, ok) /\ UNCHANGED toServer
      BY <1>7, <2>4 DEF ServerReadUdp
    <3>2. m \in Carried(MaxOut) /\ m.type # TCP_OPEN /\ m.type # TCP_CLOSE
      <4>1. m \in Carried(MaxOut)
        BY MessageCarried DEF UDP_PACKET, TCP_DATA
      <4> QED BY <4>1 DEF Message, UDP_PACKET, TCP_OPEN, TCP_CLOSE
    <3> HIDE DEF m
    <3> TAKE id \in ConnIds
    <3>3. ToClientSame(id)
      BY <2>4, <3>1, <3>2, SentToClient DEF ToClientSame
    <3>4. TablesSame(id) /\ (CloseFrom(id)' <=> CloseFrom(id))
      BY <2>1, <3>1 DEF TablesSame, ServerHas, ClientHas, CloseFrom
    <3> QED BY <3>3, <3>4, ToldKept
  <2> QED BY <2>2, <2>3, <2>4
<1>8. ASSUME NEW id \in ConnIds, NEW ok \in BOOLEAN, ReadOutside(id, ok) PROVE \A i \in ConnIds : Told(i)'
  <2> DEFINE s == serverConns[id]
             m == Message(TCP_DATA, id, s, outRead[s] + 1)
  <2>1. ServerHas(id) /\ outRead[s] < outSent[s] /\ UNCHANGED <<clientConns, toServer>>
    BY <1>8 DEF ReadOutside
  <2>2. HasTunnel /\ ~ServerCut
    BY <1>0, <2>1, BothFacts DEF CalmInv, ServerHas, NoConns
  <2>3. SendToClient(m, ok) /\ UNCHANGED serverConns
    BY <1>8, <2>2 DEF ReadOutside, SendToClient
  <2>4. s \in Sessions
    BY <1>0, <2>1 DEF TablesOK, ServerHas
  <2>5. outRead[s] + 1 \in 1 .. MaxOut /\ outRead[s] + 1 \in Nat
    BY <2>1, <2>4, LimitsAssumption DEF TypeInv, PeersOK
  <2>6. m \in Carried(MaxOut) /\ m.type # TCP_OPEN /\ m.type # TCP_CLOSE
    <3>1. m \in Carried(MaxOut)
      BY <2>4, <2>5, MessageCarried DEF UDP_PACKET, TCP_DATA
    <3> QED BY <3>1 DEF Message, TCP_DATA, TCP_OPEN, TCP_CLOSE
  <2> HIDE DEF m
  <2> TAKE i \in ConnIds
  <2>7. ToClientSame(i)
    BY <2>2, <2>3, <2>6, SentToClient DEF ToClientSame
  <2>8. TablesSame(i) /\ (CloseFrom(i)' <=> CloseFrom(i))
    BY <2>1, <2>3 DEF TablesSame, ServerHas, ClientHas, CloseFrom
  <2> QED BY <2>7, <2>8, ToldKept
<1>9. ASSUME NEW id \in ConnIds, NEW ok \in BOOLEAN, ReadOutsideEnd(id, ok) PROVE \A i \in ConnIds : Told(i)'
  <2> DEFINE s == serverConns[id]
  <2>1. ServerHas(id) /\ UNCHANGED <<clientConns, toServer>> /\ ServerRemove(id)
    BY <1>9 DEF ReadOutsideEnd
  <2>2. HasTunnel /\ s \in Sessions
    BY <1>0, <2>1 DEF CalmInv, TablesOK, ServerHas, NoConns
  <2>3. SendToClient(Message(TCP_CLOSE, id, s, 0), ok)
    BY <1>9, <2>2 DEF ReadOutsideEnd
  <2> HIDE DEF s
  <2>4. \A i \in ConnIds : CloseFrom(i)' <=> CloseFrom(i)
    BY <2>1 DEF CloseFrom
  <2> QED BY <2>1, <2>2, <2>3, <2>4, ServerCloseTold
<1>10. ASSUME NEW wrote \in BOOLEAN, NEW ok \in BOOLEAN, ServerTcpData(wrote, ok)
       PROVE  \A id \in ConnIds : Told(id)'
  <2> DEFINE n == ServerMsg.conn_id
             s == serverConns[n]
  <2>1. ServerHead(TCP_DATA) /\ ServerPop /\ UNCHANGED clientConns
    BY <1>10 DEF ServerTcpData
  <2>2. /\ ServerMsg \in Carried(MaxDest) /\ ServerMsg.type = TCP_DATA
        /\ \A id : CloseFrom(id) <=> CloseFrom(id)'
    BY <2>1, TakenByServer DEF TCP_DATA, TCP_CLOSE
  <2>3. n \in ConnIds /\ HasTunnel
    BY <2>1, <2>2 DEF Carried, TCP_DATA, UDP_PACKET, ServerHead
  <2>4. CASE UNCHANGED <<serverConns, toClient>>
    <3> TAKE id \in ConnIds
    <3>1. TablesSame(id) /\ ToClientSame(id)
      BY <2>1, <2>4 DEF TablesSame, ToClientSame, ServerHas, ClientHas, OpenTo, CloseTo
    <3> QED BY <2>2, <3>1, ToldKept
  <2>5. CASE ServerHas(n) /\ ~wrote
    <3>1. ServerRemove(n) /\ SendToClient(Message(TCP_CLOSE, n, s, 0), ok)
      BY <1>10, <2>5 DEF ServerTcpData
    <3>2. s \in Sessions
      BY <1>0, <2>3, <2>5 DEF TablesOK, ServerHas
    <3> HIDE DEF n, s
    <3> QED BY <2>1, <2>2, <2>3, <2>5, <3>1, <3>2, ServerCloseTold
  <2> QED BY <1>10, <2>4, <2>5 DEF ServerTcpData
<1>11. ASSUME NEW s \in Sessions, NEW ok \in BOOLEAN, AcceptOutside(s, ok) PROVE \A id \in ConnIds : Told(id)'
  BY <1>11, AcceptTold
<1> QED BY <1>2, <1>3, <1>4, <1>5, <1>6, <1>7, <1>8, <1>9, <1>10, <1>11 DEF Server

LEMMA ClientToldStep ==
  ASSUME TypeInv, KnownOnce, OpenInv, CalmInv, Both, \A id \in ConnIds : Told(id), Client, InLoop'
  PROVE  \A id \in ConnIds : Told(id)'
<1> USE DEF serverVars
<1>0. TablesOK /\ TunnelsOK /\ ~ClientCut /\ InLoop
  BY BothFacts DEF TypeInv, Both
<1>1. CASE Connect \/ ConnectFails
  BY <1>0, <1>1 DEF Connect, ConnectFails, InLoop
<1>2. CASE ClientTunnelEnd
  BY <1>0, <1>2 DEF ClientTunnelEnd
<1>3. CASE ClientTcpClose
  <2> DEFINE n == ClientMsg.conn_id
  <2>1. ClientHead(TCP_CLOSE) /\ ClientPop /\ ClientRemove(n) /\ UNCHANGED <<serverConns, toServer>>
    BY <1>3 DEF ClientTcpClose
  <2>2. /\ n \in ConnIds
        /\ \A id : /\ OpenTo(id) <=> OpenTo(id)'
                   /\ CloseTo(id) <=> CloseTo(id)' \/ n = id
                   /\ n = id => ~OpenTo(id)'
    BY <2>1, TakenByClient DEF TCP_CLOSE, TCP_OPEN, UDP_PACKET
  <2> TAKE id \in ConnIds
  <2>3. /\ ServerHas(id)' <=> ServerHas(id)
        /\ ClientHas(id)' <=> ClientHas(id) /\ n # id
        /\ CloseFrom(id)' <=> CloseFrom(id)
    BY <1>0, <2>1, <2>2, EntrySet DEF ClientRemove, ServerHas, ClientHas, TablesOK, CloseFrom
  <2> HIDE DEF n
  <2>4. Told(id)
    OBVIOUS
  <2> QED BY <2>2, <2>3, <2>4 DEF Told
<1>4. CASE ClientUdpPacket
  <2>1. ClientHead(UDP_PACKET) /\ ClientPop /\ UNCHANGED <<serverConns, clientConns, toServer>>
    BY <1>4 DEF ClientUdpPacket, clientVars
  <2> TAKE id \in ConnIds
  <2>2. ToClientSame(id)
    BY <2>1, TakenByClient DEF ToClientSame, UDP_PACKET, TCP_OPEN, TCP_CLOSE
  <2>3. TablesSame(id) /\ (CloseFrom(id)' <=> CloseFrom(id))
    BY <2>1 DEF TablesSame, ServerHas, ClientHas, CloseFrom
  <2> QED BY <2>2, <2>3, ToldKept
<1>5. ASSUME NEW m \in Carried(MaxDest), m.type # TCP_CLOSE, NEW ok, SendToServer(m, ok),
             UNCHANGED <<serverConns, clientConns, toClient>>
      PROVE  \A id \in ConnIds : Told(id)'
  <2> TAKE id \in ConnIds
  <2>1. CloseFrom(id)' <=> CloseFrom(id)
    BY <1>5, SentToServer
  <2>2. TablesSame(id) /\ ToClientSame(id)
    BY <1>5 DEF TablesSame, ToClientSame, ServerHas, ClientHas, OpenTo, CloseTo
  <2> QED BY <2>1, <2>2, ToldKept
<1>6. ASSUME NEW ok \in BOOLEAN, ClientReadUdp(ok) PROVE \A id \in ConnIds : Told(id)'
  <2> DEFINE m == Message(UDP_PACKET, 0, None, 0)
  <2>1. SendToServer(m, ok) /\ UNCHANGED <<serverConns, clientConns, toClient>>
    BY <1>0, <1>6 DEF ClientReadUdp
  <2>2. m \in Carried(MaxDest)
    BY MessageCarried DEF UDP_PACKET, TCP_DATA
  <2>3. m.type # TCP_CLOSE
    BY <2>2 DEF Message, UDP_PACKET, TCP_CLOSE
  <2> HIDE DEF m
  <2> QED BY <1>5, <2>1, <2>2, <2>3
<1>7. ASSUME NEW n \in ConnIds, NEW ok \in BOOLEAN, ReadDest(n, ok) PROVE \A id \in ConnIds : Told(id)'
  <2> DEFINE s == clientConns[n]
             m == Message(TCP_DATA, n, s, destRead[s] + 1)
  <2>1. SendToServer(m, ok) /\ UNCHANGED <<serverConns, clientConns, toClient>>
        /\ ClientHas(n) /\ destRead[s] < destSent[s]
    BY <1>0, <1>7 DEF ReadDest
  <2>2. s \in Sessions
    BY <1>0, <2>1 DEF TablesOK, ClientHas
  <2>3. destRead[s] + 1 \in 1 .. MaxDest /\ destRead[s] + 1 \in Nat
    BY <2>1, <2>2, LimitsAssumption DEF TypeInv, PeersOK
  <2>4. m \in Carried(MaxDest)
    BY <2>2, <2>3, MessageCarried DEF UDP_PACKET, TCP_DATA
  <2>5. m.type # TCP_CLOSE
    BY <2>4 DEF Message, TCP_DATA, TCP_CLOSE
  <2> HIDE DEF m
  <2> QED BY <1>5, <2>1, <2>4, <2>5
<1>8. ASSUME NEW n \in ConnIds, NEW ok \in BOOLEAN, ReadDestEnd(n, ok) PROVE \A id \in ConnIds : Told(id)'
  <2> DEFINE s == clientConns[n]
  <2>1. /\ SendToServer(Message(TCP_CLOSE, n, s, 0), ok) /\ UNCHANGED <<serverConns, toClient>>
        /\ ClientHas(n) /\ ClientRemove(n)
    BY <1>8 DEF ReadDestEnd
  <2>2. s \in Sessions
    BY <1>0, <2>1 DEF TablesOK, ClientHas
  <2>3. ~OpenTo(n)
    BY <2>1 DEF Told
  <2>4. \A id \in ConnIds : (OpenTo(id)' <=> OpenTo(id) /\ n # id) /\ (CloseTo(id)' <=> CloseTo(id))
    BY <2>1, <2>3 DEF OpenTo, CloseTo
  <2> HIDE DEF s
  <2> QED BY <2>1, <2>2, <2>4, ClientCloseTold
<1>9. ASSUME NEW b \in BOOLEAN, NEW ok \in BOOLEAN, ClientTcpOpen(b, ok) PROVE \A id \in ConnIds : Told(id)'
  <2> DEFINE n == ClientMsg.conn_id
             s == ClientMsg.session
  <2>1. ClientHead(TCP_OPEN) /\ ClientPop /\ UNCHANGED serverConns
    BY <1>9 DEF ClientTcpOpen
  <2>2. /\ n \in ConnIds /\ ClientMsg \in Carried(MaxOut) /\ ClientMsg.type = TCP_OPEN
        /\ \A id : /\ OpenTo(id) <=> OpenTo(id)' \/ n = id
                   /\ CloseTo(id) <=> CloseTo(id)'
                   /\ n = id => ~OpenTo(id)'
    BY <2>1, TakenByClient DEF TCP_CLOSE, TCP_OPEN, UDP_PACKET
  <2>3. s \in Sessions /\ s # None /\ ~ClientHas(n)
    <3>1. s \in Sessions
      BY <2>2 DEF Carried, TCP_OPEN, UDP_PACKET
    <3>2. Told(n) /\ OpenTo(n)
      BY <2>2
    <3> QED BY <3>1, <3>2, SessionsAssumption DEF Told
  <2>4. CASE b
    <3>1. clientConns' = [clientConns EXCEPT ![n] = s] /\ UNCHANGED toServer
      BY <1>9, <2>3, <2>4 DEF ClientTcpOpen
    <3> TAKE id \in ConnIds
    <3>2. /\ ServerHas(id)' <=> ServerHas(id)
          /\ CloseFrom(id)' <=> CloseFrom(id)
      BY <2>1, <3>1 DEF ServerHas, CloseFrom
    <3>3. ClientHas(id)' <=> ClientHas(id) \/ n = id
      <4>1. clientConns'[id] = IF id = n THEN s ELSE clientConns[id]
        BY <1>0, <2>2, <3>1, EntrySet DEF TablesOK
      <4> QED BY <2>3, <4>1 DEF ClientHas
    <3> HIDE DEF n, s
    <3>4. Told(id)
      OBVIOUS
    <3> QED BY <2>2, <2>3, <3>2, <3>3, <3>4 DEF Told
  <2>5. CASE ~b
    <3>1. SendToServer(Message(TCP_CLOSE, n, s, 0), ok) /\ UNCHANGED clientConns
      BY <1>9, <2>3, <2>5 DEF ClientTcpOpen
    <3> HIDE DEF n, s
    <3> QED BY <2>1, <2>2, <2>3, <3>1, ClientCloseTold
  <2> QED BY <2>4, <2>5
<1>10. ASSUME NEW w \in BOOLEAN, NEW ok \in BOOLEAN, ClientTcpData(w, ok) PROVE \A id \in ConnIds : Told(id)'
  <2> DEFINE n == ClientMsg.conn_id
             s == ClientMsg.session
  <2>1. ClientHead(TCP_DATA) /\ ClientPop /\ UNCHANGED serverConns
    BY <1>10 DEF ClientTcpData
  <2>2. /\ n \in ConnIds /\ ClientMsg \in Carried(MaxOut) /\ ClientMsg.type = TCP_DATA
        /\ \A id : /\ OpenTo(id) <=> OpenTo(id)'
                   /\ CloseTo(id) <=> CloseTo(id)'
                   /\ n = id => ~OpenTo(id)'
    BY <2>1, TakenByClient DEF TCP_CLOSE, TCP_OPEN, TCP_DATA, UDP_PACKET
  <2>3. s \in Sessions
    BY <2>2 DEF Carried, TCP_DATA, UDP_PACKET
  <2>4. CASE ClientHas(n) /\ w
    <3>1. UNCHANGED <<clientConns, toServer>>
      BY <1>10, <2>4 DEF ClientTcpData
    <3> TAKE id \in ConnIds
    <3>2. TablesSame(id) /\ (CloseFrom(id)' <=> CloseFrom(id))
      BY <2>1, <3>1 DEF TablesSame, ServerHas, ClientHas, CloseFrom
    <3>3. ToClientSame(id)
      BY <2>2 DEF ToClientSame
    <3> QED BY <3>2, <3>3, ToldKept
  <2>5. CASE ~(ClientHas(n) /\ w)
    <3>1. SendToServer(Message(TCP_CLOSE, n, s, 0), ok) /\ ClientRemove(n)
      BY <1>10, <2>5 DEF ClientTcpData
    <3> HIDE DEF n, s
    <3> QED BY <2>1, <2>2, <2>3, <3>1, ClientCloseTold
  <2> QED BY <2>4, <2>5
<1> QED BY <1>1, <1>2, <1>3, <1>4, <1>6, <1>7, <1>8, <1>9, <1>10 DEF Client

\* The client has just connected: both tables are empty and nothing is on the way.
LEMMA ConnectTold ==
  ASSUME TypeInv, HeldOK, CalmInv, Connect, tunnels = 0
  PROVE  \A id \in ConnIds : Told(id)'
<1>1. /\ serverConns = NoConns /\ clientConns = NoConns /\ toClient = <<>>
      /\ UNCHANGED <<serverConns, clientConns, toClient, toServer>>
  BY DEF CalmInv, Connect, serverVars
<1>2. 1 \in Tunnels /\ toServer[1] = <<>>
  <2>1. 1 \in Tunnels
    BY LimitsAssumption DEF Tunnels
  <2>2. serverTunnel = 0 /\ backlog \in Seq({})
    <3>1. 1 .. 0 = {}
      OBVIOUS
    <3> QED BY <3>1 DEF TypeInv, TunnelsOK
  <2>3. 1 \notin Range(backlog)
    BY <2>2, ElementOfSeq, LenProperties DEF Range
  <2> QED BY <2>1, <2>2, <2>3 DEF HeldOK
<1>3. Range(<<>>) = {}
  BY NoMessages
<1> TAKE id \in ConnIds
<1>4. ~OpenTo(id)' /\ ~CloseTo(id)' /\ ~CloseFrom(id)'
  BY <1>1, <1>2, <1>3, InFlightRange DEF OpenTo, CloseTo, CloseFrom
<1>5. ~ServerHas(id)' /\ ~ClientHas(id)'
  BY <1>1 DEF ServerHas, ClientHas, NoConns
<1> QED BY <1>4, <1>5 DEF Told

LEMMA ToldStep ==
  ASSUME OneTunnel, TypeInv, KnownOnce, OpenInv, HeldOK, CalmInv, ToldInv, InStep
  PROVE  ToldInv'
<1> SUFFICES ASSUME Both' PROVE \A id \in ConnIds : Told(id)'
  BY DEF ToldInv
<1>1. CASE Connect /\ tunnels = 0
  BY <1>1, ConnectTold
<1>2. CASE Both
  <2>1. \A id \in ConnIds : Told(id)
    BY <1>2 DEF ToldInv
  <2>2. CASE Peers
    <3>1. UNCHANGED <<serverConns, clientConns, toClient, toServer>>
      BY <2>2 DEF Peers, OutsideConnect, OutsideSend, OutsideEnds, DestSend, DestEnds, serverVars, clientVars,
         tunnelVars
    <3> TAKE id \in ConnIds
    <3>2. TablesSame(id) /\ ToClientSame(id) /\ (CloseFrom(id)' <=> CloseFrom(id))
      BY <3>1 DEF TablesSame, ToClientSame, ServerHas, ClientHas, OpenTo, CloseTo, CloseFrom
    <3> QED BY <2>1, <3>2, ToldKept
  <2>3. CASE FaultStep
    <3>1. ~Break /\ ~StartServer /\ ~StartClient
      BY DEF OneTunnel, Break, StartServer, StartClient
    <3>2. serverUp' = FALSE \/ clientPhase' = "dead"
      BY <2>3, <3>1 DEF FaultStep, ServerSigpipe, KillServer, ClientSigpipe, KillClient, ServerStops, ClientStops
    <3> QED BY <3>2 DEF Both, InLoop
  <2>4. InLoop'
    BY DEF Both
  <2> QED BY <1>2, <2>1, <2>2, <2>3, <2>4, ServerToldStep, ClientToldStep DEF InStep
<1> QED BY <1>1, <1>2, BothBefore

LEMMA NoRestart == ASSUME OneTunnel PROVE "startServer" \notin Faults
BY DEF OneTunnel

\* Nothing is misread, so what holds until then holds.
LEMMA CalmAlways ==
  ASSUME OneTunnel
  PROVE  Spec => [](TypeInv /\ KnownOnce /\ OpenInv /\ LinkInv /\ OrderInv)
<1>1. /\ Spec => [](TypeInv /\ (~misread => KnownOnce /\ OwnOnly))
      /\ Spec => [](~misread => OrderInv)
  BY NoRestart, BindInductive, OrderInductive
<1> QED BY <1>1, NothingMisread, OpenInductive, LinkInductive, PTL

LEMMA ToldInductive ==
  ASSUME OneTunnel
  PROVE  Spec => []ToldInv
<1>1. Init => ToldInv
  BY DEF Init, ToldInv, Both, InLoop
<1>2. TypeInv /\ KnownOnce /\ OpenInv /\ OrderInv /\ CalmInv /\ ToldInv /\ [Next]_vars => ToldInv'
  <2>1. ASSUME ToldInv, UNCHANGED vars PROVE ToldInv'
    BY <2>1 DEF vars, serverVars, clientVars, tunnelVars, ToldInv, Both, InLoop, Told, OpenTo, CloseTo,
       CloseFrom, ServerHas, ClientHas
  <2> QED BY <2>1, ToldStep, NeverMisreads DEF OrderInv
<1>3. Spec => [](TypeInv /\ KnownOnce /\ OpenInv /\ LinkInv /\ OrderInv)
  BY CalmAlways
<1> QED BY <1>1, <1>2, <1>3, CalmInductive, PTL DEF Spec

\* For any sessions and bounds, while the network cuts no tunnel and no program is started
\* again: an entry that only one of the two tables has goes or gets its counterpart with a
\* message that is on the way, so that no connection stays open on one side.
THEOREM NoOrphan ==
  ASSUME OneTunnel
  PROVE  Spec => []NoOrphans
<1>1. TypeInv /\ CalmInv /\ ToldInv => NoOrphans
  <2> SUFFICES ASSUME TypeInv, CalmInv, ToldInv, NEW id \in ConnIds, Both
               PROVE  /\ ServerHas(id) /\ ~ClientHas(id) => OpenTo(id) \/ InFlight(toServer[clientTunnel], TCP_CLOSE, id)
                      /\ ClientHas(id) /\ ~ServerHas(id) => CloseTo(id)
    BY DEF NoOrphans, Both, OpenTo, CloseTo
  <2>1. clientTunnel = 1 /\ Told(id)
    BY BothFacts DEF TypeInv, ToldInv
  <2> QED BY <2>1 DEF Told, CloseFrom
<1> QED BY <1>1, TypeInductive, CalmInductive, ToldInductive, PTL

-----------------------------------------------------------------------------
(* Nothing is missing: what was received and what is on the way follow on  *)
(* each other, up to the last item read while both programs run.           *)

Items(q, s) == {m.item : m \in {x \in Range(q) : Data(x, s)}}

NoGap(I, l, n) == \A k \in 1 .. n : k <= l \/ k \in I

\* l items were received and r read, I are on the way, and all that were read arrive.
Flows(I, l, r, all) == (\A n \in I : NoGap(I, l, n)) /\ (all => NoGap(I, l, r))

Whole(got) == \A s \in Sessions : \A i \in DOMAIN got[s] : got[s][i] = <<s, i>>

LEMMA ItemsAppend ==
  ASSUME NEW S, NEW q \in Seq(S), NEW m \in S, NEW s
  PROVE  /\ Data(m, s) => Items(Append(q, m), s) = Items(q, s) \cup {m.item}
         /\ ~Data(m, s) => Items(Append(q, m), s) = Items(q, s)
<1>1. Range(Append(q, m)) = Range(q) \cup {m}
  BY AppendRange
<1> QED BY <1>1 DEF Items

LEMMA ItemsTail ==
  ASSUME NEW S, NEW q \in Seq(S), q # <<>>, NEW s
  PROVE  /\ Data(Head(q), s) => Items(q, s) = Items(Tail(q), s) \cup {Head(q).item}
         /\ ~Data(Head(q), s) => Items(Tail(q), s) = Items(q, s)
<1>1. Range(q) = Range(Tail(q)) \cup {Head(q)}
  BY HeadTailRange
<1> QED BY <1>1 DEF Items

\* What is lost with the end of a queue comes after all that is left.
LEMMA ItemsBeginning ==
  ASSUME NEW max \in Nat, NEW q \in Seq(Carried(max)), Rising(q), NEW p \in Beginnings(q), NEW s \in Sessions
  PROVE  /\ Items(p, s) \subseteq Items(q, s)
         /\ \A n \in Items(p, s), k \in Items(q, s) : k <= n => k \in Items(p, s)
<1>1. PICK l \in 0 .. Len(q) : p = SubSeq(q, 1, l)
  BY DEF Beginnings
<1>2. Len(q) \in Nat /\ DOMAIN q = 1 .. Len(q) /\ \A i \in 1 .. Len(q) : q[i] \in Carried(max)
  BY LenProperties, ElementOfSeq
<1>3. 1 \in Int /\ l \in Int /\ l \in Nat /\ \A i \in 1 .. l : q[i] \in Carried(max) /\ i \in 1 .. Len(q)
  BY <1>2
<1>4. /\ p \in Seq(Carried(max)) /\ Len(p) = IF 1 <= l THEN l - 1 + 1 ELSE 0
      /\ \A i \in 1 .. l - 1 + 1 : p[i] = q[1 + i - 1]
  BY <1>1, <1>3, SubSeqProperties
<1>5. DOMAIN p = 1 .. l /\ \A i \in 1 .. l : p[i] = q[i]
  BY <1>3, <1>4, LenProperties
<1>6. ASSUME NEW i \in 1 .. l, Data(q[i], s), NEW j \in 1 .. Len(q), Data(q[j], s), q[j].item <= q[i].item
      PROVE  j \in 1 .. l
  <2>1. i \in DOMAIN q /\ j \in DOMAIN q /\ q[i] \in Carried(max) /\ q[j] \in Carried(max)
    BY <1>2, <1>3
  <2>2. q[i].item \in Nat /\ q[j].item \in Nat
    BY <2>1, CarriedItem
  <2>3. ~(q[i].item < q[j].item)
    BY ONLY <1>6, <2>2
  <2>4. ~(i < j)
    BY <1>6, <2>1, <2>3 DEF Rising
  <2> QED BY <1>3, <2>4
<1>7. Range(p) \subseteq Range(q)
  BY BeginningRange
<1>8. ASSUME NEW n \in Items(p, s), NEW k \in Items(q, s), k <= n PROVE k \in Items(p, s)
  <2>1. PICK x \in Range(p) : Data(x, s) /\ x.item = n
    BY DEF Items
  <2>2. PICK i \in 1 .. l : x = q[i]
    BY <1>5 DEF Range
  <2>3. PICK y \in Range(q) : Data(y, s) /\ y.item = k
    BY DEF Items
  <2>4. PICK j \in 1 .. Len(q) : y = q[j]
    BY <1>2 DEF Range
  <2>5. j \in 1 .. l
    BY <1>6, <1>8, <2>1, <2>2, <2>3, <2>4
  <2>6. y \in Range(p)
    BY <1>5, <2>4, <2>5 DEF Range
  <2> QED BY <2>3, <2>6 DEF Items
<1> QED BY <1>7, <1>8 DEF Items

LEMMA ItemsOrder ==
  ASSUME NEW max \in Nat, NEW q \in Seq(Carried(max)), NEW s \in Sessions
  PROVE  /\ Items(q, s) \subseteq 1 .. max
         /\ q # <<>> /\ Rising(q) /\ Data(Head(q), s)
              => \A k \in Items(Tail(q), s) : Head(q).item < k
<1>1. \A m \in Range(q) : m \in Carried(max)
  BY ElementOfSeq, LenProperties DEF Range
<1>2. Items(q, s) \subseteq 1 .. max
  BY <1>1 DEF Items, Data, Carried
<1>3. ASSUME q # <<>>, Rising(q), Data(Head(q), s), NEW k \in Items(Tail(q), s)
      PROVE  Head(q).item < k
  BY <1>3, HeadFirst DEF Items
<1> QED BY <1>2, <1>3

LEMMA FlowsShorter ==
  ASSUME NEW I, NEW J, NEW l, NEW r, NEW all, Flows(I, l, r, all), J \subseteq I,
         \A n \in J, k \in I : k <= n => k \in J, I \subseteq Nat
  PROVE  Flows(J, l, r, FALSE)
<1> SUFFICES ASSUME NEW n \in J, NEW k \in 1 .. n PROVE k <= l \/ k \in J
  BY DEF Flows, NoGap
<1>1. k <= l \/ k \in I
  BY DEF Flows, NoGap
<1>2. k <= n
  OBVIOUS
<1> QED BY <1>1, <1>2

LEMMA FlowsRead ==
  ASSUME NEW I, NEW l, NEW r \in Nat, Flows(I, l, r, TRUE), NEW all
  PROVE  Flows(I \cup {r + 1}, l, r + 1, all)
<1>1. NoGap(I \cup {r + 1}, l, r + 1)
  <2> SUFFICES ASSUME NEW k \in 1 .. r + 1, k # r + 1 PROVE k <= l \/ k \in I
    BY DEF NoGap
  <2>1. k \in 1 .. r
    OBVIOUS
  <2> QED BY <2>1 DEF Flows, NoGap
<1>2. \A n \in I : NoGap(I \cup {r + 1}, l, n)
  BY DEF Flows, NoGap
<1> QED BY <1>1, <1>2 DEF Flows

\* The first that arrives is the next.
LEMMA FlowsNext ==
  ASSUME NEW I, NEW J, NEW l \in Nat, NEW r, NEW all, Flows(I, l, r, all), NEW n \in Nat, l < n,
         I = J \cup {n}, J \subseteq Nat, \A k \in J : n < k
  PROVE  n = l + 1 /\ Flows(J, l + 1, r, all)
<1>1. n = l + 1
  <2>1. l + 1 \in 1 .. n /\ ~(l + 1 <= l) /\ n \in I
    OBVIOUS
  <2>2. l + 1 \in I
    BY <2>1 DEF Flows, NoGap
  <2> QED BY <2>1, <2>2
<1>2. ASSUME NEW m, NoGap(I, l, m) PROVE NoGap(J, l + 1, m)
  <2> SUFFICES ASSUME NEW k \in 1 .. m PROVE k <= l + 1 \/ k \in J
    BY DEF NoGap
  <2>1. k <= l \/ k \in J \/ k = n
    BY <1>2 DEF NoGap
  <2> QED BY <1>1, <2>1
<1> QED BY <1>1, <1>2 DEF Flows

LEMMA FlowsNone == ASSUME NEW l, NEW all PROVE Flows({}, l, 0, all)
BY DEF Flows, NoGap

Received(got) == \E max \in Nat : got \in [Sessions -> Seq(Sessions \X (1 .. max))]

LEMMA ReceivedWhole ==
  ASSUME NEW got, Received(got), Whole(got),
         NEW s \in Sessions, NEW n, n = Len(got[s]) + 1, NEW new, Added(got, s, n, new)
  PROVE  /\ Whole(new) /\ Len(new[s]) = n
         /\ \A r \in Sessions : r # s => new[r] = got[r]
<1> PICK max \in Nat : got \in [Sessions -> Seq(Sessions \X (1 .. max))]
  BY DEF Received
<1> DEFINE e == <<s, n>>
           T == Sessions \X Nat
<1>1. got[s] \in Seq(T)
  <2>1. Sessions \X (1 .. max) \subseteq T /\ got[s] \in Seq(Sessions \X (1 .. max))
    OBVIOUS
  <2> HIDE DEF T
  <2> QED BY <2>1, WiderSeq
<1>2. Len(got[s]) \in Nat /\ DOMAIN got[s] = 1 .. Len(got[s])
  BY <1>1, LenProperties
<1>3. e \in T
  BY <1>2
<1>4. new[s] = Append(got[s], e) /\ \A r \in Sessions : r # s => new[r] = got[r]
  BY DEF Added
<1> HIDE DEF T, e
<1>5. /\ Len(new[s]) = Len(got[s]) + 1 /\ new[s] \in Seq(T)
      /\ \A i \in 1 .. Len(got[s]) : new[s][i] = got[s][i]
      /\ new[s][Len(got[s]) + 1] = e
  BY <1>1, <1>3, <1>4, AppendProperties
<1>6. DOMAIN new[s] = 1 .. Len(got[s]) + 1
  BY <1>5, LenProperties
<1>7. \A i \in DOMAIN new[s] : new[s][i] = <<s, i>>
  <2> TAKE i \in DOMAIN new[s]
  <2>1. CASE i = Len(got[s]) + 1
    BY <1>5, <2>1 DEF e
  <2>2. CASE i \in 1 .. Len(got[s])
    BY <1>2, <1>5, <2>2 DEF Whole
  <2> QED BY <1>2, <1>6, <2>1, <2>2
<1>8. Whole(new)
  BY <1>4, <1>7 DEF Whole
<1> QED BY <1>4, <1>5, <1>8

\* The first item that is taken is the next.
LEMMA FirstNext ==
  ASSUME NEW max \in Nat, NEW q \in Seq(Carried(max)), q # <<>>, Rising(q),
         NEW got \in [Sessions -> Seq(Sessions \X (1 .. max))], NEW read, Ahead(q, got, read), Whole(got),
         NEW r \in Sessions, Data(Head(q), r), NEW k, NEW all, Flows(Items(q, r), Len(got[r]), k, all),
         NEW new, Added(got, r, Head(q).item, new)
  PROVE  /\ Head(q).item = Len(got[r]) + 1 /\ Whole(new)
         /\ Flows(Items(Tail(q), r), Len(new[r]), k, all)
         /\ \A s \in Sessions : s # r => new[s] = got[s]
<1> DEFINE n == Head(q).item
           l == Len(got[r])
           I == Items(q, r)
           J == Items(Tail(q), r)
<1>1. I = J \cup {n} /\ J \subseteq Nat /\ n \in 1 .. max /\ \A i \in J : n < i
  <2>1. I = J \cup {n}
    BY ItemsTail
  <2>2. I \subseteq 1 .. max /\ \A i \in J : n < i
    BY ItemsOrder
  <2> QED BY <2>1, <2>2
<1>2. l \in Nat /\ l < n
  <2>1. got[r] \in Seq(Sessions \X (1 .. max))
    OBVIOUS
  <2>2. l \in Nat /\ DOMAIN got[r] = 1 .. l
    BY ONLY <2>1, LenProperties
  <2>3. Head(q) \in Range(q)
    BY HeadTailRange
  <2>4. \A i \in DOMAIN got[r] : got[r][i][2] < n /\ got[r][i] = <<r, i>>
    BY <2>3 DEF Ahead, Whole
  <2>5. \A i \in DOMAIN got[r] : i < n
    BY ONLY <2>4
  <2>6. l \in DOMAIN got[r] \/ l = 0
    BY ONLY <2>2
  <2>7. 0 < n
    BY <1>1
  <2> QED BY ONLY <2>2, <2>5, <2>6, <2>7
<1>3. Received(got)
  BY DEF Received
<1> HIDE DEF n, l, I, J
<1>4. n = l + 1 /\ Flows(J, l + 1, k, all)
  <2>1. Flows(I, l, k, all) /\ n \in Nat
    BY <1>1 DEF I, l
  <2> QED BY <1>1, <1>2, <2>1, FlowsNext
<1>5. /\ Whole(new) /\ Len(new[r]) = n
      /\ \A s \in Sessions : s # r => new[s] = got[s]
  <2>1. n = Len(got[r]) + 1 /\ Added(got, r, n, new)
    BY <1>4 DEF n, l
  <2> QED BY ONLY Whole(got), <1>3, <2>1, r \in Sessions, ReceivedWhole
<1>6. n = Len(got[r]) + 1 /\ Flows(J, Len(new[r]), k, all)
  BY <1>4, <1>5 DEF l
<1> QED BY <1>5, <1>6 DEF n, J

-----------------------------------------------------------------------------
(* The flow to the destination.                                            *)

Gone == {"fin", "rst"}

\* The client has the connection or will open it: what arrives goes to the destination.
Linked(s) == \E id \in ConnIds : clientConns[id] = s /\ dest[s] \notin Gone
DestTakes(s) == InLoop /\ (Linked(s) \/ \E m \in Range(toClient) : Opens(m, s))
DestFlow(s) == DestTakes(s) => Flows(Items(toClient, s), Len(destGot[s]), outRead[s], serverUp)

LEMMA DestFlowKept ==
  ASSUME NEW s, DestFlow(s), DestTakes(s)' => DestTakes(s), Items(toClient', s) = Items(toClient, s),
         destGot'[s] = destGot[s], UNCHANGED <<outRead, serverUp>>
  PROVE  DestFlow(s)'
BY DEF DestFlow

\* Another message than data or TCP_OPEN is sent to the client, or none.
LEMMA DestFlowTold ==
  ASSUME TypeInv, NEW m \in Carried(MaxOut), NEW s, ~Data(m, s), ~Opens(m, s), DestFlow(s),
         toClient' \in {toClient, Append(toClient, m)}, UNCHANGED <<dest, clientPhase, clientConns>>,
         UNCHANGED <<destGot, serverUp>>, outRead'[s] = outRead[s]
  PROVE  DestFlow(s)'
<1>1. toClient \in Seq(Carried(MaxOut))
  BY DEF TypeInv, WireOK
<1>2. CASE toClient' = Append(toClient, m)
  <2>1. Items(toClient', s) = Items(toClient, s)
    BY <1>1, <1>2, ItemsAppend
  <2>2. Range(toClient') = Range(toClient) \cup {m}
    BY <1>1, <1>2, AppendRange
  <2>3. DestTakes(s)' => DestTakes(s)
    BY <2>2 DEF DestTakes, Linked, InLoop
  <2> QED BY <2>1, <2>3 DEF DestFlow
<1>3. CASE toClient' = toClient
  <2>1. DestTakes(s)' => DestTakes(s)
    BY <1>3 DEF DestTakes, Linked, InLoop
  <2> QED BY <1>3, <2>1 DEF DestFlow
<1> QED BY <1>2, <1>3

LEMMA ServerDestFlow ==
  ASSUME TypeInv, OpenInv, LinkInv, CalmInv, \A s \in Sessions : DestFlow(s), Server
  PROVE  \A s \in Sessions : DestFlow(s)'
<1> USE DEF outsideVars, destVars, clientVars
<1>0. TablesOK /\ TunnelsOK /\ toClient \in Seq(Carried(MaxOut))
  BY DEF TypeInv, WireOK
<1>1. UNCHANGED <<dest, clientPhase, clientConns, destGot, serverUp>> /\ serverUp
  BY DEF Server, AcceptTunnel, ServerTcpClose, ServerUdpPacket, ServerTunnelEnd, RejectOutside, ServerReadUdp,
     AcceptOutside, ReadOutside, ReadOutsideEnd, ServerTcpData, serverVars, ServerHead
<1>2. ASSUME UNCHANGED <<toClient, outRead>> PROVE \A s \in Sessions : DestFlow(s)'
  BY <1>1, <1>2 DEF DestFlow, DestTakes, Linked, InLoop
<1>3. ASSUME NEW m \in Carried(MaxOut), m.type # TCP_DATA, m.type # TCP_OPEN, NEW ok, SendToClient(m, ok),
             UNCHANGED outRead
      PROVE  \A s \in Sessions : DestFlow(s)'
  <2> TAKE s \in Sessions
  <2>1. ~Data(m, s) /\ ~Opens(m, s)
    BY <1>3 DEF Data, Opens
  <2>2. toClient' \in {toClient, Append(toClient, m)}
    BY <1>3 DEF SendToClient
  <2> QED BY <1>1, <1>3, <2>1, <2>2, DestFlowTold
<1>4. CASE AcceptTunnel
  BY <1>2, <1>4, AcceptsFirst DEF CalmInv, AcceptTunnel
\* The server gives up its tunnel, which is the client's unless the client has none.
<1>5. ASSUME HasTunnel, ServerCut, UNCHANGED outRead PROVE \A s \in Sessions : DestFlow(s)'
  <2>1. ~InLoop'
    BY <1>0, <1>1, <1>5, BothFacts DEF Both, InLoop
  <2> QED BY <2>1 DEF DestFlow, DestTakes
<1>6. CASE ServerTcpClose \/ ServerUdpPacket \/ \E s \in Sessions : RejectOutside(s)
  BY <1>2, <1>6 DEF ServerTcpClose, ServerUdpPacket, RejectOutside, tunnelVars
<1>7. CASE ServerTunnelEnd
  BY <1>5, <1>7 DEF ServerTunnelEnd
<1>8. ASSUME NEW ok \in BOOLEAN, ServerReadUdp(ok) PROVE \A s \in Sessions : DestFlow(s)'
  <2> DEFINE m == Message(UDP_PACKET, 0, None, 0)
  <2>1. UNCHANGED outRead
    BY <1>8 DEF ServerReadUdp
  <2>2. UNCHANGED toClient \/ SendToClient(m, ok) \/ (HasTunnel /\ ServerCut)
    BY <1>8 DEF ServerReadUdp
  <2>3. m \in Carried(MaxOut)
    BY MessageCarried DEF UDP_PACKET, TCP_DATA
  <2>4. m.type # TCP_DATA /\ m.type # TCP_OPEN
    BY DEF Message, UDP_PACKET, TCP_DATA, TCP_OPEN
  <2> HIDE DEF m
  <2> QED BY <1>2, <1>3, <1>5, <2>1, <2>2, <2>3, <2>4
<1>9. ASSUME NEW n \in ConnIds, NEW s \in Sessions, NEW ok, SendToClient(Message(TCP_CLOSE, n, s, 0), ok),
             UNCHANGED outRead
      PROVE  \A r \in Sessions : DestFlow(r)'
  <2> DEFINE m == Message(TCP_CLOSE, n, s, 0)
  <2>1. m \in Carried(MaxOut)
    BY MessageCarried DEF UDP_PACKET, TCP_DATA, TCP_CLOSE
  <2>2. m.type # TCP_DATA /\ m.type # TCP_OPEN /\ SendToClient(m, ok)
    BY <1>9 DEF Message, TCP_CLOSE, TCP_DATA, TCP_OPEN
  <2> HIDE DEF m
  <2> QED BY <1>3, <1>9, <2>1, <2>2
<1>10. ASSUME NEW n \in ConnIds, NEW ok \in BOOLEAN, ReadOutsideEnd(n, ok)
       PROVE  \A s \in Sessions : DestFlow(s)'
  <2>1. serverConns[n] \in Sessions /\ UNCHANGED outRead
    BY <1>0, <1>10 DEF ReadOutsideEnd, ServerHas, TablesOK
  <2> QED BY <1>2, <1>9, <1>10, <2>1 DEF ReadOutsideEnd
<1>11. ASSUME NEW wrote \in BOOLEAN, NEW ok \in BOOLEAN, ServerTcpData(wrote, ok)
       PROVE  \A s \in Sessions : DestFlow(s)'
  <2> DEFINE n == ServerMsg.conn_id
  <2>1. UNCHANGED outRead /\ ServerHead(TCP_DATA) /\ ServerPop
    BY <1>11 DEF ServerTcpData
  <2>2. n \in ConnIds
    BY <2>1, ServerHeadWire DEF TCP_DATA, UDP_PACKET, Carried
  <2>3. \/ UNCHANGED toClient
        \/ ServerHas(n) /\ SendToClient(Message(TCP_CLOSE, n, serverConns[n], 0), ok)
    BY <1>11 DEF ServerTcpData
  <2>4. ServerHas(n) => serverConns[n] \in Sessions
    BY <1>0, <2>2 DEF ServerHas, TablesOK
  <2> HIDE DEF n
  <2> QED BY <1>2, <1>9, <2>1, <2>2, <2>3, <2>4
<1>12. ASSUME NEW r \in Sessions, NEW ok \in BOOLEAN, AcceptOutside(r, ok)
       PROVE  \A s \in Sessions : DestFlow(s)'
  <2> DEFINE m == Message(TCP_OPEN, next_conn_id, r, 0)
  <2>1. SendToClient(m, ok) /\ UNCHANGED outRead /\ r \in Waiting
    BY <1>12 DEF AcceptOutside, Waiting
  <2>2. next_conn_id \in ConnIds
    BY <2>1, NumberLeft DEF TypeInv
  <2>3. m \in Carried(MaxOut)
    BY <2>2, MessageCarried DEF TCP_OPEN, UDP_PACKET, TCP_DATA
  <2>4. m.type = TCP_OPEN /\ m.session = r
    BY DEF Message
  <2> HIDE DEF m
  <2>5. toClient' \in {toClient, Append(toClient, m)} /\ \A s : ~Data(m, s)
    BY <2>1, <2>4 DEF SendToClient, Data, TCP_OPEN, TCP_DATA
  <2> TAKE s \in Sessions
  <2>6. CASE s # r
    <3>1. ~Opens(m, s)
      BY <2>4, <2>6 DEF Opens
    <3> QED BY <1>1, <2>1, <2>3, <2>5, <3>1, DestFlowTold
  <2>7. CASE s = r
    <3>1. Items(toClient, s) = {}
      <4>1. \A x \in Range(toClient) : ~Tells(x, s)
        BY <2>1, <2>7, WaitingUntold DEF OpenInv
      <4> QED BY <4>1 DEF Items, Data, Tells, TCP_DATA, UDP_PACKET
    <3>2. Items(toClient', s) = {}
      <4>1. CASE toClient' = Append(toClient, m)
        BY <1>0, <2>3, <2>5, <3>1, <4>1, ItemsAppend
      <4>2. CASE toClient' = toClient
        BY <3>1, <4>2
      <4> QED BY <2>5, <4>1, <4>2
    <3>3. outRead'[s] = 0
      BY <2>1, <2>7 DEF LinkInv
    <3> QED BY <3>2, <3>3, FlowsNone DEF DestFlow
  <2> QED BY <2>6, <2>7
<1>13. ASSUME NEW n \in ConnIds, NEW ok \in BOOLEAN, ReadOutside(n, ok)
       PROVE  \A s \in Sessions : DestFlow(s)'
  <2> DEFINE r == serverConns[n]
             m == Message(TCP_DATA, n, r, outRead[r] + 1)
  <2>1. ServerHas(n) /\ outRead[r] < outSent[r] /\ Counted(outRead, r, outRead')
    BY <1>13 DEF ReadOutside, Counted
  <2>2. r \in Sessions
    BY <1>0, <2>1 DEF TablesOK, ServerHas
  <2>3. outRead[r] + 1 \in 1 .. MaxOut /\ outRead[r] \in Nat /\ outRead \in [Sessions -> 0 .. MaxOut]
    BY <2>1, <2>2, LimitsAssumption DEF TypeInv, PeersOK
  <2>4. m \in Carried(MaxOut)
    BY <2>2, <2>3, MessageCarried DEF UDP_PACKET, TCP_DATA
  <2>5. m.type = TCP_DATA /\ m.session = r /\ m.item = outRead[r] + 1
    BY DEF Message
  <2>6. InLoop => toClient' = Append(toClient, m)
    <3>1. ASSUME InLoop PROVE HasTunnel /\ ~ServerCut
      BY <1>0, <1>1, <2>1, <3>1, BothFacts DEF CalmInv, ServerHas, NoConns, Both
    <3> QED BY <1>13, <3>1 DEF ReadOutside, SendToClient
  <2> HIDE DEF r, m
  <2> SUFFICES ASSUME NEW s \in Sessions, InLoop' PROVE DestFlow(s)'
    BY DEF DestFlow, DestTakes
  <2>7. toClient' = Append(toClient, m)
    BY <1>1, <2>6 DEF InLoop
  <2>8. ~Opens(m, s)
    BY <2>5 DEF Opens, TCP_DATA, TCP_OPEN
  <2>9. CASE s # r
    <3>1. ~Data(m, s) /\ outRead'[s] = outRead[s]
      BY <2>1, <2>3, <2>5, <2>9 DEF Data, Counted
    <3> QED BY <1>1, <2>4, <2>7, <2>8, <3>1, DestFlowTold
  <2>10. CASE s = r
    <3>1. Items(toClient', s) = Items(toClient, s) \cup {outRead[s] + 1}
      BY <1>0, <2>4, <2>5, <2>7, <2>10, ItemsAppend DEF Data
    <3>2. outRead'[s] = outRead[s] + 1
      BY <2>1, <2>3, <2>10 DEF Counted
    <3>3. DestTakes(s)' => DestTakes(s)
      <4>1. Range(toClient') = Range(toClient) \cup {m}
        BY <1>0, <2>4, <2>7, AppendRange
      <4> QED BY <1>1, <2>8, <4>1 DEF DestTakes, Linked, InLoop
    <3>4. ASSUME DestTakes(s) PROVE Flows(Items(toClient', s), Len(destGot[s]), outRead'[s], serverUp')
      <4>1. Flows(Items(toClient, s), Len(destGot[s]), outRead[s], TRUE)
        BY <1>1, <3>4 DEF DestFlow
      <4>2. outRead[s] \in Nat
        BY <2>3, <2>10
      <4>3. Flows(Items(toClient, s) \cup {outRead[s] + 1}, Len(destGot[s]), outRead[s] + 1, serverUp')
        BY <4>1, <4>2, FlowsRead
      <4> QED BY <3>1, <3>2, <4>3
    <3> QED BY <1>1, <3>3, <3>4 DEF DestFlow
  <2> QED BY <2>9, <2>10
<1> QED BY <1>4, <1>6, <1>7, <1>8, <1>10, <1>11, <1>12, <1>13 DEF Server

\* Nothing new is to be taken for the destination.
LEMMA DestTakesLess ==
  ASSUME NEW s \in Sessions, InLoop' => InLoop, Range(toClient') \subseteq Range(toClient),
         \A id \in ConnIds : clientConns'[id] \in {clientConns[id], None},
         dest'[s] \notin Gone => dest[s] \notin Gone
  PROVE  DestTakes(s)' => DestTakes(s)
<1>1. s # None
  BY SessionsAssumption
<1>2. Linked(s)' => Linked(s)
  BY <1>1 DEF Linked
<1> QED BY <1>2 DEF DestTakes

\* A message other than data or TCP_OPEN is taken.
LEMMA DestFlowPop ==
  ASSUME TypeInv, NEW type \in {TCP_CLOSE, UDP_PACKET}, ClientHead(type), ClientPop,
         UNCHANGED <<outRead, destGot, dest, serverUp, clientPhase>>,
         \A id \in ConnIds : clientConns'[id] \in {clientConns[id], None},
         NEW s \in Sessions, DestFlow(s)
  PROVE  DestFlow(s)'
<1>1. /\ toClient \in Seq(Carried(MaxOut)) /\ toClient # <<>> /\ toClient' = Tail(toClient)
      /\ ~Data(Head(toClient), s)
  BY DEF TypeInv, WireOK, ClientHead, ClientPop, Data, TCP_CLOSE, UDP_PACKET, TCP_DATA
<1>2. Items(toClient', s) = Items(toClient, s) /\ Range(toClient') \subseteq Range(toClient)
  BY <1>1, ItemsTail, TailRange
<1>3. DestTakes(s)' => DestTakes(s)
  BY <1>2, DestTakesLess DEF InLoop
<1> QED BY <1>2, <1>3, DestFlowKept

\* What is taken of a session's data is received, or none is any more.
LEMMA ClientDataGoes ==
  ASSUME TypeInv, KnownOnce, OpenInv, LinkInv, NEW w \in BOOLEAN, NEW ok \in BOOLEAN, ClientTcpData(w, ok)
  PROVE  \E r \in Sessions :
           /\ Data(ClientMsg, r)
           /\ \/ DestTakes(r) /\ Added(destGot, r, ClientMsg.item, destGot')
              \/ ~DestTakes(r)' /\ UNCHANGED destGot
<1> DEFINE n == ClientMsg.conn_id
           r == ClientMsg.session
<1>0. TablesOK /\ PeersOK /\ toClient \in Seq(Carried(MaxOut))
  BY DEF TypeInv, WireOK
<1>1. ClientHead(TCP_DATA) /\ ClientPop /\ UNCHANGED <<dest, clientPhase>> /\ InLoop
  BY DEF ClientTcpData, ClientHead
<1>2. ClientMsg \in Carried(MaxOut) /\ ClientMsg.type = TCP_DATA /\ ClientMsg \in Range(toClient)
  BY <1>1, ClientHeadWire DEF TCP_DATA
<1>3. n \in ConnIds /\ r \in Sessions /\ r # None /\ Known(n, r) /\ Data(ClientMsg, r) /\ Tells(ClientMsg, r)
  BY <1>2, MessageKnown, SessionsAssumption DEF Data, Tells, TCP_DATA, UDP_PACKET
<1>4. toClient # <<>> /\ toClient' = Tail(toClient) /\ ClientMsg = Head(toClient)
  BY <1>1 DEF ClientHead, ClientPop, ClientMsg
<1>5. \A m \in Range(toClient') : ~Opens(m, r)
  BY <1>0, <1>3, <1>4, HeadOpenFirst DEF OpenInv
<1>6. ClientHas(n) => clientConns[n] = r
  <2>1. ASSUME ClientHas(n) PROVE Known(n, clientConns[n]) /\ clientConns[n] \in Sessions
    BY <1>0, <1>3, <2>1 DEF ClientHas, TablesOK, Known
  <2> QED BY <1>3, <2>1 DEF KnownOnce
<1>7. \A id \in ConnIds : clientConns[id] = r => id = n
  BY <1>3 DEF OpenInv, SessionOnce, Known
<1>8. CASE ClientHas(n) /\ w /\ StillReads(dest[r])
  <2>1. destGot' = [destGot EXCEPT ![r] = Append(destGot[r], <<r, ClientMsg.item>>)]
    BY <1>6, <1>8 DEF ClientTcpData
  <2>2. DestTakes(r)
    BY <1>1, <1>3, <1>6, <1>8 DEF DestTakes, Linked, StillReads, Gone
  <2> QED BY <1>3, <2>1, <2>2 DEF Added
<1>9. CASE ClientHas(n) /\ w /\ ~StillReads(dest[r])
  <2>1. UNCHANGED <<destGot, clientConns>>
    BY <1>6, <1>9 DEF ClientTcpData
  <2>2. dest[r] \in Gone
    BY <1>0, <1>3, <1>6, <1>9 DEF LinkInv, PeersOK, PeerStates, Ended, StillReads, Gone
  <2> HIDE DEF n, r
  <2>3. \A s : s = r => ~DestTakes(s)'
    BY <1>1, <1>5, <2>2 DEF DestTakes, Linked
  <2> QED BY <1>3, <2>1, <2>3
<1>10. CASE ~(ClientHas(n) /\ w)
  <2>1. UNCHANGED destGot /\ clientConns' = [clientConns EXCEPT ![n] = None]
    BY <1>10 DEF ClientTcpData, ClientRemove
  <2> HIDE DEF n, r
  <2>2. \A id \in ConnIds : clientConns'[id] # r
    BY <1>0, <1>3, <1>7, <2>1 DEF TablesOK
  <2>3. \A s : s = r => ~DestTakes(s)'
    BY <1>5, <2>2 DEF DestTakes, Linked
  <2> QED BY <1>3, <2>1, <2>3
<1> QED BY <1>8, <1>9, <1>10

\* The first item of a session that takes it is the next it receives.
LEMMA DestNext ==
  ASSUME TypeInv, ToClientOrder, toClient # <<>>, toClient' = Tail(toClient), NEW r \in Sessions,
         Data(ClientMsg, r), DestTakes(r), DestFlow(r), Whole(destGot),
         Added(destGot, r, ClientMsg.item, destGot'), UNCHANGED <<outRead, serverUp>>
  PROVE  ClientMsg.item = Len(destGot[r]) + 1 /\ Whole(destGot)' /\ DestFlow(r)'
<1>1. /\ toClient \in Seq(Carried(MaxOut)) /\ MaxOut \in Nat /\ ClientMsg = Head(toClient)
      /\ destGot \in [Sessions -> Seq(Sessions \X (1 .. MaxOut))]
  BY LimitsAssumption DEF TypeInv, WireOK, PeersOK, ClientMsg
<1>2. Rising(toClient) /\ Ahead(toClient, destGot, outRead)
  BY DEF ToClientOrder
<1>3. Flows(Items(toClient, r), Len(destGot[r]), outRead[r], serverUp)
  BY DEF DestFlow
<1> DEFINE new == destGot'
<1>4. Data(Head(toClient), r) /\ Added(destGot, r, Head(toClient).item, new)
  BY <1>1
<1> HIDE DEF new
<1>5. /\ Head(toClient).item = Len(destGot[r]) + 1 /\ Whole(new)
      /\ Flows(Items(Tail(toClient), r), Len(new[r]), outRead[r], serverUp)
  BY <1>1, <1>2, <1>3, <1>4, FirstNext
<1> QED BY <1>1, <1>5 DEF DestFlow, new

LEMMA ClientDestFlow ==
  ASSUME TypeInv, KnownOnce, OrderInv, OpenInv, LinkInv, CalmInv, Whole(destGot),
         \A s \in Sessions : DestFlow(s), Client
  PROVE  Whole(destGot)' /\ \A s \in Sessions : DestFlow(s)'
<1> USE DEF outsideVars, destVars, clientVars
<1>0. TablesOK /\ TunnelsOK /\ toClient \in Seq(Carried(MaxOut))
  BY DEF TypeInv, WireOK
<1>1. UNCHANGED <<outRead, serverUp>>
  BY DEF Client, Connect, ConnectFails, ClientTcpClose, ClientUdpPacket, ClientTunnelEnd, ClientReadUdp,
     ClientTcpOpen, ClientTcpData, ReadDest, ReadDestEnd, serverVars
<1>2. ASSUME ~InLoop', UNCHANGED destGot PROVE Whole(destGot)' /\ \A s \in Sessions : DestFlow(s)'
  BY <1>2 DEF Whole, DestFlow, DestTakes
<1>3. ASSUME UNCHANGED <<toClient, destGot, dest, clientPhase>>,
             \A id \in ConnIds : clientConns'[id] \in {clientConns[id], None}
      PROVE  Whole(destGot)' /\ \A s \in Sessions : DestFlow(s)'
  <2>1. ASSUME NEW s \in Sessions PROVE DestFlow(s)'
    <3>1. DestTakes(s)' => DestTakes(s)
      BY <1>3, DestTakesLess DEF InLoop
    <3> QED BY <1>1, <1>3, <3>1, DestFlowKept
  <2> QED BY <1>3, <2>1 DEF Whole
<1>4. ASSUME NEW id, ClientRemove(id) PROVE \A i \in ConnIds : clientConns'[i] \in {clientConns[i], None}
  BY <1>0, <1>4 DEF ClientRemove, TablesOK
<1>5. CASE Connect
  <2>1. tunnels = 0 /\ UNCHANGED <<clientConns, toClient, destGot>>
    BY <1>5 DEF Connect, CalmInv, TypeInv, TunnelsOK
  <2>2. clientConns' = NoConns /\ toClient' = <<>>
    BY <2>1 DEF CalmInv
  <2>3. \A s \in Sessions : ~DestTakes(s)'
    BY <2>2, SessionsAssumption DEF DestTakes, Linked, NoConns, Range
  <2> QED BY <2>1, <2>3 DEF DestFlow, Whole
<1>6. CASE ConnectFails \/ ClientTunnelEnd
  BY <1>2, <1>6 DEF ConnectFails, ClientTunnelEnd, LeaveLoop, ClientStops, InLoop
<1>7. ASSUME NEW ok \in BOOLEAN, ClientReadUdp(ok) PROVE Whole(destGot)' /\ \A s \in Sessions : DestFlow(s)'
  <2>1. CASE ok
    BY <1>3, <1>7, <2>1 DEF ClientReadUdp
  <2>2. CASE ~ok
    BY <1>2, <1>7, <2>2 DEF ClientReadUdp, LeaveLoop, InLoop
  <2> QED BY <2>1, <2>2
<1>8. ASSUME NEW id \in ConnIds, NEW ok \in BOOLEAN, ReadDest(id, ok)
      PROVE  Whole(destGot)' /\ \A s \in Sessions : DestFlow(s)'
  <2>1. CASE ok
    BY <1>3, <1>8, <2>1 DEF ReadDest
  <2>2. CASE ~ok
    BY <1>2, <1>8, <2>2 DEF ReadDest, LeaveLoop, InLoop
  <2> QED BY <2>1, <2>2
<1>9. ASSUME NEW id \in ConnIds, NEW ok \in BOOLEAN, ReadDestEnd(id, ok)
      PROVE  Whole(destGot)' /\ \A s \in Sessions : DestFlow(s)'
  BY <1>3, <1>4, <1>9 DEF ReadDestEnd
<1>10. CASE ClientTcpClose \/ ClientUdpPacket
  <2>1. PICK type \in {TCP_CLOSE, UDP_PACKET} : ClientHead(type) /\ ClientPop
    BY <1>10 DEF ClientTcpClose, ClientUdpPacket
  <2>2. UNCHANGED <<destGot, dest, clientPhase>> /\ \A id \in ConnIds : clientConns'[id] \in {clientConns[id], None}
    BY <1>4, <1>10 DEF ClientTcpClose, ClientUdpPacket
  <2>3. \A s \in Sessions : DestFlow(s)'
    BY <1>1, <2>1, <2>2, DestFlowPop
  <2> QED BY <2>2, <2>3 DEF Whole
<1>11. ASSUME ClientPop, toClient # <<>>, UNCHANGED clientPhase, NEW s \in Sessions, ~Data(ClientMsg, s),
              destGot'[s] = destGot[s], DestTakes(s)' => DestTakes(s)
       PROVE  DestFlow(s)'
  <2>1. Items(toClient', s) = Items(toClient, s)
    BY <1>0, <1>11, ItemsTail DEF ClientPop, ClientMsg
  <2> QED BY <1>1, <1>11, <2>1, DestFlowKept
<1>12. ASSUME NEW b \in BOOLEAN, NEW ok \in BOOLEAN, ClientTcpOpen(b, ok)
       PROVE  Whole(destGot)' /\ \A s \in Sessions : DestFlow(s)'
  <2>1. ClientHead(TCP_OPEN) /\ ClientPop /\ UNCHANGED <<destGot, clientPhase>> /\ toClient # <<>>
    BY <1>12 DEF ClientTcpOpen, ClientHead
  <2>2. ClientMsg \in Range(toClient) /\ ClientMsg.type = TCP_OPEN
    BY <1>0, <2>1, HeadTailRange DEF ClientHead, ClientMsg
  <2>3. \/ UNCHANGED <<dest, clientConns>>
        \/ \E id : /\ clientConns' = [clientConns EXCEPT ![id] = ClientMsg.session]
                   /\ dest' = [dest EXCEPT ![ClientMsg.session] = "up"]
    BY <1>12 DEF ClientTcpOpen
  <2>4. Range(toClient') \subseteq Range(toClient)
    BY <1>0, <2>1, TailRange DEF ClientPop
  <2>5. ASSUME NEW s \in Sessions, DestTakes(s)' PROVE DestTakes(s)
    <3>1. ClientMsg.session = s => Opens(ClientMsg, s)
      BY <2>2 DEF Opens
    <3>2. ClientMsg.session # s /\ Linked(s)' => Linked(s)
      BY <1>0, <2>3 DEF Linked, TablesOK, TypeInv, PeersOK
    <3> QED BY <2>1, <2>2, <2>4, <2>5, <3>1, <3>2 DEF DestTakes, InLoop
  <2>6. \A s : ~Data(ClientMsg, s)
    BY <2>2 DEF Data, TCP_OPEN, TCP_DATA
  <2>7. \A s \in Sessions : DestFlow(s)'
    BY <1>11, <2>1, <2>5, <2>6
  <2> QED BY <2>1, <2>7 DEF Whole
<1>13. ASSUME NEW w \in BOOLEAN, NEW ok \in BOOLEAN, ClientTcpData(w, ok)
       PROVE  Whole(destGot)' /\ \A s \in Sessions : DestFlow(s)'
  <2>1. ClientHead(TCP_DATA) /\ ClientPop /\ UNCHANGED <<dest, clientPhase>> /\ toClient # <<>>
    BY <1>13 DEF ClientTcpData, ClientHead
  <2>2. \A id \in ConnIds : clientConns'[id] \in {clientConns[id], None}
    BY <1>4, <1>13 DEF ClientTcpData
  <2>3. Range(toClient') \subseteq Range(toClient)
    BY <1>0, <2>1, TailRange DEF ClientPop
  <2>4. PICK r \in Sessions :
          /\ Data(ClientMsg, r)
          /\ \/ DestTakes(r) /\ Added(destGot, r, ClientMsg.item, destGot')
             \/ ~DestTakes(r)' /\ UNCHANGED destGot
    BY <1>13, ClientDataGoes
  <2>5. \A s \in Sessions : s # r => destGot'[s] = destGot[s]
    BY <2>4 DEF Added, TypeInv, PeersOK
  <2>6. ASSUME NEW s \in Sessions, s # r PROVE DestFlow(s)'
    <3>1. ~Data(ClientMsg, s)
      BY <2>4, <2>6 DEF Data
    <3>2. DestTakes(s)' => DestTakes(s)
      BY <2>1, <2>2, <2>3, DestTakesLess DEF InLoop
    <3> QED BY <1>11, <2>1, <2>5, <2>6, <3>1, <3>2
  <2>7. Whole(destGot)' /\ DestFlow(r)'
    <3>1. CASE DestTakes(r) /\ Added(destGot, r, ClientMsg.item, destGot')
      BY <1>1, <2>1, <2>4, <3>1, DestNext DEF OrderInv, ClientPop
    <3>2. CASE ~DestTakes(r)' /\ UNCHANGED destGot
      BY <3>2 DEF DestFlow, Whole
    <3> QED BY <2>4, <3>1, <3>2
  <2> QED BY <2>6, <2>7
<1> QED BY <1>5, <1>6, <1>7, <1>8, <1>9, <1>10, <1>12, <1>13 DEF Client

LEMMA OtherDestFlow ==
  ASSUME OneTunnel, TypeInv, OrderInv, Whole(destGot), \A s \in Sessions : DestFlow(s), Peers \/ FaultStep
  PROVE  Whole(destGot)' /\ \A s \in Sessions : DestFlow(s)'
<1> USE DEF outsideVars, destVars, clientVars, tunnelVars
<1>1. UNCHANGED <<destGot, outRead>>
  BY DEF Peers, OutsideConnect, OutsideSend, OutsideEnds, DestSend, DestEnds, FaultStep, Break, ServerSigpipe,
     ClientSigpipe, KillServer, KillClient, StartServer, StartClient
<1>2. CASE Peers
  <2>1. UNCHANGED <<serverUp, clientPhase, clientConns, toClient>>
    BY <1>2 DEF Peers, OutsideConnect, OutsideSend, OutsideEnds, DestSend, DestEnds, serverVars
  <2>2. \A s \in Sessions : dest'[s] \notin Gone => dest[s] \notin Gone
    <3>1. CASE UNCHANGED dest
      BY <3>1
    <3>2. ASSUME NEW r \in Sessions, NEW how, StillReads(dest[r]), dest' = [dest EXCEPT ![r] = how]
          PROVE  \A s \in Sessions : dest'[s] \notin Gone => dest[s] \notin Gone
      BY <3>2 DEF StillReads, Gone, TypeInv, PeersOK
    <3> QED BY <1>2, <3>1, <3>2 DEF Peers, OutsideConnect, OutsideSend, OutsideEnds, DestSend, DestEnds
  <2>3. \A s \in Sessions : DestFlow(s)'
    BY <1>1, <2>1, <2>2, DestTakesLess, DestFlowKept DEF InLoop
  <2> QED BY <1>1, <2>3 DEF Whole
<1>3. ASSUME ServerStops, UNCHANGED <<dest, clientPhase, clientConns>> PROVE \A s \in Sessions : DestFlow(s)'
  <2> TAKE s \in Sessions
  <2> DEFINE I == Items(toClient, s)
             J == Items(toClient', s)
  <2>1. serverUp' = FALSE /\ toClient' \in Beginnings(toClient) /\ toClient \in Seq(Carried(MaxOut)) /\ MaxOut \in Nat
    BY <1>3, LimitsAssumption DEF ServerStops, LoseToClient, TypeInv, WireOK
  <2>2. Rising(toClient)
    BY DEF OrderInv, ToClientOrder
  <2>3. J \subseteq I /\ \A n \in J, k \in I : k <= n => k \in J
    BY <2>1, <2>2, ItemsBeginning
  <2>4. I \subseteq Nat
    BY <2>1, ItemsOrder
  <2>5. DestTakes(s)' => DestTakes(s)
    BY <1>3, <2>1, BeginningRange, DestTakesLess DEF InLoop
  <2> HIDE DEF I, J
  <2>6. Flows(I, Len(destGot[s]), outRead[s], serverUp) => Flows(J, Len(destGot[s]), outRead[s], FALSE)
    BY <2>3, <2>4, FlowsShorter
  <2> QED BY <1>1, <2>1, <2>5, <2>6 DEF DestFlow, I, J
<1>4. CASE FaultStep
  <2>1. CASE ServerSigpipe \/ KillServer
    <3>1. ServerStops /\ UNCHANGED <<dest, clientPhase, clientConns>>
      BY <2>1 DEF ServerSigpipe, KillServer
    <3> QED BY <1>1, <1>3, <3>1 DEF Whole
  <2>2. CASE ClientSigpipe \/ KillClient
    <3>1. ~InLoop'
      BY <2>2 DEF ClientSigpipe, KillClient, ClientStops, InLoop
    <3> QED BY <1>1, <3>1 DEF Whole, DestFlow, DestTakes
  <2>3. ~Break /\ ~StartServer /\ ~StartClient
    BY DEF OneTunnel, Break, StartServer, StartClient
  <2> QED BY <1>4, <2>1, <2>2, <2>3 DEF FaultStep
<1> QED BY <1>2, <1>4

-----------------------------------------------------------------------------
(* The flow to the outside peers, the same on the way back.                *)

OutsideTakes(s) == serverUp /\ outside[s] \notin Gone /\ \E id \in ConnIds : serverConns[id] = s
OutsideFlow(s) == OutsideTakes(s) => Flows(Items(toServer[1], s), Len(outGot[s]), destRead[s], InLoop)

LEMMA FlowsEmpty == ASSUME NEW l, NEW r PROVE Flows({}, l, r, FALSE)
BY DEF Flows, NoGap

LEMMA OutsideFlowKept ==
  ASSUME NEW s, OutsideFlow(s), OutsideTakes(s)' => OutsideTakes(s), Items(toServer'[1], s) = Items(toServer[1], s),
         outGot'[s] = outGot[s], UNCHANGED destRead, InLoop' => InLoop
  PROVE  OutsideFlow(s)'
<1> SUFFICES ASSUME OutsideTakes(s) PROVE Flows(Items(toServer[1], s), Len(outGot[s]), destRead[s], InLoop')
  BY DEF OutsideFlow
<1>1. Flows(Items(toServer[1], s), Len(outGot[s]), destRead[s], InLoop)
  BY DEF OutsideFlow
<1> QED BY <1>1 DEF Flows

\* No connection is to be written to that was not before.
LEMMA OutsideTakesLess ==
  ASSUME NEW s \in Sessions, serverUp' => serverUp, \A id \in ConnIds : serverConns'[id] \in {serverConns[id], None},
         outside'[s] \notin Gone => outside[s] \notin Gone
  PROVE  OutsideTakes(s)' => OutsideTakes(s)
<1>1. s # None
  BY SessionsAssumption
<1> QED BY <1>1 DEF OutsideTakes

\* The server holds the one tunnel, and takes its first message.
LEMMA ServerTakes ==
  ASSUME TypeInv, CalmInv, NEW type, ServerHead(type), ServerPop
  PROVE  /\ serverTunnel = 1 /\ 1 \in Tunnels /\ toServer[1] \in Seq(Carried(MaxDest)) /\ toServer[1] # <<>>
         /\ toServer'[1] = Tail(toServer[1]) /\ ServerMsg = Head(toServer[1])
<1>1. serverTunnel # 0 /\ serverTunnel \in 0 .. tunnels /\ tunnels \in Nat /\ tunnels <= 1 /\ TunnelsOK
  BY DEF ServerHead, HasTunnel, CalmInv, TypeInv, TunnelsOK
<1>2. serverTunnel = 1
  BY <1>1
<1>3. 1 \in Tunnels
  BY <1>1, <1>2, HeldTunnels DEF HasTunnel
<1> QED BY <1>2, <1>3 DEF ServerHead, ServerPop, ServerMsg, TypeInv, WireOK

\* What is taken of a session's data is received, or none is any more.
LEMMA ServerDataGoes ==
  ASSUME TypeInv, KnownOnce, OpenInv, NEW w \in BOOLEAN, NEW ok \in BOOLEAN, ServerTcpData(w, ok)
  PROVE  \E r \in Sessions :
           /\ Data(ServerMsg, r)
           /\ \/ OutsideTakes(r) /\ Added(outGot, r, ServerMsg.item, outGot')
              \/ ~OutsideTakes(r)' /\ UNCHANGED outGot
<1> DEFINE n == ServerMsg.conn_id
           r == ServerMsg.session
<1>0. TablesOK /\ PeersOK
  BY DEF TypeInv
<1>1. ServerHead(TCP_DATA) /\ ServerPop /\ UNCHANGED outside /\ serverUp
  BY DEF ServerTcpData, ServerHead
<1>2. /\ ServerMsg \in Carried(MaxDest) /\ ServerMsg.type = TCP_DATA
      /\ serverTunnel \in Tunnels /\ ServerMsg \in Range(toServer[serverTunnel])
  BY <1>1, ServerHeadWire DEF TCP_DATA
<1>3. n \in ConnIds /\ r \in Sessions /\ r # None /\ Known(n, r) /\ Data(ServerMsg, r)
  BY <1>2, MessageKnown, SessionsAssumption DEF Data, TCP_DATA, UDP_PACKET
<1>4. ServerHas(n) => serverConns[n] = r
  <2>1. ASSUME ServerHas(n) PROVE Known(n, serverConns[n]) /\ serverConns[n] \in Sessions
    BY <1>0, <1>3, <2>1 DEF ServerHas, TablesOK, Known
  <2> QED BY <1>3, <2>1 DEF KnownOnce
<1>5. r \notin Waiting /\ \A id \in ConnIds : serverConns[id] = r => id = n
  BY <1>3 DEF OpenInv, SessionOnce, Known
<1>6. CASE ServerHas(n) /\ w /\ StillReads(outside[r])
  <2>1. outGot' = [outGot EXCEPT ![r] = Append(outGot[r], <<r, ServerMsg.item>>)]
    BY <1>4, <1>6 DEF ServerTcpData
  <2>2. OutsideTakes(r)
    BY <1>1, <1>3, <1>4, <1>6 DEF OutsideTakes, StillReads, Gone
  <2> QED BY <1>3, <2>1, <2>2 DEF Added
<1>7. CASE ServerHas(n) /\ w /\ ~StillReads(outside[r])
  <2>1. UNCHANGED outGot
    BY <1>4, <1>7 DEF ServerTcpData
  <2>2. outside[r] \in Gone
    BY <1>0, <1>3, <1>5, <1>7 DEF PeersOK, PeerStates, Ended, StillReads, Gone, Waiting
  <2> HIDE DEF n, r
  <2>3. \A s : s = r => ~OutsideTakes(s)'
    BY <1>1, <2>2 DEF OutsideTakes
  <2> QED BY <1>3, <2>1, <2>3
<1>8. CASE ~(ServerHas(n) /\ w)
  <2>1. /\ UNCHANGED outGot
        /\ \/ UNCHANGED serverConns /\ ~ServerHas(n)
           \/ serverConns' = [serverConns EXCEPT ![n] = None]
    BY <1>8 DEF ServerTcpData, ServerRemove
  <2> HIDE DEF n, r
  <2>2. \A id \in ConnIds : serverConns'[id] # r
    BY <1>0, <1>3, <1>5, <2>1 DEF TablesOK, ServerHas
  <2>3. \A s : s = r => ~OutsideTakes(s)'
    BY <2>2 DEF OutsideTakes
  <2> QED BY <1>3, <2>1, <2>3
<1> QED BY <1>6, <1>7, <1>8

\* The first item of a session that takes it is the next it receives.
LEMMA OutsideNext ==
  ASSUME TypeInv, ToServerOrder, 1 \in Tunnels, toServer[1] # <<>>, toServer'[1] = Tail(toServer[1]),
         ServerMsg = Head(toServer[1]), NEW r \in Sessions,
         Data(ServerMsg, r), OutsideTakes(r), OutsideFlow(r), Whole(outGot),
         Added(outGot, r, ServerMsg.item, outGot'), UNCHANGED <<destRead, clientPhase>>
  PROVE  ServerMsg.item = Len(outGot[r]) + 1 /\ Whole(outGot)' /\ OutsideFlow(r)'
<1> DEFINE q == toServer[1]
           new == outGot'
<1>1. /\ q \in Seq(Carried(MaxDest)) /\ q # <<>> /\ MaxDest \in Nat /\ Data(Head(q), r)
      /\ outGot \in [Sessions -> Seq(Sessions \X (1 .. MaxDest))]
  BY LimitsAssumption DEF TypeInv, WireOK, PeersOK
<1>2. Rising(q) /\ Ahead(q, outGot, destRead)
  BY DEF ToServerOrder
<1>3. Flows(Items(q, r), Len(outGot[r]), destRead[r], InLoop)
  BY DEF OutsideFlow
<1>4. Added(outGot, r, Head(q).item, new)
  OBVIOUS
<1> HIDE DEF q, new
<1>5. /\ Head(q).item = Len(outGot[r]) + 1 /\ Whole(new)
      /\ Flows(Items(Tail(q), r), Len(new[r]), destRead[r], InLoop)
  BY <1>1, <1>2, <1>3, <1>4, FirstNext
<1> QED BY <1>5 DEF OutsideFlow, InLoop, q, new

LEMMA ServerOutsideFlow ==
  ASSUME TypeInv, KnownOnce, OrderInv, OpenInv, LinkInv, CalmInv, Whole(outGot),
         \A s \in Sessions : OutsideFlow(s), Server
  PROVE  Whole(outGot)' /\ \A s \in Sessions : OutsideFlow(s)'
<1> USE DEF outsideVars, destVars, clientVars
<1>0. TablesOK /\ TunnelsOK /\ 1 \in Tunnels
  BY HeldTunnels, LimitsAssumption DEF TypeInv, Tunnels
<1>1. serverUp /\ UNCHANGED <<serverUp, outside, destRead, clientPhase>>
  BY DEF Server, AcceptTunnel, ServerTcpClose, ServerUdpPacket, ServerTunnelEnd, RejectOutside, ServerReadUdp,
     AcceptOutside, ReadOutside, ReadOutsideEnd, ServerTcpData, serverVars, ServerHead
<1>2. ASSUME UNCHANGED outGot, NEW s \in Sessions, Items(toServer'[1], s) = Items(toServer[1], s),
             \A id \in ConnIds : serverConns'[id] \in {serverConns[id], None}
      PROVE  OutsideFlow(s)'
  <2>1. OutsideTakes(s)' => OutsideTakes(s)
    BY <1>1, <1>2, OutsideTakesLess
  <2> QED BY <1>1, <1>2, <2>1, OutsideFlowKept DEF InLoop
<1>3. ASSUME UNCHANGED <<outGot, toServer>>, \A id \in ConnIds : serverConns'[id] \in {serverConns[id], None}
      PROVE  Whole(outGot)' /\ \A s \in Sessions : OutsideFlow(s)'
  BY <1>2, <1>3 DEF Whole
<1>4. ASSUME NEW id, ServerRemove(id) PROVE \A i \in ConnIds : serverConns'[i] \in {serverConns[i], None}
  BY <1>0, <1>4 DEF ServerRemove, TablesOK
<1>5. CASE AcceptTunnel
  <2>1. UNCHANGED <<toServer, outGot, serverConns>>
    BY <1>5, AcceptsFirst DEF CalmInv, AcceptTunnel
  <2> QED BY <1>3, <2>1
<1>6. ASSUME NEW s \in Sessions, RejectOutside(s) PROVE Whole(outGot)' /\ \A r \in Sessions : OutsideFlow(r)'
  BY <1>3, <1>6 DEF RejectOutside, serverVars, tunnelVars
\* The server gives up its tunnel: the client has left its loop, and sends no more.
<1>7. ASSUME HasTunnel, ServerCut, CloseServerEnd(serverTunnel), UNCHANGED <<outGot, serverConns>>
      PROVE  Whole(outGot)' /\ \A s \in Sessions : OutsideFlow(s)'
  <2>1. ~InLoop'
    BY <1>0, <1>1, <1>7, BothFacts DEF Both, InLoop
  <2>2. serverTunnel = 1
    BY <1>0, <1>7 DEF HasTunnel, TunnelsOK, CalmInv
  <2>3. toServer'[1] = <<>>
    BY <1>0, <1>7, <2>2 DEF CloseServerEnd
  <2>4. \A s : Items(toServer'[1], s) = {}
    BY <2>3 DEF Items, Range
  <2>5. \A s : Flows(Items(toServer'[1], s), Len(outGot'[s]), destRead'[s], FALSE)
    BY <2>4, FlowsEmpty
  <2> QED BY <1>7, <2>1, <2>5 DEF OutsideFlow, Whole, Flows
<1>8. CASE ServerTunnelEnd
  BY <1>7, <1>8 DEF ServerTunnelEnd
<1>9. ASSUME NEW ok \in BOOLEAN, ServerReadUdp(ok) PROVE Whole(outGot)' /\ \A s \in Sessions : OutsideFlow(s)'
  BY <1>3, <1>7, <1>9 DEF ServerReadUdp
<1>10. ASSUME NEW id \in ConnIds, NEW ok \in BOOLEAN, ReadOutside(id, ok) \/ ReadOutsideEnd(id, ok)
       PROVE  Whole(outGot)' /\ \A s \in Sessions : OutsideFlow(s)'
  <2>1. UNCHANGED <<outGot, toServer>> /\ (UNCHANGED serverConns \/ ServerRemove(id))
    BY <1>10 DEF ReadOutside, ReadOutsideEnd
  <2> QED BY <1>3, <1>4, <2>1
<1>11. ASSUME NEW r \in Sessions, NEW ok \in BOOLEAN, AcceptOutside(r, ok)
       PROVE  Whole(outGot)' /\ \A s \in Sessions : OutsideFlow(s)'
  <2>1. /\ r \in Waiting /\ UNCHANGED <<outGot, toServer>>
        /\ UNCHANGED serverConns \/ serverConns' = [serverConns EXCEPT ![next_conn_id] = r]
    BY <1>11 DEF AcceptOutside, Waiting
  <2>2. ASSUME NEW s \in Sessions, s # r PROVE OutsideFlow(s)'
    <3>1. OutsideTakes(s)' => OutsideTakes(s)
      BY <1>0, <1>1, <2>1, <2>2 DEF OutsideTakes, TablesOK
    <3> QED BY <1>1, <2>1, <3>1, OutsideFlowKept DEF InLoop
  <2>3. OutsideFlow(r)'
    <3>1. Items(toServer[1], r) = {}
      <4> SUFFICES ASSUME NEW m \in Range(toServer[1]), Data(m, r) PROVE FALSE
        BY DEF Items
      <4>1. m \in Carried(MaxDest)
        <5>1. toServer[1] \in Seq(Carried(MaxDest))
          BY <1>0 DEF TypeInv, WireOK
        <5> QED BY <5>1, ElementOfSeq, LenProperties DEF Range
      <4>2. Known(m.conn_id, r) /\ m.conn_id \in ConnIds
        BY <1>0, <4>1, MessageKnown DEF Data, TCP_DATA, UDP_PACKET
      <4> QED BY <2>1, <4>2 DEF OpenInv, SessionOnce
    <3>2. destRead[r] = 0
      BY <2>1 DEF LinkInv
    <3> QED BY <1>1, <2>1, <3>1, <3>2, FlowsNone DEF OutsideFlow
  <2> QED BY <2>1, <2>2, <2>3 DEF Whole
<1>12. ASSUME NEW type, ServerHead(type), ServerPop, NEW s \in Sessions, ~Data(ServerMsg, s)
       PROVE  Items(toServer'[1], s) = Items(toServer[1], s)
  BY <1>12, ServerTakes, ItemsTail
<1>13. CASE ServerTcpClose \/ ServerUdpPacket
  <2>1. PICK type \in {TCP_CLOSE, UDP_PACKET} : ServerHead(type) /\ ServerPop
    BY <1>13 DEF ServerTcpClose, ServerUdpPacket
  <2>2. UNCHANGED outGot /\ \A id \in ConnIds : serverConns'[id] \in {serverConns[id], None}
    BY <1>4, <1>13 DEF ServerTcpClose, ServerUdpPacket, serverVars
  <2>3. \A s : ~Data(ServerMsg, s)
    BY <2>1 DEF ServerHead, ServerMsg, Data, TCP_CLOSE, UDP_PACKET, TCP_DATA
  <2> QED BY <1>2, <1>12, <2>1, <2>2, <2>3 DEF Whole
<1>14. ASSUME NEW w \in BOOLEAN, NEW ok \in BOOLEAN, ServerTcpData(w, ok)
       PROVE  Whole(outGot)' /\ \A s \in Sessions : OutsideFlow(s)'
  <2>1. ServerHead(TCP_DATA) /\ ServerPop
    BY <1>14 DEF ServerTcpData
  <2>2. \A id \in ConnIds : serverConns'[id] \in {serverConns[id], None}
    BY <1>4, <1>14 DEF ServerTcpData
  <2>3. PICK r \in Sessions :
          /\ Data(ServerMsg, r)
          /\ \/ OutsideTakes(r) /\ Added(outGot, r, ServerMsg.item, outGot')
             \/ ~OutsideTakes(r)' /\ UNCHANGED outGot
    BY <1>14, ServerDataGoes
  <2>4. \A s \in Sessions : s # r => outGot'[s] = outGot[s]
    BY <2>3 DEF Added, TypeInv, PeersOK
  <2>5. ASSUME NEW s \in Sessions, s # r PROVE OutsideFlow(s)'
    <3>1. ~Data(ServerMsg, s)
      BY <2>3, <2>5 DEF Data
    <3>2. Items(toServer'[1], s) = Items(toServer[1], s)
      BY <1>12, <2>1, <3>1
    <3>3. OutsideTakes(s)' => OutsideTakes(s)
      BY <1>1, <2>2, OutsideTakesLess
    <3> QED BY <1>1, <2>4, <2>5, <3>2, <3>3, OutsideFlowKept DEF InLoop
  <2>6. Whole(outGot)' /\ OutsideFlow(r)'
    <3>1. CASE OutsideTakes(r) /\ Added(outGot, r, ServerMsg.item, outGot')
      <4>1. /\ 1 \in Tunnels /\ toServer[1] # <<>> /\ toServer'[1] = Tail(toServer[1])
            /\ ServerMsg = Head(toServer[1]) /\ UNCHANGED <<destRead, clientPhase>>
        BY <1>1, <2>1, ServerTakes
      <4> QED BY <2>3, <3>1, <4>1, OutsideNext DEF OrderInv
    <3>2. CASE ~OutsideTakes(r)' /\ UNCHANGED outGot
      BY <3>2 DEF OutsideFlow, Whole
    <3> QED BY <2>3, <3>1, <3>2
  <2> QED BY <2>5, <2>6
<1> QED BY <1>5, <1>6, <1>8, <1>9, <1>10, <1>11, <1>13, <1>14 DEF Server

LEMMA DatagramCarried == ASSUME NEW max PROVE Message(UDP_PACKET, 0, None, 0) \in Carried(max)
BY MessageCarried DEF UDP_PACKET, TCP_DATA

\* Another message than data is sent to the server, or none.
LEMMA OutsideFlowTold ==
  ASSUME TypeInv, CalmInv, Both, NEW s \in Sessions, OutsideFlow(s), OutsideTakes(s)' => OutsideTakes(s),
         UNCHANGED <<outGot, destRead, clientPhase>>,
         \/ UNCHANGED toServer
         \/ \E m \in Carried(MaxDest), ok \in BOOLEAN : ~Data(m, s) /\ SendToServer(m, ok)
  PROVE  OutsideFlow(s)'
<1>1. toServer[1] \in Seq(Carried(MaxDest)) /\ 1 \in Tunnels
  BY BothFacts DEF TypeInv, WireOK
<1>2. Items(toServer'[1], s) = Items(toServer[1], s)
  <2>1. ASSUME NEW m \in Carried(MaxDest), NEW ok, ~Data(m, s), SendToServer(m, ok)
        PROVE  Items(toServer'[1], s) = Items(toServer[1], s)
    <3>1. toServer'[1] = Append(toServer[1], m)
      BY <1>1, <2>1, SentToServer DEF TypeInv, WireOK
    <3> QED BY <1>1, <2>1, <3>1, ItemsAppend
  <2> QED BY <2>1
<1> QED BY <1>2, OutsideFlowKept DEF InLoop

LEMMA ClientOutsideFlow ==
  ASSUME TypeInv, CalmInv, \A s \in Sessions : OutsideFlow(s), Client
  PROVE  \A s \in Sessions : OutsideFlow(s)'
<1> USE DEF outsideVars, destVars, serverVars
<1>0. TablesOK /\ TunnelsOK /\ PeersOK
  BY DEF TypeInv
<1>1. UNCHANGED <<outGot, outside, serverUp, serverConns>>
  BY DEF Client, Connect, ConnectFails, ClientTcpClose, ClientUdpPacket, ClientTunnelEnd, ClientReadUdp,
     ClientTcpOpen, ClientTcpData, ReadDest, ReadDestEnd
<1> SUFFICES ASSUME NEW s \in Sessions, OutsideTakes(s), serverUp PROVE OutsideFlow(s)'
  BY <1>1 DEF OutsideFlow, OutsideTakes
<1>2. ~Connect /\ ~ConnectFails
  <2>1. tunnels = 0 => serverConns = NoConns
    BY DEF CalmInv
  <2>2. serverConns # NoConns
    BY SessionsAssumption DEF OutsideTakes, NoConns
  <2>3. clientPhase = "connect" => tunnels = 0
    BY <1>0 DEF TunnelsOK, CalmInv
  <2> QED BY <2>1, <2>2, <2>3 DEF Connect, ConnectFails
<1>3. Both
  BY <1>2 DEF Both, Client, ClientTcpClose, ClientUdpPacket, ClientTunnelEnd, ClientReadUdp,
     ClientTcpOpen, ClientTcpData, ReadDest, ReadDestEnd, ClientHead
<1>4. ~ClientCut /\ 1 \in Tunnels
  BY <1>0, <1>3, BothFacts
<1>5. \A m : m.type # TCP_DATA => ~Data(m, s)
  BY DEF Data
<1>6. ASSUME UNCHANGED <<destRead, clientPhase>>,
             \/ UNCHANGED toServer
             \/ \E m \in Carried(MaxDest), ok \in BOOLEAN : m.type # TCP_DATA /\ SendToServer(m, ok)
      PROVE  OutsideFlow(s)'
  <2>1. OutsideTakes(s)' => OutsideTakes(s)
    OBVIOUS
  <2>2. \/ UNCHANGED toServer
        \/ \E m \in Carried(MaxDest), ok \in BOOLEAN : ~Data(m, s) /\ SendToServer(m, ok)
    BY <1>5, <1>6
  <2> QED BY <1>1, <1>3, <1>6, <2>1, <2>2, OutsideFlowTold
<1>7. ASSUME NEW id \in ConnIds, NEW r \in Sessions, NEW ok \in BOOLEAN,
             SendToServer(Message(TCP_CLOSE, id, r, 0), ok), UNCHANGED <<destRead, clientPhase>>
      PROVE  OutsideFlow(s)'
  <2> DEFINE m == Message(TCP_CLOSE, id, r, 0)
  <2>1. m \in Carried(MaxDest) /\ m.type # TCP_DATA
    <3>1. m \in Carried(MaxDest)
      BY MessageCarried DEF UDP_PACKET, TCP_DATA, TCP_CLOSE
    <3>2. m.type # TCP_DATA
      BY DEF Message, TCP_CLOSE, TCP_DATA
    <3> QED BY <3>1, <3>2
  <2>2. SendToServer(m, ok)
    BY <1>7
  <2> HIDE DEF m
  <2> QED BY <1>6, <1>7, <2>1, <2>2
<1>8. CASE ClientTcpClose \/ ClientUdpPacket
  BY <1>6, <1>8 DEF ClientTcpClose, ClientUdpPacket, clientVars
<1>9. ~ClientTunnelEnd
  BY <1>4 DEF ClientTunnelEnd
<1>10. ASSUME NEW ok \in BOOLEAN, ClientReadUdp(ok) PROVE OutsideFlow(s)'
  <2> DEFINE m == Message(UDP_PACKET, 0, None, 0)
  <2>1. SendToServer(m, ok) /\ UNCHANGED <<destRead, clientPhase>>
    BY <1>4, <1>10 DEF ClientReadUdp
  <2>2. m \in Carried(MaxDest)
    BY DatagramCarried
  <2>3. m.type # TCP_DATA
    BY DEF Message, UDP_PACKET, TCP_DATA
  <2> HIDE DEF m
  <2> QED BY <1>6, <2>1, <2>2, <2>3
<1>11. ASSUME NEW b \in BOOLEAN, NEW ok \in BOOLEAN, ClientTcpOpen(b, ok) PROVE OutsideFlow(s)'
  <2>1. ClientHead(TCP_OPEN) /\ ClientPop /\ UNCHANGED <<destRead, clientPhase>>
    BY <1>11 DEF ClientTcpOpen
  <2>2. ClientMsg.session \in Sessions /\ ClientMsg.conn_id \in ConnIds
    BY <2>1, ClientHeadWire DEF Carried, TCP_OPEN, UDP_PACKET
  <2>3. UNCHANGED toServer \/ SendToServer(Message(TCP_CLOSE, ClientMsg.conn_id, ClientMsg.session, 0), ok)
    BY <1>11 DEF ClientTcpOpen
  <2> QED BY <1>6, <1>7, <2>1, <2>2, <2>3
<1>12. ASSUME NEW w \in BOOLEAN, NEW ok \in BOOLEAN, ClientTcpData(w, ok) PROVE OutsideFlow(s)'
  <2>1. ClientHead(TCP_DATA) /\ ClientPop /\ UNCHANGED <<destRead, clientPhase>>
    BY <1>12 DEF ClientTcpData
  <2>2. ClientMsg.session \in Sessions /\ ClientMsg.conn_id \in ConnIds
    BY <2>1, ClientHeadWire DEF Carried, TCP_DATA, UDP_PACKET
  <2>3. UNCHANGED toServer \/ SendToServer(Message(TCP_CLOSE, ClientMsg.conn_id, ClientMsg.session, 0), ok)
    BY <1>12 DEF ClientTcpData
  <2> QED BY <1>6, <1>7, <2>1, <2>2, <2>3
<1>13. ASSUME NEW id \in ConnIds, NEW ok \in BOOLEAN, ReadDestEnd(id, ok) PROVE OutsideFlow(s)'
  <2>1. clientConns[id] \in Sessions /\ UNCHANGED <<destRead, clientPhase>>
    BY <1>0, <1>13 DEF ReadDestEnd, ClientHas, TablesOK
  <2> QED BY <1>7, <1>13, <2>1 DEF ReadDestEnd
<1>14. ASSUME NEW id \in ConnIds, NEW ok \in BOOLEAN, ReadDest(id, ok) PROVE OutsideFlow(s)'
  <2> DEFINE r == clientConns[id]
             m == Message(TCP_DATA, id, r, destRead[r] + 1)
  <2>1. ok /\ ClientHas(id) /\ destRead[r] < destSent[r] /\ Counted(destRead, r, destRead')
    BY <1>4, <1>14 DEF ReadDest, Counted
  <2>2. SendToServer(m, ok) /\ UNCHANGED clientPhase
    BY <1>14, <2>1 DEF ReadDest
  <2>3. /\ r \in Sessions /\ destRead[r] < destSent[r] /\ Counted(destRead, r, destRead')
        /\ SendToServer(m, ok) /\ UNCHANGED clientPhase
    BY <1>0, <2>1, <2>2 DEF ClientHas, TablesOK
  <2>4. destRead[r] \in 0 .. MaxDest /\ destSent[r] \in 0 .. MaxDest /\ destRead \in [Sessions -> 0 .. MaxDest]
    BY <1>0, <2>3 DEF PeersOK
  <2>5. destRead[r] + 1 \in 1 .. MaxDest /\ destRead[r] \in Nat /\ destRead \in [Sessions -> 0 .. MaxDest]
    BY ONLY <2>3, <2>4, LimitsAssumption
  <2>6. m \in Carried(MaxDest)
    BY <2>3, <2>5, MessageCarried DEF UDP_PACKET, TCP_DATA
  <2>7. m.type = TCP_DATA /\ m.session = r /\ m.item = destRead[r] + 1
    BY DEF Message
  <2> HIDE DEF r, m
  <2>8. toServer[1] \in Seq(Carried(MaxDest)) /\ toServer'[1] = Append(toServer[1], m)
    BY <1>3, <1>4, <2>3, <2>6, SentToServer DEF TypeInv, WireOK
  <2>9. Flows(Items(toServer[1], s), Len(outGot[s]), destRead[s], TRUE)
    BY <1>3 DEF OutsideFlow, Both
  <2>10. CASE s # r
    <3>1. Items(toServer'[1], s) = Items(toServer[1], s) /\ destRead'[s] = destRead[s]
      BY <2>3, <2>5, <2>6, <2>7, <2>8, <2>10, ItemsAppend DEF Data, Counted
    <3> QED BY <1>1, <2>9, <3>1 DEF OutsideFlow, Flows
  <2>11. CASE s = r
    <3>1. Data(m, s) /\ m.item = destRead[s] + 1
      BY <2>7, <2>11 DEF Data
    <3>2. Items(toServer'[1], s) = Items(toServer[1], s) \cup {destRead[s] + 1}
      BY <2>6, <2>8, <3>1, ItemsAppend
    <3>3. destRead'[s] = destRead[s] + 1
      BY <2>3, <2>5, <2>11 DEF Counted
    <3>4. Flows(Items(toServer[1], s) \cup {destRead[s] + 1}, Len(outGot[s]), destRead[s] + 1, InLoop')
      BY <2>5, <2>9, <2>11, FlowsRead
    <3> QED BY <1>1, <3>3, <3>4, <3>2 DEF OutsideFlow
  <2> QED BY <2>10, <2>11
<1> QED BY <1>2, <1>3, <1>8, <1>9, <1>10, <1>11, <1>12, <1>13, <1>14 DEF Client

LEMMA OtherOutsideFlow ==
  ASSUME OneTunnel, TypeInv, OrderInv, \A s \in Sessions : OutsideFlow(s), Peers \/ FaultStep
  PROVE  \A s \in Sessions : OutsideFlow(s)'
<1> USE DEF outsideVars, destVars, serverVars, tunnelVars
<1>1. UNCHANGED <<outGot, destRead>>
  BY DEF Peers, OutsideConnect, OutsideSend, OutsideEnds, DestSend, DestEnds, FaultStep, Break, ServerSigpipe,
     ClientSigpipe, KillServer, KillClient, StartServer, StartClient
<1>2. CASE Peers
  <2>1. UNCHANGED <<serverUp, serverConns, clientPhase, toServer>>
    BY <1>2 DEF Peers, OutsideConnect, OutsideSend, OutsideEnds, DestSend, DestEnds, clientVars
  <2>2. \A s \in Sessions : outside'[s] \notin Gone => outside[s] \notin Gone
    <3>1. CASE UNCHANGED outside
      BY <3>1
    <3>2. ASSUME NEW r \in Sessions, NEW how, outside[r] = "idle" \/ StillReads(outside[r]),
                 outside' = [outside EXCEPT ![r] = how]
          PROVE  \A s \in Sessions : outside'[s] \notin Gone => outside[s] \notin Gone
      BY <3>2 DEF StillReads, Gone, TypeInv, PeersOK
    <3> QED BY <1>2, <3>1, <3>2 DEF Peers, OutsideConnect, OutsideSend, OutsideEnds, DestSend, DestEnds
  <2> QED BY <1>1, <2>1, <2>2, OutsideTakesLess, OutsideFlowKept DEF InLoop
\* What the client had sent may be lost from its end on.
<1>3. ASSUME CloseClientEnd, ~InLoop', UNCHANGED <<outside, serverUp, serverConns>>, NEW s \in Sessions
      PROVE  OutsideFlow(s)'
  <2> DEFINE q == toServer[1]
             p == toServer'[1]
             I == Items(q, s)
             J == Items(p, s)
  <2>1. q \in Seq(Carried(MaxDest)) /\ MaxDest \in Nat /\ Rising(q) /\ 1 \in Tunnels
    BY LimitsAssumption DEF TypeInv, WireOK, Tunnels, OrderInv, ToServerOrder
  <2>2. J = I \/ (J \subseteq I /\ \A n \in J, k \in I : k <= n => k \in J)
    <3>1. p = q \/ p \in Beginnings(q)
      BY <1>3, <2>1 DEF CloseClientEnd, LoseToServer, TypeInv, WireOK
    <3>2. CASE p \in Beginnings(q)
      <4> HIDE DEF q, p
      <4> QED BY <2>1, <3>2, ItemsBeginning
    <3> QED BY <3>1, <3>2
  <2>3. I \subseteq Nat
    BY <2>1, ItemsOrder
  <2>4. OutsideTakes(s)' => OutsideTakes(s)
    BY <1>3 DEF OutsideTakes
  <2> HIDE DEF I, J
  <2>5. Flows(I, Len(outGot[s]), destRead[s], InLoop) => Flows(J, Len(outGot[s]), destRead[s], FALSE)
    BY <2>2, <2>3, FlowsShorter DEF Flows
  <2> QED BY <1>1, <1>3, <2>4, <2>5 DEF OutsideFlow, Flows, I, J
<1>4. CASE FaultStep
  <2>1. CASE ServerSigpipe \/ KillServer
    <3>1. serverUp' = FALSE
      BY <2>1 DEF ServerSigpipe, KillServer, ServerStops
    <3> QED BY <3>1 DEF OutsideFlow, OutsideTakes
  <2>2. CASE ClientSigpipe \/ KillClient
    <3>1. CloseClientEnd /\ ~InLoop' /\ UNCHANGED <<outside, serverUp, serverConns>>
      BY <2>2 DEF ClientSigpipe, KillClient, ClientStops, InLoop
    <3> QED BY <1>3, <3>1
  <2>3. ~Break /\ ~StartServer /\ ~StartClient
    BY DEF OneTunnel, Break, StartServer, StartClient
  <2> QED BY <1>4, <2>1, <2>2, <2>3 DEF FaultStep
<1> QED BY <1>2, <1>4

-----------------------------------------------------------------------------
\* Gapless with what makes it inductive: what is on the way and read joins on.
FlowInv ==
  /\ Whole(destGot) /\ Whole(outGot)
  /\ \A s \in Sessions : DestFlow(s) /\ OutsideFlow(s)

LEMMA FlowStep ==
  ASSUME OneTunnel, TypeInv, KnownOnce, OrderInv, OpenInv, LinkInv, CalmInv, FlowInv, InStep
  PROVE  FlowInv'
<1>1. Whole(destGot) /\ Whole(outGot) /\ (\A s \in Sessions : DestFlow(s)) /\ \A s \in Sessions : OutsideFlow(s)
  BY DEF FlowInv
<1>2. CASE Peers \/ FaultStep
  <2>1. UNCHANGED outGot
    BY <1>2 DEF outsideVars, Peers, OutsideConnect, OutsideSend, OutsideEnds, DestSend, DestEnds, FaultStep, Break,
       ServerSigpipe, ClientSigpipe, KillServer, KillClient, StartServer, StartClient
  <2>2. Whole(outGot)'
    BY <1>1, <2>1 DEF Whole
  <2> QED BY <1>1, <1>2, <2>2, OtherDestFlow, OtherOutsideFlow DEF FlowInv
<1>3. CASE Server
  <2>1. UNCHANGED destGot
    BY <1>3 DEF destVars, Server, AcceptTunnel, ServerTcpClose, ServerUdpPacket, ServerTunnelEnd, RejectOutside,
       ServerReadUdp, AcceptOutside, ReadOutside, ReadOutsideEnd, ServerTcpData
  <2>2. Whole(destGot)'
    BY <1>1, <2>1 DEF Whole
  <2> QED BY <1>1, <1>3, <2>2, ServerDestFlow, ServerOutsideFlow DEF FlowInv
<1>4. CASE Client
  <2>1. UNCHANGED outGot
    BY <1>4 DEF outsideVars, Client, Connect, ConnectFails, ClientTcpClose, ClientUdpPacket, ClientTunnelEnd,
       ClientReadUdp, ClientTcpOpen, ClientTcpData, ReadDest, ReadDestEnd
  <2>2. Whole(outGot)'
    BY <1>1, <2>1 DEF Whole
  <2> QED BY <1>1, <1>4, <2>2, ClientDestFlow, ClientOutsideFlow DEF FlowInv
<1> QED BY <1>2, <1>3, <1>4 DEF InStep

LEMMA FlowInductive ==
  ASSUME OneTunnel
  PROVE  Spec => []FlowInv
<1>1. Init => FlowInv
  <2> SUFFICES ASSUME Init PROVE FlowInv
    OBVIOUS
  <2>1. \A s \in Sessions : DOMAIN destGot[s] = {} /\ DOMAIN outGot[s] = {}
    BY DEF Init
  <2>2. \A s \in Sessions : ~DestTakes(s)
    BY DEF Init, DestTakes, InLoop
  <2>3. \A s \in Sessions : ~OutsideTakes(s)
    BY SessionsAssumption DEF Init, OutsideTakes, NoConns
  <2> QED BY <2>1, <2>2, <2>3 DEF FlowInv, Whole, DestFlow, OutsideFlow
<1>2. TypeInv /\ KnownOnce /\ OrderInv /\ OpenInv /\ LinkInv /\ CalmInv /\ FlowInv /\ [Next]_vars => FlowInv'
  <2>1. ASSUME FlowInv, UNCHANGED vars PROVE FlowInv'
    BY <2>1 DEF vars, outsideVars, destVars, serverVars, clientVars, tunnelVars, FlowInv, Whole, DestFlow, DestTakes,
       Linked, OutsideFlow, OutsideTakes, InLoop
  <2> QED BY <2>1, FlowStep, NeverMisreads
<1>3. Spec => [](TypeInv /\ KnownOnce /\ OpenInv /\ LinkInv /\ OrderInv)
  BY CalmAlways
<1> QED BY <1>1, <1>2, <1>3, CalmInductive, PTL DEF Spec

\* For any sessions and bounds, while the network cuts no tunnel and no program is started
\* again: each peer receives a beginning of what the other side sent, with nothing missing
\* in between, also when a program ends on the way.
THEOREM NothingMissing ==
  ASSUME OneTunnel
  PROVE  Spec => []Gapless
<1>1. FlowInv => Gapless
  BY DEF FlowInv, Whole, Gapless
<1> QED BY <1>1, FlowInductive, PTL

=============================================================================
