------------------------- MODULE TunnelSystemProofs -------------------------
(***************************************************************************)
(* For any sessions, bounds and faults: the types and bounds of the system;*)
(* and, unless the server is started again, that both programs mean the    *)
(* same session by a number, so that no data goes to another's connection. *)
(***************************************************************************)
EXTENDS TunnelSystem, SequenceTheorems, FiniteSetTheorems, TLAPS

-----------------------------------------------------------------------------
(* The inductive invariant.                                                *)

\* The messages of one direction; data has items up to max.
Carried(max) ==
  {m \in [type : 1 .. 4, conn_id : Nat, session : Sessions \cup {None}, item : Nat] :
     /\ m.type # UDP_PACKET => m.conn_id \in ConnIds /\ m.session \in Sessions
     /\ m.type = TCP_DATA => m.item \in 1 .. max}

WireOK ==
  /\ toClient \in Seq(Carried(MaxOut))
  /\ toServer \in [Tunnels -> Seq(Carried(MaxDest))]

PeerStates == {"idle", "up"} \cup Ended

PeersOK ==
  /\ outside \in [Sessions -> PeerStates] /\ dest \in [Sessions -> PeerStates]
  /\ queued \subseteq Sessions /\ \A s \in queued : outside[s] # "idle"
  /\ outSent \in [Sessions -> 0 .. MaxOut] /\ outRead \in [Sessions -> 0 .. MaxOut]
  /\ destSent \in [Sessions -> 0 .. MaxDest] /\ destRead \in [Sessions -> 0 .. MaxDest]
  /\ \A s \in Sessions : outRead[s] <= outSent[s] /\ destRead[s] <= destSent[s]
  /\ outGot \in [Sessions -> Seq(Sessions \X (1 .. MaxDest))]
  /\ destGot \in [Sessions -> Seq(Sessions \X (1 .. MaxOut))]

TablesOK ==
  /\ serverConns \in [ConnIds -> Sessions \cup {None}]
  /\ clientConns \in [ConnIds -> Sessions \cup {None}]

\* The sessions that may still get a number, and that there are numbers left.
Waiting == {s \in Sessions : outside[s] = "idle" \/ s \in queued}
IdsOK ==
  /\ next_conn_id \in Nat \ {0}
  /\ next_conn_id + Cardinality(Waiting) <= Cardinality(Sessions) + 1

\* The client's tunnel is the last, those in the listen queue come after the one the
\* server holds, and each but the first has its fault.
TunnelsOK ==
  /\ serverUp \in BOOLEAN /\ faults \in 0 .. MaxFaults /\ udp \in 0 .. MaxUdp
  /\ clientPhase \in {"connect", "loop", "dead", "gaveup"}
  /\ attempt \in 0 .. MaxAttempts /\ (clientPhase = "connect" => attempt < MaxAttempts)
  /\ tunnels \in Nat /\ tunnels <= faults + 1
  /\ clientTunnel = IF InLoop THEN tunnels ELSE 0
  /\ InLoop => tunnels # 0
  /\ serverTunnel \in 0 .. tunnels /\ broken \subseteq 1 .. tunnels
  /\ backlog \in Seq(1 .. tunnels)
  /\ \A i \in DOMAIN backlog :
       /\ serverTunnel < backlog[i]
       /\ \A j \in DOMAIN backlog : i < j => backlog[i] < backlog[j]
  /\ serverUp /\ (clientPhase = "connect" \/ (InLoop /\ ClientCut)) => tunnels <= faults

HalvesOK ==
  halfToClient \subseteq 1 .. tunnels /\ halfToServer \subseteq 1 .. tunnels /\ misread \in BOOLEAN

TypeInv == WireOK /\ PeersOK /\ TablesOK /\ IdsOK /\ TunnelsOK /\ HalvesOK

\* The number id stands for the session s: in a table or on the way.
Stands(m, id, s) == m.type # UDP_PACKET /\ m.conn_id = id /\ m.session = s
Known(id, s) ==
  \/ serverConns[id] = s \/ clientConns[id] = s
  \/ \E m \in Range(toClient) : Stands(m, id, s)
  \/ \E t \in Tunnels : \E m \in Range(toServer[t]) : Stands(m, id, s)

-----------------------------------------------------------------------------
(* Sequences of messages.                                                  *)

\* The helpers of the tunnel's queues add nothing to them but what is sent.
LEMMA AppendRange ==
  ASSUME NEW S, NEW q \in Seq(S), NEW m \in S
  PROVE  Append(q, m) \in Seq(S) /\ Range(Append(q, m)) = Range(q) \cup {m}
<1>1. /\ Append(q, m) \in Seq(S) /\ Len(Append(q, m)) = Len(q) + 1
      /\ \A i \in 1 .. Len(q) : Append(q, m)[i] = q[i]
      /\ Append(q, m)[Len(q) + 1] = m
  BY AppendProperties
<1>2. Len(q) \in Nat /\ DOMAIN q = 1 .. Len(q) /\ DOMAIN Append(q, m) = 1 .. Len(q) + 1
  BY <1>1, LenProperties
<1>3. 1 .. Len(q) + 1 = (1 .. Len(q)) \cup {Len(q) + 1}
  BY <1>2
<1> QED BY <1>1, <1>2, <1>3 DEF Range

LEMMA TailRange ==
  ASSUME NEW S, NEW q \in Seq(S), q # <<>>
  PROVE  /\ Tail(q) \in Seq(S) /\ Range(Tail(q)) \subseteq Range(q)
         /\ Head(q) \in S /\ Head(q) \in Range(q)
<1>1. /\ Head(q) \in S /\ Tail(q) \in Seq(S) /\ Len(Tail(q)) = Len(q) - 1
      /\ \A i \in 1 .. Len(Tail(q)) : Tail(q)[i] = q[i + 1]
  BY HeadTailProperties
<1>2. /\ Len(q) \in Nat \ {0} /\ DOMAIN q = 1 .. Len(q)
      /\ DOMAIN Tail(q) = 1 .. Len(q) - 1
  BY <1>1, LenProperties, EmptySeq
<1>3. \A i \in 1 .. Len(q) - 1 : i + 1 \in 1 .. Len(q)
  BY <1>2
<1>4. Range(Tail(q)) \subseteq Range(q)
  BY <1>1, <1>2, <1>3 DEF Range
<1>5. Head(q) = q[1] /\ 1 \in 1 .. Len(q)
  BY <1>2
<1> QED BY <1>1, <1>2, <1>4, <1>5 DEF Range

LEMMA BeginningRange ==
  ASSUME NEW S, NEW q \in Seq(S), NEW p \in Beginnings(q)
  PROVE  p \in Seq(S) /\ Range(p) \subseteq Range(q)
<1>1. PICK k \in 0 .. Len(q) : p = SubSeq(q, 1, k)
  BY DEF Beginnings
<1>2. Len(q) \in Nat /\ DOMAIN q = 1 .. Len(q) /\ \A i \in 1 .. Len(q) : q[i] \in S
  BY LenProperties, ElementOfSeq
<1>3. /\ p \in Seq(S) /\ Len(p) = k /\ \A i \in 1 .. k : p[i] = q[i]
  <2>1. 1 \in Int /\ k \in Int /\ k \in Nat /\ \A i \in 1 .. k : q[i] \in S
    BY <1>2
  <2>2. /\ p \in Seq(S) /\ Len(p) = IF 1 <= k THEN k - 1 + 1 ELSE 0
        /\ \A i \in 1 .. k - 1 + 1 : p[i] = q[1 + i - 1]
    BY <1>1, <2>1, SubSeqProperties
  <2> QED BY <2>1, <2>2
<1>4. DOMAIN p = 1 .. k /\ \A i \in 1 .. k : i \in 1 .. Len(q)
  BY <1>2, <1>3, LenProperties
<1> QED BY <1>2, <1>3, <1>4 DEF Range

\* A sequence over a set is one over a wider set.
LEMMA WiderSeq ==
  ASSUME NEW S, NEW T, S \subseteq T, NEW q \in Seq(S)
  PROVE  q \in Seq(T)
<1>1. Len(q) \in Nat /\ q \in [1 .. Len(q) -> S]
  BY LenProperties
<1>2. q \in [1 .. Len(q) -> T]
  BY <1>1
<1>3. \A n \in Nat : [1 .. n -> T] \subseteq Seq(T)
  OBVIOUS
<1> QED BY <1>1, <1>2, <1>3

LEMMA MessageCarried ==
  ASSUME NEW max, NEW type \in 1 .. 4, NEW id \in ConnIds \cup {0}, NEW s \in Sessions \cup {None},
         NEW n \in Nat,
         type # UDP_PACKET => id \in ConnIds /\ s \in Sessions,
         type = TCP_DATA => n \in 1 .. max
  PROVE  /\ Message(type, id, s, n) \in Carried(max)
         /\ \A i, r : Stands(Message(type, id, s, n), i, r) => type # UDP_PACKET /\ i = id /\ r = s
BY DEF Message, Carried, Stands, ConnIds

-----------------------------------------------------------------------------
(* What the helpers do to the tunnel.                                      *)

\* Nothing but what is in X is added to what is on the way.
Adds(X) ==
  /\ Range(toClient') \subseteq Range(toClient) \cup X
  /\ \A t \in Tunnels : Range(toServer'[t]) \subseteq Range(toServer[t]) \cup X

LEMMA SendToClientWire ==
  ASSUME WireOK, NEW m \in Carried(MaxOut), NEW ok, SendToClient(m, ok), UNCHANGED toServer
  PROVE  WireOK' /\ Adds({m})
<1>1. toClient \in Seq(Carried(MaxOut)) /\ toClient' \in {toClient, Append(toClient, m)}
  BY DEF WireOK, SendToClient
<1>2. /\ Append(toClient, m) \in Seq(Carried(MaxOut))
      /\ Range(Append(toClient, m)) = Range(toClient) \cup {m}
  BY <1>1, AppendRange
<1> QED BY <1>1, <1>2 DEF WireOK, Adds

LEMMA SendToServerWire ==
  ASSUME WireOK, NEW m \in Carried(MaxDest), NEW ok, SendToServer(m, ok), UNCHANGED toClient,
         clientTunnel \in Tunnels
  PROVE  WireOK' /\ Adds({m})
<1>1. /\ toServer \in [Tunnels -> Seq(Carried(MaxDest))]
      /\ \/ toServer' = toServer
         \/ toServer' = [toServer EXCEPT ![clientTunnel] = Append(toServer[clientTunnel], m)]
  BY DEF WireOK, SendToServer
<1>2. toServer[clientTunnel] \in Seq(Carried(MaxDest))
  BY <1>1
<1>3. /\ Append(toServer[clientTunnel], m) \in Seq(Carried(MaxDest))
      /\ Range(Append(toServer[clientTunnel], m)) = Range(toServer[clientTunnel]) \cup {m}
  BY <1>2, AppendRange
<1>4. toServer' \in [Tunnels -> Seq(Carried(MaxDest))]
  BY <1>1, <1>3
<1>5. \A t \in Tunnels : toServer'[t] \in {toServer[t], IF t = clientTunnel
                           THEN Append(toServer[clientTunnel], m) ELSE toServer[t]}
  BY <1>1
<1>6. \A t \in Tunnels : Range(toServer'[t]) \subseteq Range(toServer[t]) \cup {m}
  BY <1>3, <1>5
<1> QED BY <1>4, <1>6 DEF WireOK, Adds

\* The first message is taken.
LEMMA ClientPopWire ==
  ASSUME WireOK, toClient # <<>>
  PROVE  /\ ClientMsg \in Carried(MaxOut) /\ ClientMsg \in Range(toClient)
         /\ Tail(toClient) \in Seq(Carried(MaxOut))
         /\ Range(Tail(toClient)) \subseteq Range(toClient)
BY TailRange DEF WireOK, ClientMsg

LEMMA ServerPopWire ==
  ASSUME WireOK, serverTunnel \in Tunnels, toServer[serverTunnel] # <<>>, ServerPop
  PROVE  /\ ServerMsg \in Carried(MaxDest) /\ ServerMsg \in Range(toServer[serverTunnel])
         /\ toServer' \in [Tunnels -> Seq(Carried(MaxDest))]
         /\ \A t \in Tunnels : Range(toServer'[t]) \subseteq Range(toServer[t])
<1> DEFINE q == toServer[serverTunnel]
<1>1. toServer \in [Tunnels -> Seq(Carried(MaxDest))] /\ q \in Seq(Carried(MaxDest))
      /\ toServer' = [toServer EXCEPT ![serverTunnel] = Tail(q)]
  BY DEF WireOK, ServerPop
<1>2. /\ Head(q) \in Carried(MaxDest) /\ Head(q) \in Range(q)
      /\ Tail(q) \in Seq(Carried(MaxDest)) /\ Range(Tail(q)) \subseteq Range(q)
  BY <1>1, TailRange
<1> HIDE DEF q
<1>3. toServer' \in [Tunnels -> Seq(Carried(MaxDest))]
      /\ \A t \in Tunnels : toServer'[t] = IF t = serverTunnel THEN Tail(q) ELSE toServer[t]
  BY <1>1, <1>2
<1>4. \A t \in Tunnels : Range(toServer'[t]) \subseteq Range(toServer[t])
  BY <1>2, <1>3 DEF q
<1> QED BY <1>2, <1>3, <1>4 DEF ServerMsg, q

LEMMA NoMessages ==
  ASSUME NEW S
  PROVE  <<>> \in Seq(S) /\ Range(<<>>) = {}
BY DEF Range

LEMMA BeginningWire ==
  ASSUME WireOK, toClient' \in Beginnings(toClient) \cup {toClient}
  PROVE  toClient' \in Seq(Carried(MaxOut)) /\ Range(toClient') \subseteq Range(toClient)
<1>1. toClient \in Seq(Carried(MaxOut))
  BY DEF WireOK
<1>2. CASE toClient' \in Beginnings(toClient)
  BY <1>1, <1>2, BeginningRange
<1> QED BY <1>1, <1>2

\* An end of a tunnel is closed, or the network cuts it.
LEMMA CloseServerEndWire ==
  ASSUME WireOK, NEW u, CloseServerEnd(u)
  PROVE  WireOK' /\ Adds({})
<1>1. toClient' \in Seq(Carried(MaxOut)) /\ Range(toClient') \subseteq Range(toClient)
  BY BeginningWire DEF CloseServerEnd, LoseToClient
<1>2. /\ toServer \in [Tunnels -> Seq(Carried(MaxDest))]
      /\ toServer' = [t \in Tunnels |-> IF t = u THEN <<>> ELSE toServer[t]]
  BY DEF WireOK, CloseServerEnd
<1>3. <<>> \in Seq(Carried(MaxDest)) /\ Range(<<>>) = {}
  BY NoMessages
<1>4. toServer' \in [Tunnels -> Seq(Carried(MaxDest))]
  BY <1>2, <1>3
<1>5. \A t \in Tunnels : Range(toServer'[t]) \subseteq Range(toServer[t])
  BY <1>2, <1>3
<1> QED BY <1>1, <1>4, <1>5 DEF WireOK, Adds

LEMMA CutToServer ==
  ASSUME WireOK, clientTunnel \in Tunnels, NEW q \in Beginnings(toServer[clientTunnel]),
         toServer' = [toServer EXCEPT ![clientTunnel] = q]
  PROVE  /\ toServer' \in [Tunnels -> Seq(Carried(MaxDest))]
         /\ \A t \in Tunnels : Range(toServer'[t]) \subseteq Range(toServer[t])
<1>1. toServer \in [Tunnels -> Seq(Carried(MaxDest))]
  BY DEF WireOK
<1>2. q \in Seq(Carried(MaxDest)) /\ Range(q) \subseteq Range(toServer[clientTunnel])
  BY <1>1, BeginningRange
<1>3. toServer' \in [Tunnels -> Seq(Carried(MaxDest))]
  BY <1>1, <1>2
<1>4. \A t \in Tunnels : toServer'[t] = IF t = clientTunnel THEN q ELSE toServer[t]
  BY <1>1
<1> QED BY <1>2, <1>3, <1>4

LEMMA CloseClientEndWire ==
  ASSUME WireOK, CloseClientEnd, clientTunnel \in Tunnels \cup {0}
  PROVE  WireOK' /\ Adds({})
<1>1. toClient' \in Seq(Carried(MaxOut)) /\ Range(toClient') = {}
  BY NoMessages DEF CloseClientEnd
<1>2. CASE clientTunnel = 0
  BY <1>1, <1>2 DEF CloseClientEnd, WireOK, Adds
<1>3. CASE clientTunnel # 0
  <2>1. PICK q \in Beginnings(toServer[clientTunnel]) :
          toServer' = [toServer EXCEPT ![clientTunnel] = q]
    BY <1>3 DEF CloseClientEnd, LoseToServer
  <2> QED BY <1>1, <1>3, <2>1, CutToServer DEF WireOK, Adds
<1> QED BY <1>2, <1>3

LEMMA ServerStopsWire ==
  ASSUME WireOK, ServerStops
  PROVE  WireOK' /\ Adds({})
<1>1. toClient' \in Seq(Carried(MaxOut)) /\ Range(toClient') \subseteq Range(toClient)
  BY BeginningWire DEF ServerStops, LoseToClient
<1>2. <<>> \in Seq(Carried(MaxDest)) /\ Range(<<>>) = {}
  BY NoMessages
<1>3. toServer' = [t \in Tunnels |-> <<>>]
  BY DEF ServerStops
<1>4. toServer' \in [Tunnels -> Seq(Carried(MaxDest))]
  BY <1>2, <1>3
<1> QED BY <1>1, <1>2, <1>3, <1>4 DEF WireOK, Adds

-----------------------------------------------------------------------------
(* What the actions do to the messages on the way and to the tables: only  *)
(* AcceptOutside gives a number a meaning it did not have.                 *)

NoNews == \A id \in ConnIds, s \in Sessions : Known(id, s)' => Known(id, s)

\* Messages and entries of numbers that stand for something already are no news.
LEMMA KnownKept ==
  ASSUME NEW X, Adds(X), \A m \in X, id \in ConnIds, s \in Sessions : Stands(m, id, s) => Known(id, s),
         \A id \in ConnIds, s \in Sessions : serverConns'[id] = s \/ clientConns'[id] = s => Known(id, s)
  PROVE  NoNews
<1> SUFFICES ASSUME NEW id \in ConnIds, NEW s \in Sessions, Known(id, s)' PROVE Known(id, s)
  BY DEF NoNews
<1>1. CASE serverConns'[id] = s \/ clientConns'[id] = s
  BY <1>1
<1>2. CASE \E m \in Range(toClient') : Stands(m, id, s)
  BY <1>2 DEF Adds, Known
<1>3. CASE \E t \in Tunnels : \E m \in Range(toServer'[t]) : Stands(m, id, s)
  BY <1>3 DEF Adds, Known
<1> QED BY <1>1, <1>2, <1>3 DEF Known, Stands

\* An entry that goes is no news.
TablesShrink ==
  \A id \in ConnIds : /\ serverConns'[id] \in {serverConns[id], None}
                      /\ clientConns'[id] \in {clientConns[id], None}

LEMMA ShrinkKept ==
  ASSUME NEW X, Adds(X), \A m \in X, id \in ConnIds, s \in Sessions : Stands(m, id, s) => Known(id, s),
         TablesShrink
  PROVE  NoNews
<1>1. ASSUME NEW id \in ConnIds, NEW s \in Sessions, serverConns'[id] = s \/ clientConns'[id] = s
      PROVE  Known(id, s)
  <2>1. s # None
    BY SessionsAssumption
  <2> QED BY <1>1, <2>1 DEF TablesShrink, Known
<1> QED BY <1>1, KnownKept

\* The ends of the tunnel the programs hold exist.
LEMMA HeldTunnels ==
  ASSUME TunnelsOK
  PROVE  /\ clientTunnel \in Tunnels \cup {0} /\ serverTunnel \in Tunnels \cup {0}
         /\ InLoop => clientTunnel \in Tunnels
         /\ HasTunnel => serverTunnel \in Tunnels
         /\ \A n \in 1 .. tunnels : n \in Tunnels
BY LimitsAssumption DEF TunnelsOK, Tunnels, HasTunnel, InLoop

\* A connection that waits still has its number to get.
LEMMA NumberLeft ==
  ASSUME IdsOK, NEW s \in Waiting
  PROVE  /\ next_conn_id \in ConnIds
         /\ IsFiniteSet(Waiting) /\ Cardinality(Waiting) \in Nat
         /\ Cardinality(Waiting \ {s}) = Cardinality(Waiting) - 1
         /\ Cardinality(Sessions) \in Nat
<1>1. IsFiniteSet(Sessions) /\ Waiting \subseteq Sessions
  BY SessionsAssumption DEF Waiting
<1>2. IsFiniteSet(Waiting) /\ Cardinality(Waiting) \in Nat /\ Cardinality(Sessions) \in Nat
  BY <1>1, FS_Subset, FS_CardinalityType
<1>3. IsFiniteSet(Waiting \ {s}) /\ Cardinality(Waiting \ {s}) = Cardinality(Waiting) - 1
  BY <1>2, FS_RemoveElement
<1>4. Cardinality(Waiting \ {s}) \in Nat
  BY <1>3, FS_CardinalityType
<1>5. Cardinality(Waiting) >= 1
  BY <1>2, <1>3, <1>4
<1> QED BY <1>2, <1>3, <1>5 DEF IdsOK, ConnIds

\* A message of a type other than UDP_PACKET tells what its number stands for.
LEMMA MessageKnown ==
  ASSUME NEW max, NEW m \in Carried(max), m.type # UDP_PACKET,
         m \in Range(toClient) \/ \E t \in Tunnels : m \in Range(toServer[t])
  PROVE  m.conn_id \in ConnIds /\ m.session \in Sessions /\ Known(m.conn_id, m.session)
BY DEF Carried, Known, Stands

LEMMA QuietWire ==
  ASSUME TypeInv, UNCHANGED <<toClient, toServer>>, TablesShrink
  PROVE  WireOK' /\ NoNews
<1>1. WireOK' /\ Adds({})
  BY DEF TypeInv, WireOK, Adds
<1> QED BY <1>1, ShrinkKept

LEMMA AcceptTunnelWire == ASSUME TypeInv, AcceptTunnel PROVE WireOK' /\ NoNews
<1>1. WireOK' /\ Adds({})
  BY CloseServerEndWire DEF AcceptTunnel, TypeInv
<1>2. TablesShrink
  BY DEF AcceptTunnel, clientVars, TablesShrink
<1> QED BY <1>1, <1>2, ShrinkKept

LEMMA AcceptOutsideWire ==
  ASSUME TypeInv, NEW s \in Sessions, NEW ok \in BOOLEAN, AcceptOutside(s, ok)
  PROVE  /\ WireOK'
         /\ \A id \in ConnIds, r \in Sessions :
              Known(id, r)' => Known(id, r) \/ (id = next_conn_id /\ r = s)
<1> DEFINE m == Message(TCP_OPEN, next_conn_id, s, 0)
<1>1. /\ SendToClient(m, ok) /\ UNCHANGED toServer /\ s \in Waiting
      /\ \/ UNCHANGED serverConns
         \/ serverConns' = [serverConns EXCEPT ![next_conn_id] = s]
      /\ UNCHANGED clientConns
  BY DEF AcceptOutside, Waiting, clientVars
<1>2. next_conn_id \in ConnIds
  BY <1>1, NumberLeft DEF TypeInv
<1>3. /\ m \in Carried(MaxOut)
      /\ \A i, r : Stands(m, i, r) => i = next_conn_id /\ r = s
  BY <1>2, MessageCarried DEF TCP_OPEN, TCP_DATA, UDP_PACKET
<1> HIDE DEF m
<1>4. WireOK' /\ Adds({m})
  BY <1>1, <1>3, SendToClientWire DEF TypeInv
<1>5. ASSUME NEW id \in ConnIds, NEW r \in Sessions, Known(id, r)'
      PROVE  Known(id, r) \/ (id = next_conn_id /\ r = s)
  <2>1. CASE serverConns'[id] = r
    <3>1. serverConns'[id] = serverConns[id] \/ (id = next_conn_id /\ r = s)
      BY <1>1, <1>2, <2>1 DEF TypeInv, TablesOK
    <3> QED BY <2>1, <3>1 DEF Known
  <2>2. CASE clientConns'[id] = r
    BY <1>1, <2>2 DEF Known
  <2>3. CASE \E x \in Range(toClient') : Stands(x, id, r)
    BY <1>3, <1>4, <2>3 DEF Adds, Known
  <2>4. CASE \E t \in Tunnels : \E x \in Range(toServer'[t]) : Stands(x, id, r)
    BY <1>3, <1>4, <2>4 DEF Adds, Known
  <2> QED BY <1>5, <2>1, <2>2, <2>3, <2>4 DEF Known, Stands
<1> QED BY <1>4, <1>5

LEMMA ServerReadUdpWire ==
  ASSUME TypeInv, NEW ok \in BOOLEAN, ServerReadUdp(ok) PROVE WireOK' /\ NoNews
<1> DEFINE m == Message(UDP_PACKET, 0, None, 0)
<1>1. /\ m \in Carried(MaxOut) /\ \A i, r : ~Stands(m, i, r)
  BY MessageCarried DEF UDP_PACKET, TCP_DATA
<1>2. TablesShrink
  BY DEF ServerReadUdp, clientVars, TablesShrink
<1>3. CASE ~HasTunnel
  BY <1>2, <1>3, QuietWire DEF ServerReadUdp
<1>4. CASE HasTunnel /\ ok
  <2>1. WireOK' /\ Adds({m})
    BY <1>1, <1>4, SendToClientWire DEF ServerReadUdp, TypeInv
  <2> HIDE DEF m
  <2> QED BY <1>1, <1>2, <2>1, ShrinkKept
<1>5. CASE HasTunnel /\ ~ok
  <2>1. WireOK' /\ Adds({})
    BY <1>5, CloseServerEndWire DEF ServerReadUdp, TypeInv
  <2> QED BY <1>2, <2>1, ShrinkKept
<1> QED BY <1>3, <1>4, <1>5

LEMMA ReadOutsideWire ==
  ASSUME TypeInv, NEW id \in ConnIds, NEW ok \in BOOLEAN, ReadOutside(id, ok)
  PROVE  WireOK' /\ NoNews
<1> DEFINE s == serverConns[id]
           m == Message(TCP_DATA, id, s, outRead[s] + 1)
<1>1. /\ serverConns[id] # None /\ outRead[s] < outSent[s] /\ UNCHANGED toServer
      /\ \/ HasTunnel /\ SendToClient(m, ok)
         \/ UNCHANGED toClient
      /\ UNCHANGED serverConns \/ ServerRemove(id)
      /\ UNCHANGED clientConns
  BY DEF ReadOutside, ServerHas, clientVars
<1>2. s \in Sessions
  BY <1>1 DEF TypeInv, TablesOK
<1>3. outRead[s] + 1 \in 1 .. MaxOut /\ outRead[s] + 1 \in Nat
  BY <1>1, <1>2, LimitsAssumption DEF TypeInv, PeersOK
<1>4. m \in Carried(MaxOut) /\ \A i, r : Stands(m, i, r) => i = id /\ r = s
  BY <1>2, <1>3, MessageCarried DEF TCP_DATA, UDP_PACKET
<1>5. Known(id, s)
  BY DEF Known
<1>6. TablesShrink
  BY <1>1 DEF TablesShrink, ServerRemove, TypeInv, TablesOK
<1> HIDE DEF m, s
<1>7. CASE UNCHANGED toClient
  BY <1>1, <1>6, <1>7, QuietWire
<1>8. CASE SendToClient(m, ok)
  <2>1. WireOK' /\ Adds({m})
    BY <1>1, <1>4, <1>8, SendToClientWire DEF TypeInv
  <2> QED BY <1>4, <1>5, <1>6, <2>1, ShrinkKept
<1> QED BY <1>1, <1>7, <1>8

LEMMA ReadOutsideEndWire ==
  ASSUME TypeInv, NEW id \in ConnIds, NEW ok \in BOOLEAN, ReadOutsideEnd(id, ok)
  PROVE  WireOK' /\ NoNews
<1> DEFINE s == serverConns[id]
           m == Message(TCP_CLOSE, id, s, 0)
<1>1. /\ serverConns[id] # None /\ UNCHANGED toServer
      /\ SendToClient(m, ok) \/ UNCHANGED toClient
      /\ ServerRemove(id) /\ UNCHANGED clientConns
  BY DEF ReadOutsideEnd, ServerHas, clientVars
<1>2. s \in Sessions
  BY <1>1 DEF TypeInv, TablesOK
<1>3. m \in Carried(MaxOut) /\ \A i, r : Stands(m, i, r) => i = id /\ r = s
  BY <1>2, MessageCarried DEF TCP_CLOSE, TCP_DATA, UDP_PACKET
<1>4. Known(id, s)
  BY DEF Known
<1>5. TablesShrink
  BY <1>1 DEF TablesShrink, ServerRemove, TypeInv, TablesOK
<1> HIDE DEF m, s
<1>6. CASE UNCHANGED toClient
  BY <1>1, <1>5, <1>6, QuietWire
<1>7. CASE SendToClient(m, ok)
  <2>1. WireOK' /\ Adds({m})
    BY <1>1, <1>3, <1>7, SendToClientWire DEF TypeInv
  <2> QED BY <1>3, <1>4, <1>5, <2>1, ShrinkKept
<1> QED BY <1>1, <1>6, <1>7

\* The server takes a message, and may send one.
LEMMA ServerHeadWire ==
  ASSUME TypeInv, NEW type \in 1 .. 4, ServerHead(type), ServerPop
  PROVE  /\ ServerMsg \in Carried(MaxDest) /\ ServerMsg.type = type
         /\ serverTunnel \in Tunnels /\ ServerMsg \in Range(toServer[serverTunnel])
         /\ UNCHANGED toClient => WireOK' /\ Adds({})
         /\ \A m \in Carried(MaxOut), ok \in BOOLEAN :
              SendToClient(m, ok) => WireOK' /\ Adds({m})
<1>1. /\ serverTunnel \in Tunnels /\ toServer[serverTunnel] # <<>> /\ ServerMsg.type = type
      /\ WireOK
  BY HeldTunnels DEF ServerHead, TypeInv, ServerMsg
<1>2. /\ ServerMsg \in Carried(MaxDest) /\ ServerMsg \in Range(toServer[serverTunnel])
      /\ toServer' \in [Tunnels -> Seq(Carried(MaxDest))]
      /\ \A t \in Tunnels : Range(toServer'[t]) \subseteq Range(toServer[t])
  BY <1>1, ServerPopWire
<1>3. ASSUME NEW m \in Carried(MaxOut), NEW ok \in BOOLEAN, SendToClient(m, ok)
      PROVE  WireOK' /\ Adds({m})
  <2>1. toClient \in Seq(Carried(MaxOut)) /\ toClient' \in {toClient, Append(toClient, m)}
    BY <1>1, <1>3 DEF WireOK, SendToClient
  <2>2. /\ Append(toClient, m) \in Seq(Carried(MaxOut))
        /\ Range(Append(toClient, m)) = Range(toClient) \cup {m}
    BY <2>1, AppendRange
  <2> QED BY <1>2, <2>1, <2>2 DEF WireOK, Adds
<1>4. ASSUME UNCHANGED toClient PROVE WireOK' /\ Adds({})
  BY <1>1, <1>2, <1>4 DEF WireOK, Adds
<1> QED BY <1>1, <1>2, <1>3, <1>4

LEMMA ServerTcpDataWire ==
  ASSUME TypeInv, NEW wrote \in BOOLEAN, NEW ok \in BOOLEAN, ServerTcpData(wrote, ok)
  PROVE  WireOK' /\ NoNews
<1> DEFINE id == ServerMsg.conn_id
           s == serverConns[ServerMsg.conn_id]
           m == Message(TCP_CLOSE, id, s, 0)
<1>1. /\ ServerHead(TCP_DATA) /\ ServerPop /\ UNCHANGED clientConns
      /\ \/ UNCHANGED <<serverConns, toClient>>
         \/ serverConns[id] # None /\ ServerRemove(id) /\ SendToClient(m, ok)
  BY DEF ServerTcpData, ServerHas, clientVars
<1>2. /\ ServerMsg \in Carried(MaxDest) /\ ServerMsg.type = TCP_DATA
      /\ UNCHANGED toClient => WireOK' /\ Adds({})
      /\ \A x \in Carried(MaxOut), o \in BOOLEAN : SendToClient(x, o) => WireOK' /\ Adds({x})
  BY <1>1, ServerHeadWire DEF TCP_DATA
<1>3. id \in ConnIds
  BY <1>2 DEF Carried, TCP_DATA, UDP_PACKET
<1>4. TablesShrink
  BY <1>1, <1>3 DEF TablesShrink, ServerRemove, TypeInv, TablesOK
<1>5. CASE UNCHANGED toClient
  BY <1>2, <1>4, <1>5, ShrinkKept
<1>6. CASE serverConns[id] # None /\ SendToClient(m, ok)
  <2>1. s \in Sessions
    BY <1>3, <1>6 DEF TypeInv, TablesOK
  <2>2. m \in Carried(MaxOut) /\ \A i, r : Stands(m, i, r) => i = id /\ r = s
    BY <1>3, <2>1, MessageCarried DEF TCP_CLOSE, TCP_DATA, UDP_PACKET
  <2>3. Known(id, s)
    BY DEF Known
  <2> HIDE DEF m, s, id
  <2>4. WireOK' /\ Adds({m})
    BY <1>2, <1>6, <2>2
  <2> QED BY <1>4, <2>2, <2>3, <2>4, ShrinkKept
<1> QED BY <1>1, <1>5, <1>6

LEMMA ServerTcpCloseWire == ASSUME TypeInv, ServerTcpClose PROVE WireOK' /\ NoNews
<1>1. ServerHead(TCP_CLOSE) /\ ServerPop /\ UNCHANGED <<toClient, clientConns>>
      /\ ServerRemove(ServerMsg.conn_id)
  BY DEF ServerTcpClose, clientVars
<1>2. WireOK' /\ Adds({})
  BY <1>1, ServerHeadWire DEF TCP_CLOSE
<1>3. TablesShrink
  BY <1>1 DEF TablesShrink, ServerRemove, TypeInv, TablesOK
<1> QED BY <1>2, <1>3, ShrinkKept

LEMMA ServerUdpPacketWire == ASSUME TypeInv, ServerUdpPacket PROVE WireOK' /\ NoNews
<1>1. ServerHead(UDP_PACKET) /\ ServerPop /\ UNCHANGED <<toClient, clientConns, serverConns>>
  BY DEF ServerUdpPacket, clientVars, serverVars
<1>2. WireOK' /\ Adds({})
  BY <1>1, ServerHeadWire DEF UDP_PACKET
<1>3. TablesShrink
  BY <1>1 DEF TablesShrink
<1> QED BY <1>2, <1>3, ShrinkKept

LEMMA ServerTunnelEndWire == ASSUME TypeInv, ServerTunnelEnd PROVE WireOK' /\ NoNews
<1>1. WireOK' /\ Adds({})
  BY CloseServerEndWire DEF ServerTunnelEnd, TypeInv
<1>2. TablesShrink
  BY DEF ServerTunnelEnd, clientVars, TablesShrink
<1> QED BY <1>1, <1>2, ShrinkKept

\* What the client sends and drops in the same way.
LEMMA ClientHeadWire ==
  ASSUME TypeInv, NEW type \in 1 .. 4, ClientHead(type), ClientPop
  PROVE  /\ ClientMsg \in Carried(MaxOut) /\ ClientMsg.type = type
         /\ ClientMsg \in Range(toClient)
         /\ UNCHANGED toServer => WireOK' /\ Adds({})
         /\ \A m \in Carried(MaxDest), ok \in BOOLEAN :
              SendToServer(m, ok) => WireOK' /\ Adds({m})
<1>1. /\ toClient # <<>> /\ ClientMsg.type = type /\ WireOK /\ clientTunnel \in Tunnels
      /\ toClient' = Tail(toClient)
  BY HeldTunnels DEF ClientHead, ClientPop, TypeInv, ClientMsg
<1>2. /\ ClientMsg \in Carried(MaxOut) /\ ClientMsg \in Range(toClient)
      /\ toClient' \in Seq(Carried(MaxOut)) /\ Range(toClient') \subseteq Range(toClient)
  BY <1>1, ClientPopWire
<1>3. ASSUME NEW m \in Carried(MaxDest), NEW ok \in BOOLEAN, SendToServer(m, ok)
      PROVE  WireOK' /\ Adds({m})
  <2> DEFINE q == toServer[clientTunnel]
  <2>1. /\ toServer \in [Tunnels -> Seq(Carried(MaxDest))] /\ q \in Seq(Carried(MaxDest))
        /\ \/ toServer' = toServer
           \/ toServer' = [toServer EXCEPT ![clientTunnel] = Append(q, m)]
    BY <1>1, <1>3 DEF WireOK, SendToServer
  <2>2. Append(q, m) \in Seq(Carried(MaxDest)) /\ Range(Append(q, m)) = Range(q) \cup {m}
    BY <2>1, AppendRange
  <2>3. toServer' \in [Tunnels -> Seq(Carried(MaxDest))]
    BY <2>1, <2>2
  <2>4. \A t \in Tunnels : toServer'[t] = toServer[t] \/ (t = clientTunnel /\ toServer'[t] = Append(q, m))
    BY <1>1, <2>1
  <2>5. \A t \in Tunnels : Range(toServer'[t]) \subseteq Range(toServer[t]) \cup {m}
    BY <2>2, <2>4
  <2> QED BY <1>2, <2>3, <2>5 DEF WireOK, Adds
<1>4. ASSUME UNCHANGED toServer PROVE WireOK' /\ Adds({})
  BY <1>1, <1>2, <1>4 DEF WireOK, Adds
<1> QED BY <1>1, <1>2, <1>3, <1>4

LEMMA ConnectWire == ASSUME TypeInv, Connect PROVE WireOK' /\ NoNews
<1>1. UNCHANGED <<toClient, toServer>> /\ TablesShrink
  BY DEF Connect, serverVars, TablesShrink
<1> QED BY <1>1, QuietWire

\* The table goes with the process, and the end of the tunnel.
LEMMA ClientStopsWire ==
  ASSUME TypeInv, NEW phase, ClientStops(phase), UNCHANGED serverConns
  PROVE  WireOK' /\ NoNews
<1>1. CloseClientEnd /\ clientConns' = NoConns
  BY DEF ClientStops
<1>2. WireOK' /\ Adds({})
  BY <1>1, HeldTunnels, CloseClientEndWire DEF TypeInv
<1>3. TablesShrink
  BY <1>1 DEF TablesShrink, NoConns
<1> QED BY <1>2, <1>3, ShrinkKept

LEMMA ConnectFailsWire == ASSUME TypeInv, ConnectFails PROVE WireOK' /\ NoNews
<1>1. CASE ClientStops("gaveup")
  BY <1>1, ClientStopsWire DEF ConnectFails, serverVars
<1>2. CASE UNCHANGED <<clientPhase, clientConns, clientTunnel, toClient, toServer>>
  BY <1>2, QuietWire DEF ConnectFails, serverVars, TablesShrink
<1> QED BY <1>1, <1>2 DEF ConnectFails

LEMMA LeaveLoopWire ==
  ASSUME TypeInv, LeaveLoop, UNCHANGED <<serverConns, clientConns>>
  PROVE  WireOK' /\ NoNews
<1>1. WireOK' /\ Adds({})
  BY HeldTunnels, CloseClientEndWire DEF TypeInv, LeaveLoop
<1>2. TablesShrink
  BY DEF TablesShrink
<1> QED BY <1>1, <1>2, ShrinkKept

LEMMA ClientTcpOpenWire ==
  ASSUME TypeInv, NEW connected \in BOOLEAN, NEW ok \in BOOLEAN, ClientTcpOpen(connected, ok)
  PROVE  WireOK' /\ NoNews
<1> DEFINE id == ClientMsg.conn_id
           s == ClientMsg.session
           m == Message(TCP_CLOSE, id, s, 0)
<1>1. /\ ClientHead(TCP_OPEN) /\ ClientPop /\ UNCHANGED serverConns
      /\ \/ UNCHANGED <<clientConns, toServer>>
         \/ clientConns' = [clientConns EXCEPT ![id] = s] /\ UNCHANGED toServer
         \/ SendToServer(m, ok) /\ UNCHANGED clientConns
  BY DEF ClientTcpOpen, serverVars
<1>2. /\ ClientMsg \in Carried(MaxOut) /\ ClientMsg.type = TCP_OPEN /\ ClientMsg \in Range(toClient)
      /\ UNCHANGED toServer => WireOK' /\ Adds({})
      /\ \A x \in Carried(MaxDest), o \in BOOLEAN : SendToServer(x, o) => WireOK' /\ Adds({x})
  BY <1>1, ClientHeadWire DEF TCP_OPEN
<1>3. id \in ConnIds /\ s \in Sessions /\ Known(id, s)
  BY <1>2, MessageKnown DEF TCP_OPEN, UDP_PACKET
<1>4. m \in Carried(MaxDest) /\ \A i, r : Stands(m, i, r) => i = id /\ r = s
  BY <1>3, MessageCarried DEF TCP_CLOSE, TCP_DATA, UDP_PACKET
<1> HIDE DEF m, id, s
<1>5. CASE UNCHANGED <<clientConns, toServer>>
  BY <1>1, <1>2, <1>5, ShrinkKept DEF TablesShrink
<1>6. CASE clientConns' = [clientConns EXCEPT ![id] = s] /\ UNCHANGED toServer
  <2>1. ASSUME NEW i \in ConnIds, NEW r \in Sessions, serverConns'[i] = r \/ clientConns'[i] = r
        PROVE  Known(i, r)
    <3>1. clientConns'[i] = clientConns[i] \/ (i = id /\ clientConns'[i] = s)
      BY <1>3, <1>6 DEF TypeInv, TablesOK
    <3> QED BY <1>1, <1>3, <2>1, <3>1 DEF Known
  <2> QED BY <1>2, <1>6, <2>1, KnownKept
<1>7. CASE SendToServer(m, ok) /\ UNCHANGED clientConns
  <2>1. WireOK' /\ Adds({m})
    BY <1>2, <1>4, <1>7
  <2>2. TablesShrink
    BY <1>1, <1>7 DEF TablesShrink
  <2> QED BY <1>3, <1>4, <2>1, <2>2, ShrinkKept
<1> QED BY <1>1, <1>5, <1>6, <1>7

LEMMA ClientTcpDataWire ==
  ASSUME TypeInv, NEW wrote \in BOOLEAN, NEW ok \in BOOLEAN, ClientTcpData(wrote, ok)
  PROVE  WireOK' /\ NoNews
<1> DEFINE id == ClientMsg.conn_id
           s == ClientMsg.session
           m == Message(TCP_CLOSE, id, s, 0)
<1>1. /\ ClientHead(TCP_DATA) /\ ClientPop /\ UNCHANGED serverConns
      /\ \/ UNCHANGED <<clientConns, toServer>>
         \/ ClientRemove(id) /\ SendToServer(m, ok)
  BY DEF ClientTcpData, serverVars
<1>2. /\ ClientMsg \in Carried(MaxOut) /\ ClientMsg.type = TCP_DATA /\ ClientMsg \in Range(toClient)
      /\ UNCHANGED toServer => WireOK' /\ Adds({})
      /\ \A x \in Carried(MaxDest), o \in BOOLEAN : SendToServer(x, o) => WireOK' /\ Adds({x})
  BY <1>1, ClientHeadWire DEF TCP_DATA
<1>3. id \in ConnIds /\ s \in Sessions /\ Known(id, s)
  BY <1>2, MessageKnown DEF TCP_DATA, UDP_PACKET
<1>4. m \in Carried(MaxDest) /\ \A i, r : Stands(m, i, r) => i = id /\ r = s
  BY <1>3, MessageCarried DEF TCP_CLOSE, TCP_DATA, UDP_PACKET
<1>5. TablesShrink
  BY <1>1, <1>3 DEF TablesShrink, ClientRemove, TypeInv, TablesOK
<1> HIDE DEF m, id, s
<1>6. CASE UNCHANGED toServer
  BY <1>2, <1>5, <1>6, ShrinkKept
<1>7. CASE SendToServer(m, ok)
  <2>1. WireOK' /\ Adds({m})
    BY <1>2, <1>4, <1>7
  <2> QED BY <1>3, <1>4, <1>5, <2>1, ShrinkKept
<1> QED BY <1>1, <1>6, <1>7

LEMMA ClientTcpCloseWire == ASSUME TypeInv, ClientTcpClose PROVE WireOK' /\ NoNews
<1>1. ClientHead(TCP_CLOSE) /\ ClientPop /\ UNCHANGED <<toServer, serverConns>>
      /\ ClientRemove(ClientMsg.conn_id)
  BY DEF ClientTcpClose, serverVars
<1>2. WireOK' /\ Adds({})
  BY <1>1, ClientHeadWire DEF TCP_CLOSE
<1>3. TablesShrink
  BY <1>1 DEF TablesShrink, ClientRemove, TypeInv, TablesOK
<1> QED BY <1>2, <1>3, ShrinkKept

LEMMA ClientUdpPacketWire == ASSUME TypeInv, ClientUdpPacket PROVE WireOK' /\ NoNews
<1>1. ClientHead(UDP_PACKET) /\ ClientPop /\ UNCHANGED <<toServer, serverConns, clientConns>>
  BY DEF ClientUdpPacket, clientVars, serverVars
<1>2. WireOK' /\ Adds({})
  BY <1>1, ClientHeadWire DEF UDP_PACKET
<1>3. TablesShrink
  BY <1>1 DEF TablesShrink
<1> QED BY <1>2, <1>3, ShrinkKept

LEMMA ClientTunnelEndWire == ASSUME TypeInv, ClientTunnelEnd PROVE WireOK' /\ NoNews
BY LeaveLoopWire DEF ClientTunnelEnd, serverVars

LEMMA ClientReadUdpWire ==
  ASSUME TypeInv, NEW ok \in BOOLEAN, ClientReadUdp(ok) PROVE WireOK' /\ NoNews
<1> DEFINE m == Message(UDP_PACKET, 0, None, 0)
<1>1. UNCHANGED <<serverConns, clientConns>> /\ InLoop
  BY DEF ClientReadUdp, serverVars
<1>2. CASE ~ok
  BY <1>1, <1>2, LeaveLoopWire DEF ClientReadUdp
<1>3. CASE ok
  <2>1. m \in Carried(MaxDest) /\ \A i, r : ~Stands(m, i, r)
    BY MessageCarried DEF UDP_PACKET, TCP_DATA
  <2>2. SendToServer(m, ok) /\ UNCHANGED toClient /\ clientTunnel \in Tunnels
    BY <1>1, <1>3, HeldTunnels DEF ClientReadUdp, TypeInv
  <2> HIDE DEF m
  <2>3. WireOK' /\ Adds({m})
    BY <2>1, <2>2, SendToServerWire DEF TypeInv
  <2>4. TablesShrink
    BY <1>1 DEF TablesShrink
  <2> QED BY <2>1, <2>3, <2>4, ShrinkKept
<1> QED BY <1>2, <1>3

LEMMA ReadDestWire ==
  ASSUME TypeInv, NEW id \in ConnIds, NEW ok \in BOOLEAN, ReadDest(id, ok)
  PROVE  WireOK' /\ NoNews
<1> DEFINE s == clientConns[id]
           m == Message(TCP_DATA, id, s, destRead[s] + 1)
<1>1. /\ UNCHANGED <<serverConns, clientConns>> /\ InLoop
      /\ clientConns[id] # None /\ destRead[s] < destSent[s]
  BY DEF ReadDest, serverVars, ClientHas
<1>2. CASE ~ok
  BY <1>1, <1>2, LeaveLoopWire DEF ReadDest
<1>3. CASE ok
  <2>1. s \in Sessions
    BY <1>1 DEF TypeInv, TablesOK
  <2>2. destRead[s] + 1 \in 1 .. MaxDest /\ destRead[s] + 1 \in Nat
    BY <1>1, <2>1, LimitsAssumption DEF TypeInv, PeersOK
  <2>3. m \in Carried(MaxDest) /\ \A i, r : Stands(m, i, r) => i = id /\ r = s
    BY <2>1, <2>2, MessageCarried DEF TCP_DATA, UDP_PACKET
  <2>4. SendToServer(m, ok) /\ UNCHANGED toClient /\ clientTunnel \in Tunnels
    BY <1>1, <1>3, HeldTunnels DEF ReadDest, TypeInv
  <2>5. Known(id, s)
    BY DEF Known
  <2> HIDE DEF m, s
  <2>6. WireOK' /\ Adds({m})
    BY <2>3, <2>4, SendToServerWire DEF TypeInv
  <2>7. TablesShrink
    BY <1>1 DEF TablesShrink
  <2> QED BY <2>3, <2>5, <2>6, <2>7, ShrinkKept
<1> QED BY <1>2, <1>3

LEMMA ReadDestEndWire ==
  ASSUME TypeInv, NEW id \in ConnIds, NEW ok \in BOOLEAN, ReadDestEnd(id, ok)
  PROVE  WireOK' /\ NoNews
<1> DEFINE s == clientConns[id]
           m == Message(TCP_CLOSE, id, s, 0)
<1>1. /\ UNCHANGED serverConns /\ ClientRemove(id) /\ InLoop /\ clientConns[id] # None
      /\ SendToServer(m, ok) /\ UNCHANGED toClient
  BY DEF ReadDestEnd, serverVars, ClientHas
<1>2. s \in Sessions
  BY <1>1 DEF TypeInv, TablesOK
<1>3. m \in Carried(MaxDest) /\ \A i, r : Stands(m, i, r) => i = id /\ r = s
  BY <1>2, MessageCarried DEF TCP_CLOSE, TCP_DATA, UDP_PACKET
<1>4. Known(id, s)
  BY DEF Known
<1>5. TablesShrink
  BY <1>1 DEF TablesShrink, ClientRemove, TypeInv, TablesOK
<1> HIDE DEF m, s
<1>6. WireOK' /\ Adds({m})
  BY <1>1, <1>3, HeldTunnels, SendToServerWire DEF TypeInv
<1> QED BY <1>3, <1>4, <1>5, <1>6, ShrinkKept

\* The network cuts the tunnel.
LEMMA BreakWire == ASSUME TypeInv, Break PROVE WireOK' /\ NoNews
<1>1. /\ InLoop /\ toClient' \in Beginnings(toClient)
      /\ UNCHANGED <<serverConns, clientConns>>
  BY DEF Break, LoseToClient, serverVars, clientVars
<1>2. PICK q \in Beginnings(toServer[clientTunnel]) :
        toServer' = [toServer EXCEPT ![clientTunnel] = q]
  BY DEF Break, LoseToServer
<1>3. WireOK /\ clientTunnel \in Tunnels
  BY <1>1, HeldTunnels DEF TypeInv
<1>4. WireOK' /\ Adds({})
  BY <1>1, <1>2, <1>3, BeginningWire, CutToServer DEF WireOK, Adds
<1>5. TablesShrink
  BY <1>1 DEF TablesShrink
<1> QED BY <1>4, <1>5, ShrinkKept

LEMMA ServerEndsWire ==
  ASSUME TypeInv, ServerStops, UNCHANGED clientConns
  PROVE  WireOK' /\ NoNews
<1>1. WireOK' /\ Adds({})
  BY ServerStopsWire DEF TypeInv
<1>2. TablesShrink
  BY DEF TablesShrink, ServerStops, NoConns
<1> QED BY <1>1, <1>2, ShrinkKept

-----------------------------------------------------------------------------
(* The tunnel connections.                                                 *)

ends == <<serverUp, serverTunnel, clientPhase, clientTunnel, attempt, tunnels, backlog, broken>>

LEMMA TunnelsKept ==
  ASSUME TunnelsOK, UNCHANGED ends, UNCHANGED faults, udp' \in 0 .. MaxUdp
  PROVE  TunnelsOK'
BY DEF TunnelsOK, ends, InLoop, ClientCut

\* The server gives up a tunnel that is cut: no tunnel of the client is cut by that.
LEMMA ServerLetsGo ==
  ASSUME TunnelsOK, ServerCut, serverTunnel' = 0, UNCHANGED faults, udp' \in 0 .. MaxUdp,
         UNCHANGED <<serverUp, clientPhase, clientTunnel, attempt, tunnels, backlog, broken>>
  PROVE  TunnelsOK'
<1>1. serverUp /\ InLoop' /\ ClientCut' => tunnels <= faults
  BY DEF TunnelsOK, ServerCut, ClientCut, InLoop
<1>2. \A i \in DOMAIN backlog : 0 < backlog[i]
  <2> TAKE i \in DOMAIN backlog
  <2>1. serverTunnel \in Nat /\ serverTunnel < backlog[i] /\ backlog[i] \in Int
    BY LenProperties, ElementOfSeq DEF TunnelsOK
  <2> QED BY <2>1
<1> QED BY <1>1, <1>2 DEF TunnelsOK, InLoop

\* The client leaves the loop when its tunnel is cut: so it had its fault.
LEMMA ClientLetsGo ==
  ASSUME TunnelsOK, InLoop, ClientCut, clientPhase' = "connect", attempt' = 0, clientTunnel' = 0,
         UNCHANGED <<serverUp, serverTunnel, tunnels, backlog, broken, faults>>, udp' \in 0 .. MaxUdp
  PROVE  TunnelsOK'
BY LimitsAssumption DEF TunnelsOK, InLoop

LEMMA FaultsGrow ==
  ASSUME TunnelsOK, faults' \in 0 .. MaxFaults, faults' >= faults
  PROVE  tunnels \in Nat /\ tunnels <= faults' + 1
<1>1. tunnels \in Nat /\ tunnels <= faults + 1 /\ faults \in 0 .. MaxFaults
  BY DEF TunnelsOK
<1>2. tunnels \in Int /\ faults \in Int /\ faults' \in Int
  BY <1>1
<1>3. \A l, m, n \in Int : l <= m + 1 /\ n >= m => l <= n + 1
  OBVIOUS
<1> QED BY <1>1, <1>2, <1>3, Zenon

LEMMA ServerGone ==
  ASSUME TunnelsOK, ServerStops, faults' \in 0 .. MaxFaults, faults' >= faults,
         UNCHANGED <<clientVars, tunnels, broken, udp>>
  PROVE  TunnelsOK'
<1>1. <<>> \in Seq(1 .. tunnels) /\ DOMAIN <<>> = {}
  BY EmptySeq
<1>2. /\ serverUp' = FALSE /\ serverTunnel' = 0 /\ backlog' = <<>>
      /\ UNCHANGED <<clientPhase, clientTunnel, attempt>>
      /\ UNCHANGED tunnels /\ UNCHANGED broken /\ UNCHANGED udp
  BY DEF ServerStops, clientVars
<1>3. /\ tunnels \in Nat /\ tunnels <= faults' + 1 /\ udp' \in 0 .. MaxUdp
      /\ broken' \subseteq 1 .. tunnels'
  BY <1>2, FaultsGrow DEF TunnelsOK
<1>4. 0 \in 0 .. tunnels
  BY <1>3
<1>5. /\ clientPhase' \in {"connect", "loop", "dead", "gaveup"}
      /\ attempt' \in 0 .. MaxAttempts /\ (clientPhase' = "connect" => attempt' < MaxAttempts)
      /\ clientTunnel' = IF InLoop' THEN tunnels' ELSE 0
      /\ InLoop' => tunnels' # 0
  BY <1>2 DEF TunnelsOK, InLoop
<1> QED BY <1>1, <1>2, <1>3, <1>4, <1>5 DEF TunnelsOK

LEMMA ClientGone ==
  ASSUME TunnelsOK, NEW phase \in {"dead", "gaveup"}, ClientStops(phase),
         attempt' \in 0 .. MaxAttempts, faults' \in 0 .. MaxFaults, faults' >= faults,
         UNCHANGED <<serverUp, serverTunnel, tunnels, backlog, broken, udp>>
  PROVE  TunnelsOK'
<1>1. clientPhase' = phase /\ clientTunnel' = 0
  BY DEF ClientStops, CloseClientEnd
<1>2. tunnels \in Nat /\ tunnels <= faults' + 1
  BY FaultsGrow
<1> QED BY <1>1, <1>2 DEF TunnelsOK, InLoop

\* The new tunnel is later than the old one, so the old one is not the client's.
LEMMA AcceptTunnelEnds == ASSUME TunnelsOK, AcceptTunnel PROVE TunnelsOK'
<1> DEFINE q == backlog
<1>1. /\ q # <<>> /\ serverTunnel' = Head(q) /\ backlog' = Tail(q)
      /\ UNCHANGED <<serverUp, clientPhase, clientTunnel, attempt, tunnels, broken, faults, udp>>
  BY DEF AcceptTunnel, clientVars, boundVars
<1>2. /\ q \in Seq(1 .. tunnels) /\ Len(q) \in Nat \ {0} /\ DOMAIN q = 1 .. Len(q)
      /\ Head(q) = q[1] /\ 1 \in DOMAIN q
  BY <1>1, LenProperties, EmptySeq DEF TunnelsOK
<1>3. /\ Tail(q) \in Seq(1 .. tunnels) /\ Len(Tail(q)) = Len(q) - 1
      /\ \A i \in 1 .. Len(Tail(q)) : Tail(q)[i] = q[i + 1]
  BY <1>1, <1>2, HeadTailProperties
<1>4. DOMAIN Tail(q) = 1 .. Len(q) - 1 /\ \A i \in 1 .. Len(q) - 1 : Tail(q)[i] = q[i + 1]
  BY <1>3, LenProperties
<1>5. \A i \in 1 .. Len(q), j \in 1 .. Len(q) : i < j => q[i] < q[j]
  BY <1>2 DEF TunnelsOK
<1>6. \A i \in DOMAIN Tail(q) :
        /\ q[1] < Tail(q)[i]
        /\ \A j \in DOMAIN Tail(q) : i < j => Tail(q)[i] < Tail(q)[j]
  <2> TAKE i \in DOMAIN Tail(q)
  <2>1. i + 1 \in 1 .. Len(q) /\ 1 < i + 1 /\ Tail(q)[i] = q[i + 1] /\ 1 \in 1 .. Len(q)
    BY <1>2, <1>4
  <2>2. ASSUME NEW j \in DOMAIN Tail(q), i < j PROVE Tail(q)[i] < Tail(q)[j]
    <3>1. j + 1 \in 1 .. Len(q) /\ i + 1 < j + 1 /\ Tail(q)[j] = q[j + 1]
      BY <1>2, <1>4, <2>2
    <3> QED BY <1>5, <2>1, <3>1
  <2> QED BY <1>5, <2>1, <2>2
<1>7. q[1] \in 1 .. tunnels
  BY <1>2, ElementOfSeq
<1>8. ASSUME InLoop, ClientCut' PROVE ClientCut
  <2>1. clientTunnel = tunnels /\ tunnels \in Nat /\ serverTunnel < q[1]
    BY <1>2, <1>8 DEF TunnelsOK
  <2>2. serverTunnel \in Nat
    BY DEF TunnelsOK
  <2>3. clientTunnel # serverTunnel
    BY <1>7, <2>1, <2>2
  <2>4. CASE clientTunnel \in broken
    BY <2>4 DEF ClientCut
  <2>5. CASE clientTunnel # q[1] /\ clientTunnel \notin Range(Tail(q))
    <3>1. clientTunnel \notin Range(q)
      <4> SUFFICES ASSUME NEW i \in 1 .. Len(q), clientTunnel = q[i] PROVE FALSE
        BY <1>2 DEF Range
      <4>1. i # 1
        BY <2>5
      <4>2. i - 1 \in 1 .. Len(q) - 1 /\ (i - 1) + 1 = i
        BY <1>2, <4>1
      <4>3. Tail(q)[i - 1] = q[i]
        BY <1>4, <4>2
      <4> QED BY <1>4, <2>5, <4>2, <4>3 DEF Range
    <3> QED BY <2>3, <3>1 DEF ClientCut
  <2>6. clientTunnel \in broken \/ (clientTunnel # q[1] /\ clientTunnel \notin Range(Tail(q)))
    BY <1>1, <1>2, <1>8 DEF ClientCut
  <2> QED BY <2>4, <2>5, <2>6
<1> HIDE DEF q
<1>9. /\ serverTunnel' = q[1] /\ backlog' = Tail(q) /\ q[1] \in 0 .. tunnels
  BY <1>1, <1>2, <1>7 DEF q
<1>10. InLoop' <=> InLoop
  BY <1>1 DEF InLoop
<1>11. serverUp /\ (clientPhase = "connect" \/ (InLoop /\ ClientCut')) => tunnels <= faults
  BY <1>8 DEF TunnelsOK
<1> QED BY <1>1, <1>3, <1>6, <1>9, <1>10, <1>11 DEF TunnelsOK

\* The client connects only after a fault, but for the first time.
LEMMA ConnectEnds == ASSUME TunnelsOK, Connect PROVE TunnelsOK'
<1> DEFINE n == tunnels + 1
<1>1. /\ clientPhase = "connect" /\ serverUp /\ tunnels' = n /\ clientTunnel' = n
      /\ backlog' = Append(backlog, n) /\ clientPhase' = "loop" /\ attempt' = 0
      /\ UNCHANGED <<serverUp, serverTunnel, broken, faults, udp>>
  BY DEF Connect, serverVars, boundVars
<1>2. /\ tunnels \in Nat /\ tunnels <= faults /\ faults \in Nat
      /\ backlog \in Seq(1 .. tunnels) /\ serverTunnel \in 0 .. tunnels /\ broken \subseteq 1 .. tunnels
  BY <1>1 DEF TunnelsOK
<1>3. n \in 1 .. n /\ 1 .. tunnels \subseteq 1 .. n /\ n \notin 1 .. tunnels /\ n # 0
  BY <1>2
<1>4. Len(backlog) \in Nat /\ DOMAIN backlog = 1 .. Len(backlog)
      /\ \A i \in 1 .. Len(backlog) : backlog[i] \in 1 .. tunnels
  BY <1>2, LenProperties, ElementOfSeq
<1>5. backlog \in Seq(1 .. n)
  BY <1>2, <1>3, WiderSeq
<1>6. /\ Append(backlog, n) \in Seq(1 .. n) /\ Len(Append(backlog, n)) = Len(backlog) + 1
      /\ \A i \in 1 .. Len(backlog) : Append(backlog, n)[i] = backlog[i]
      /\ Append(backlog, n)[Len(backlog) + 1] = n
  BY <1>3, <1>5, AppendProperties
<1>7. DOMAIN Append(backlog, n) = 1 .. Len(backlog) + 1
  BY <1>6, LenProperties
<1>8. \A i \in 1 .. Len(backlog) : /\ serverTunnel < backlog[i]
                                   /\ \A j \in 1 .. Len(backlog) : i < j => backlog[i] < backlog[j]
  BY <1>4 DEF TunnelsOK
<1> HIDE DEF n
<1>9. ASSUME NEW i \in 1 .. Len(backlog) + 1
      PROVE  /\ serverTunnel < Append(backlog, n)[i]
             /\ \A j \in 1 .. Len(backlog) + 1 : i < j => Append(backlog, n)[i] < Append(backlog, n)[j]
  <2>1. serverTunnel < n /\ \A k \in 1 .. tunnels : k < n
    BY <1>2 DEF n
  <2>2. CASE i \in 1 .. Len(backlog)
    <3>1. \A j \in 1 .. Len(backlog) + 1 : j \in 1 .. Len(backlog) \/ j = Len(backlog) + 1
      BY <1>4
    <3> QED BY <1>4, <1>6, <1>8, <2>1, <2>2, <3>1
  <2>3. CASE i = Len(backlog) + 1
    <3>1. \A j \in 1 .. Len(backlog) + 1 : ~(i < j)
      BY <1>4, <2>3
    <3> QED BY <1>6, <2>1, <2>3, <3>1
  <2> QED BY <1>4, <2>2, <2>3
<1>10. ~ClientCut'
  <2>1. n \in Range(Append(backlog, n))
    BY <1>4, <1>6, <1>7 DEF Range
  <2>2. n \notin broken
    BY <1>2, <1>3
  <2> QED BY <1>1, <2>1, <2>2 DEF ClientCut
<1>11. n \in Nat /\ n <= faults + 1 /\ serverTunnel \in 0 .. n /\ broken \subseteq 1 .. n
  BY <1>2, <1>3 DEF n
<1> QED BY <1>1, <1>3, <1>6, <1>7, <1>9, <1>10, <1>11, LimitsAssumption DEF TunnelsOK, InLoop

LEMMA BreakEnds == ASSUME TunnelsOK, Break PROVE TunnelsOK'
<1>1. /\ faults < MaxFaults /\ faults' = faults + 1 /\ InLoop /\ broken' = broken \cup {clientTunnel}
      /\ UNCHANGED <<serverUp, serverTunnel, clientPhase, clientTunnel, attempt, tunnels, backlog, udp>>
  BY DEF Break, serverVars, clientVars
<1>2. tunnels \in Nat /\ tunnels <= faults + 1 /\ clientTunnel = tunnels /\ tunnels # 0
      /\ faults \in 0 .. MaxFaults
  BY <1>1 DEF TunnelsOK
<1>3. broken' \subseteq 1 .. tunnels /\ faults' \in 0 .. MaxFaults /\ tunnels <= faults'
  BY <1>1, <1>2, LimitsAssumption DEF TunnelsOK
<1> QED BY <1>1, <1>2, <1>3 DEF TunnelsOK, InLoop

LEMMA StartEnds == ASSUME TunnelsOK, StartServer \/ StartClient PROVE TunnelsOK'
<1>1. /\ faults < MaxFaults /\ faults' = faults + 1
      /\ UNCHANGED <<serverTunnel, clientTunnel, tunnels, backlog, broken, udp>>
  BY DEF StartServer, StartClient, serverVars, clientVars, tunnelVars
<1>2. faults' \in 0 .. MaxFaults /\ tunnels <= faults' /\ tunnels \in Nat
  BY <1>1, LimitsAssumption DEF TunnelsOK
<1>3. CASE StartServer
  <2>1. serverUp' = TRUE /\ UNCHANGED <<clientPhase, attempt>>
    BY <1>3 DEF StartServer, clientVars
  <2> QED BY <1>1, <1>2, <2>1 DEF TunnelsOK, InLoop
<1>4. CASE StartClient
  <2>1. UNCHANGED serverUp /\ clientPhase' = "connect" /\ attempt' = 0
        /\ clientPhase \in {"dead", "gaveup"}
    BY <1>4 DEF StartClient, serverVars
  <2> QED BY <1>1, <1>2, <2>1, LimitsAssumption DEF TunnelsOK, InLoop
<1> QED BY <1>3, <1>4

LEMMA TunnelsStep == ASSUME TypeInv, InStep PROVE TunnelsOK'
<1>1. TunnelsOK /\ faults \in 0 .. MaxFaults /\ udp \in 0 .. MaxUdp
  BY DEF TypeInv, TunnelsOK
<1> USE DEF outsideVars, destVars, serverVars, clientVars, tunnelVars, boundVars
<1>2. CASE Peers
  <2>1. UNCHANGED ends /\ UNCHANGED <<faults, udp>>
    BY <1>2 DEF Peers, OutsideConnect, OutsideSend, OutsideEnds, DestSend, DestEnds, ends
  <2> QED BY <1>1, <2>1, TunnelsKept
<1>3. CASE Server
  <2>1. CASE AcceptTunnel
    BY <1>1, <2>1, AcceptTunnelEnds
  <2>2. CASE ServerTcpClose \/ ServerUdpPacket
    BY <1>1, <2>2, TunnelsKept DEF ServerTcpClose, ServerUdpPacket, ends
  <2>3. CASE ServerTunnelEnd
    BY <1>1, <2>3, ServerLetsGo DEF ServerTunnelEnd
  <2>4. ASSUME NEW s \in Sessions, RejectOutside(s) PROVE TunnelsOK'
    BY <1>1, <2>4, TunnelsKept DEF RejectOutside, ends
  <2>5. ASSUME NEW ok \in BOOLEAN, ServerReadUdp(ok) PROVE TunnelsOK'
    <3>1. udp' \in 0 .. MaxUdp /\ UNCHANGED faults
      BY <1>1, <2>5, LimitsAssumption DEF ServerReadUdp
    <3>2. CASE UNCHANGED serverTunnel
      BY <1>1, <2>5, <3>1, <3>2, TunnelsKept DEF ServerReadUdp, ends
    <3>3. CASE ServerCut /\ serverTunnel' = 0
      BY <1>1, <2>5, <3>1, <3>3, ServerLetsGo DEF ServerReadUdp
    <3> QED BY <2>5, <3>2, <3>3 DEF ServerReadUdp
  <2>6. ASSUME NEW s \in Sessions, NEW ok \in BOOLEAN, AcceptOutside(s, ok) PROVE TunnelsOK'
    BY <1>1, <2>6, TunnelsKept DEF AcceptOutside, ends
  <2>7. ASSUME NEW id \in ConnIds, NEW ok \in BOOLEAN, ReadOutside(id, ok) \/ ReadOutsideEnd(id, ok)
        PROVE  TunnelsOK'
    BY <1>1, <2>7, TunnelsKept DEF ReadOutside, ReadOutsideEnd, ends
  <2>8. ASSUME NEW wrote \in BOOLEAN, NEW ok \in BOOLEAN, ServerTcpData(wrote, ok) PROVE TunnelsOK'
    BY <1>1, <2>8, TunnelsKept DEF ServerTcpData, ends
  <2> QED BY <1>3, <2>1, <2>2, <2>3, <2>4, <2>5, <2>6, <2>7, <2>8 DEF Server
<1>4. CASE Client
  <2>1. CASE Connect
    BY <1>1, <2>1, ConnectEnds
  <2>2. CASE ConnectFails
    <3>1. /\ clientPhase = "connect" /\ attempt' = attempt + 1 /\ UNCHANGED udp
          /\ faults' \in {faults, faults + 1} /\ (faults' = faults \/ faults < MaxFaults)
          /\ UNCHANGED <<serverUp, serverTunnel, tunnels, backlog, broken>>
      BY <2>2 DEF ConnectFails
    <3>2. attempt' \in 0 .. MaxAttempts /\ faults' \in 0 .. MaxFaults /\ faults' >= faults
      BY <1>1, <3>1, LimitsAssumption DEF TunnelsOK
    <3>3. CASE ClientStops("gaveup")
      BY <1>1, <3>1, <3>2, <3>3, LimitsAssumption, ClientGone
    <3>4. CASE attempt + 1 < MaxAttempts /\ UNCHANGED <<clientPhase, clientTunnel>>
      <4>1. tunnels <= faults' + 1 /\ (serverUp => tunnels <= faults')
        <5>1. tunnels \in Nat /\ tunnels <= faults' + 1
          BY <1>1, <3>2, FaultsGrow
        <5>2. serverUp => tunnels <= faults
          BY <1>1, <3>1 DEF TunnelsOK
        <5>3. tunnels \in Int /\ faults \in Int /\ faults' \in Int /\ faults' >= faults
          BY <1>1, <3>2, <5>1 DEF TunnelsOK
        <5>4. \A l, m, n \in Int : l <= m /\ n >= m => l <= n
          OBVIOUS
        <5> QED BY <5>1, <5>2, <5>3, <5>4, Zenon
      <4>2. attempt' < MaxAttempts /\ clientPhase' = "connect" /\ ~InLoop /\ ~InLoop'
        BY <3>1, <3>4 DEF InLoop
      <4>3. clientTunnel = 0 /\ clientTunnel' = 0
        BY <1>1, <3>4, <4>2 DEF TunnelsOK
      <4>4. /\ UNCHANGED <<serverUp, serverTunnel, tunnels, backlog, broken, udp>>
            /\ tunnels <= faults' + 1 /\ (serverUp => tunnels <= faults')
            /\ attempt' \in 0 .. MaxAttempts /\ faults' \in 0 .. MaxFaults
        BY <3>1, <3>2, <4>1
      <4> QED BY <1>1, <4>2, <4>3, <4>4 DEF TunnelsOK
    <3> QED BY <2>2, <3>3, <3>4 DEF ConnectFails
  <2>3. CASE ClientTcpClose \/ ClientUdpPacket
    BY <1>1, <2>3, TunnelsKept DEF ClientTcpClose, ClientUdpPacket, ends
  <2>4. CASE ClientTunnelEnd
    BY <1>1, <2>4, ClientLetsGo DEF ClientTunnelEnd, LeaveLoop, CloseClientEnd
  <2>5. ASSUME NEW ok \in BOOLEAN, ClientReadUdp(ok) PROVE TunnelsOK'
    <3>1. udp' \in 0 .. MaxUdp /\ UNCHANGED faults
      BY <1>1, <2>5, LimitsAssumption DEF ClientReadUdp
    <3>2. CASE ok
      BY <1>1, <2>5, <3>1, <3>2, TunnelsKept DEF ClientReadUdp, ends
    <3>3. CASE ~ok
      BY <1>1, <2>5, <3>1, <3>3, ClientLetsGo DEF ClientReadUdp, LeaveLoop, CloseClientEnd
    <3> QED BY <3>2, <3>3
  <2>6. ASSUME NEW b \in BOOLEAN, NEW ok \in BOOLEAN, ClientTcpOpen(b, ok) \/ ClientTcpData(b, ok)
        PROVE  TunnelsOK'
    BY <1>1, <2>6, TunnelsKept DEF ClientTcpOpen, ClientTcpData, ends
  <2>7. ASSUME NEW id \in ConnIds, NEW ok \in BOOLEAN, ReadDest(id, ok) PROVE TunnelsOK'
    <3>1. CASE ok
      BY <1>1, <2>7, <3>1, TunnelsKept DEF ReadDest, ends
    <3>2. CASE ~ok
      BY <1>1, <2>7, <3>2, ClientLetsGo DEF ReadDest, LeaveLoop, CloseClientEnd
    <3> QED BY <3>1, <3>2
  <2>8. ASSUME NEW id \in ConnIds, NEW ok \in BOOLEAN, ReadDestEnd(id, ok) PROVE TunnelsOK'
    BY <1>1, <2>8, TunnelsKept DEF ReadDestEnd, ends
  <2> QED BY <1>4, <2>1, <2>2, <2>3, <2>4, <2>5, <2>6, <2>7, <2>8 DEF Client
<1>5. CASE FaultStep
  <2>1. CASE Break
    BY <1>1, <2>1, BreakEnds
  <2>2. CASE ServerSigpipe
    <3>1. faults' \in 0 .. MaxFaults /\ faults' >= faults
      BY <1>1, <2>2, LimitsAssumption DEF ServerSigpipe
    <3> QED BY <1>1, <2>2, <3>1, ServerGone DEF ServerSigpipe
  <2>3. CASE KillServer
    <3>1. faults' \in 0 .. MaxFaults /\ faults' >= faults
      BY <1>1, <2>3, LimitsAssumption DEF KillServer
    <3> QED BY <1>1, <2>3, <3>1, ServerGone DEF KillServer
  <2>4. CASE ClientSigpipe
    <3>1. faults' \in 0 .. MaxFaults /\ faults' >= faults /\ attempt' \in 0 .. MaxAttempts
      BY <1>1, <2>4, LimitsAssumption DEF ClientSigpipe, TunnelsOK
    <3> QED BY <1>1, <2>4, <3>1, ClientGone DEF ClientSigpipe
  <2>5. CASE KillClient
    <3>1. faults' \in 0 .. MaxFaults /\ faults' >= faults /\ attempt' \in 0 .. MaxAttempts
      BY <1>1, <2>5, LimitsAssumption DEF KillClient, TunnelsOK
    <3> QED BY <1>1, <2>5, <3>1, ClientGone DEF KillClient
  <2>6. CASE StartServer \/ StartClient
    BY <1>1, <2>6, StartEnds
  <2> QED BY <1>5, <2>1, <2>2, <2>3, <2>4, <2>5, <2>6 DEF FaultStep
<1> QED BY <1>2, <1>3, <1>4, <1>5 DEF InStep

-----------------------------------------------------------------------------
(* The tables, the peers, the numbers.                                     *)

LEMMA TablesStep == ASSUME TypeInv, InStep PROVE TablesOK'
<1>1. TablesOK /\ NoConns \in [ConnIds -> Sessions \cup {None}]
  BY DEF TypeInv, NoConns
<1> USE <1>1 DEF TablesOK, outsideVars, destVars, serverVars, clientVars, tunnelVars, boundVars
<1>2. CASE Peers
  BY <1>2 DEF Peers, OutsideConnect, OutsideSend, OutsideEnds, DestSend, DestEnds
<1>3. CASE Server
  <2>1. CASE AcceptTunnel \/ ServerUdpPacket \/ ServerTunnelEnd
    BY <2>1 DEF AcceptTunnel, ServerUdpPacket, ServerTunnelEnd
  <2>2. CASE ServerTcpClose
    BY <2>2 DEF ServerTcpClose, ServerRemove
  <2>3. ASSUME NEW s \in Sessions, RejectOutside(s) PROVE TablesOK'
    BY <2>3 DEF RejectOutside
  <2>4. ASSUME NEW ok \in BOOLEAN, ServerReadUdp(ok) PROVE TablesOK'
    BY <2>4 DEF ServerReadUdp
  <2>5. ASSUME NEW s \in Sessions, NEW ok \in BOOLEAN, AcceptOutside(s, ok) PROVE TablesOK'
    BY <2>5 DEF AcceptOutside
  <2>6. ASSUME NEW id \in ConnIds, NEW ok \in BOOLEAN, ReadOutside(id, ok) \/ ReadOutsideEnd(id, ok)
        PROVE  TablesOK'
    BY <2>6 DEF ReadOutside, ReadOutsideEnd, ServerRemove
  <2>7. ASSUME NEW wrote \in BOOLEAN, NEW ok \in BOOLEAN, ServerTcpData(wrote, ok) PROVE TablesOK'
    BY <2>7 DEF ServerTcpData, ServerRemove
  <2> QED BY <1>3, <2>1, <2>2, <2>3, <2>4, <2>5, <2>6, <2>7 DEF Server
<1>4. CASE Client
  <2>1. CASE Connect \/ ClientUdpPacket \/ ClientTunnelEnd
    BY <2>1 DEF Connect, ClientUdpPacket, ClientTunnelEnd
  <2>2. CASE ConnectFails \/ ClientTcpClose
    BY <2>2 DEF ConnectFails, ClientStops, ClientTcpClose, ClientRemove
  <2>3. ASSUME NEW ok \in BOOLEAN, ClientReadUdp(ok) PROVE TablesOK'
    BY <2>3 DEF ClientReadUdp
  <2>4. ASSUME NEW connected \in BOOLEAN, NEW ok \in BOOLEAN, ClientTcpOpen(connected, ok)
        PROVE  TablesOK'
    <3>1. ClientHead(TCP_OPEN) /\ ClientPop /\ UNCHANGED serverConns
      BY <2>4 DEF ClientTcpOpen
    <3>2. ClientMsg.session \in Sessions
      <4>1. ClientMsg \in Carried(MaxOut) /\ ClientMsg.type = TCP_OPEN
        BY <3>1, ClientHeadWire DEF TCP_OPEN
      <4> QED BY <4>1 DEF Carried, TCP_OPEN, UDP_PACKET
    <3>3. UNCHANGED clientConns \/ clientConns' = [clientConns EXCEPT ![ClientMsg.conn_id] = ClientMsg.session]
      BY <2>4 DEF ClientTcpOpen
    <3> QED BY <3>1, <3>2, <3>3
  <2>5. ASSUME NEW wrote \in BOOLEAN, NEW ok \in BOOLEAN, ClientTcpData(wrote, ok) PROVE TablesOK'
    BY <2>5 DEF ClientTcpData, ClientRemove
  <2>6. ASSUME NEW id \in ConnIds, NEW ok \in BOOLEAN, ReadDest(id, ok) \/ ReadDestEnd(id, ok)
        PROVE  TablesOK'
    BY <2>6 DEF ReadDest, ReadDestEnd, ClientRemove
  <2> QED BY <1>4, <2>1, <2>2, <2>3, <2>4, <2>5, <2>6 DEF Client
<1>5. CASE FaultStep
  BY <1>5 DEF FaultStep, Break, ServerSigpipe, ClientSigpipe, KillServer, KillClient, StartServer,
       StartClient, ServerStops, ClientStops
<1> QED BY <1>2, <1>3, <1>4, <1>5 DEF InStep

peerVars == <<outsideVars, destVars>>

LEMMA PeersKept == ASSUME PeersOK, UNCHANGED peerVars PROVE PeersOK'
BY DEF PeersOK, peerVars, outsideVars, destVars

\* Connections leave the listen queue, nothing else changes for the peers.
LEMMA QueueShrinks ==
  ASSUME PeersOK, queued' \subseteq queued, UNCHANGED <<outside, outSent, outRead, outGot, destVars>>
  PROVE  PeersOK'
BY DEF PeersOK, destVars

LEMMA PeersAlone ==
  ASSUME PeersOK, NEW s \in Sessions,
         OutsideConnect(s) \/ OutsideSend(s) \/ DestSend(s)
  PROVE  PeersOK'
<1> USE DEF PeersOK, PeerStates, outsideVars, destVars
<1>2. CASE OutsideConnect(s)
  BY <1>2 DEF OutsideConnect
<1>3. CASE OutsideSend(s)
  <2>1. outSent' = [outSent EXCEPT ![s] = outSent[s] + 1] /\ outSent[s] + 1 \in 0 .. MaxOut
        /\ UNCHANGED <<outside, queued, outRead, outGot, destVars>>
    BY <1>3, LimitsAssumption DEF OutsideSend
  <2>2. \A r \in Sessions : outRead[r] <= outSent'[r]
    <3> TAKE r \in Sessions
    <3>1. outRead[r] \in Int /\ outSent[r] \in Int /\ outRead[r] <= outSent[r]
      OBVIOUS
    <3>2. outSent'[r] = outSent[r] \/ outSent'[r] = outSent[r] + 1
      BY <2>1
    <3> QED BY <3>1, <3>2
  <2>3. outSent' \in [Sessions -> 0 .. MaxOut]
    BY <2>1
  <2> QED BY <2>1, <2>2, <2>3
<1>4. CASE DestSend(s)
  <2>1. destSent' = [destSent EXCEPT ![s] = destSent[s] + 1] /\ destSent[s] + 1 \in 0 .. MaxDest
        /\ UNCHANGED <<outsideVars, dest, destRead, destGot>>
    BY <1>4, LimitsAssumption DEF DestSend
  <2>2. \A r \in Sessions : destRead[r] <= destSent'[r]
    <3> TAKE r \in Sessions
    <3>1. destRead[r] \in Int /\ destSent[r] \in Int /\ destRead[r] <= destSent[r]
      OBVIOUS
    <3>2. destSent'[r] = destSent[r] \/ destSent'[r] = destSent[r] + 1
      BY <2>1
    <3> QED BY <3>1, <3>2
  <2>3. destSent' \in [Sessions -> 0 .. MaxDest]
    BY <2>1
  <2> QED BY <2>1, <2>2, <2>3
<1> QED BY <1>2, <1>3, <1>4

LEMMA PeersPeers ==
  ASSUME PeersOK, NEW s \in Sessions, NEW how \in Endings, OutsideEnds(s, how) \/ DestEnds(s, how)
  PROVE  PeersOK'
<1> USE DEF PeersOK, PeerStates, outsideVars, destVars
<1>1. how \in Ended
  BY EndingsAssumption
<1>5. CASE OutsideEnds(s, how)
  <2>1. /\ outside' = [outside EXCEPT ![s] = how]
        /\ UNCHANGED <<queued, outSent, outRead, outGot, destVars>>
    BY <1>5 DEF OutsideEnds
  <2>2. \A r \in queued : outside'[r] # "idle"
    BY <1>1, <2>1 DEF Ended
  <2>3. outside' \in [Sessions -> PeerStates]
    BY <1>1, <2>1
  <2> QED BY <2>1, <2>2, <2>3
<1>6. CASE DestEnds(s, how)
  <2>1. /\ dest' = [dest EXCEPT ![s] = how]
        /\ UNCHANGED <<outsideVars, destSent, destRead, destGot>>
    BY <1>6 DEF DestEnds
  <2> QED BY <1>1, <2>1
<1> QED BY <1>5, <1>6

LEMMA PeersReadOutside ==
  ASSUME TypeInv, NEW id \in ConnIds, NEW ok \in BOOLEAN, ReadOutside(id, ok) PROVE PeersOK'
<1> DEFINE s == serverConns[id]
<1>1. /\ outRead' = [outRead EXCEPT ![s] = outRead[s] + 1] /\ outRead[s] < outSent[s]
      /\ UNCHANGED <<outside, queued, outSent, outGot, destVars>> /\ s # None
  BY DEF ReadOutside, ServerHas
<1>2. s \in Sessions /\ PeersOK
  BY <1>1 DEF TypeInv, TablesOK
<1> HIDE DEF s
<1>3. outRead[s] + 1 \in 0 .. MaxOut /\ outRead[s] + 1 <= outSent[s]
  BY <1>1, <1>2, LimitsAssumption DEF PeersOK
<1>4. outRead' \in [Sessions -> 0 .. MaxOut]
      /\ \A r \in Sessions : outRead'[r] = IF r = s THEN outRead[s] + 1 ELSE outRead[r]
  BY <1>1, <1>2, <1>3 DEF PeersOK
<1>5. \A r \in Sessions : outRead'[r] <= outSent[r]
  BY <1>2, <1>3, <1>4 DEF PeersOK
<1> QED BY <1>1, <1>2, <1>4, <1>5 DEF PeersOK, destVars

LEMMA PeersReadDest ==
  ASSUME TypeInv, NEW id \in ConnIds, NEW ok \in BOOLEAN, ReadDest(id, ok) PROVE PeersOK'
<1> DEFINE s == clientConns[id]
<1>1. /\ destRead' = [destRead EXCEPT ![s] = destRead[s] + 1] /\ destRead[s] < destSent[s]
      /\ UNCHANGED <<outsideVars, dest, destSent, destGot>> /\ s # None
  BY DEF ReadDest, ClientHas
<1>2. s \in Sessions /\ PeersOK
  BY <1>1 DEF TypeInv, TablesOK
<1> HIDE DEF s
<1>3. destRead[s] + 1 \in 0 .. MaxDest /\ destRead[s] + 1 <= destSent[s]
  BY <1>1, <1>2, LimitsAssumption DEF PeersOK
<1>4. destRead' \in [Sessions -> 0 .. MaxDest]
      /\ \A r \in Sessions : destRead'[r] = IF r = s THEN destRead[s] + 1 ELSE destRead[r]
  BY <1>1, <1>2, <1>3 DEF PeersOK
<1>5. \A r \in Sessions : destRead'[r] <= destSent[r]
  BY <1>2, <1>3, <1>4 DEF PeersOK
<1> QED BY <1>1, <1>2, <1>4, <1>5 DEF PeersOK, outsideVars

\* What is delivered: one item, to the session the table names.
LEMMA ServerDelivers ==
  ASSUME TypeInv, NEW wrote \in BOOLEAN, NEW ok \in BOOLEAN, ServerTcpData(wrote, ok)
  PROVE  /\ UNCHANGED <<outside, queued, outSent, outRead, destVars>>
         /\ outGot' \in [Sessions -> Seq(Sessions \X (1 .. MaxDest))]
         /\ \/ UNCHANGED outGot
            \/ LET s == serverConns[ServerMsg.conn_id] IN
               /\ s \in Sessions /\ ServerMsg.conn_id \in ConnIds
               /\ Known(ServerMsg.conn_id, s) /\ Known(ServerMsg.conn_id, ServerMsg.session)
               /\ ServerMsg.session \in Sessions
               /\ outGot' = [outGot EXCEPT ![s] = Append(@, <<ServerMsg.session, ServerMsg.item>>)]
<1> DEFINE s == serverConns[ServerMsg.conn_id]
           e == <<ServerMsg.session, ServerMsg.item>>
<1>1. /\ ServerHead(TCP_DATA) /\ ServerPop /\ UNCHANGED <<outside, queued, outSent, outRead, destVars>>
      /\ \/ UNCHANGED outGot
         \/ serverConns[ServerMsg.conn_id] # None /\ outGot' = [outGot EXCEPT ![s] = Append(@, e)]
  BY DEF ServerTcpData, ServerHas
<1>2. /\ ServerMsg \in Carried(MaxDest) /\ ServerMsg.type = TCP_DATA
      /\ serverTunnel \in Tunnels /\ ServerMsg \in Range(toServer[serverTunnel])
  BY <1>1, ServerHeadWire DEF TCP_DATA
<1>3. /\ ServerMsg.conn_id \in ConnIds /\ ServerMsg.session \in Sessions
      /\ Known(ServerMsg.conn_id, ServerMsg.session) /\ ServerMsg.item \in 1 .. MaxDest
  BY <1>2, MessageKnown DEF Carried, TCP_DATA, UDP_PACKET
<1>4. outGot \in [Sessions -> Seq(Sessions \X (1 .. MaxDest))]
  BY DEF TypeInv, PeersOK
<1>5. CASE UNCHANGED outGot
  BY <1>1, <1>4, <1>5
<1>6. CASE s # None /\ outGot' = [outGot EXCEPT ![s] = Append(@, e)]
  <2>1. s \in Sessions /\ Known(ServerMsg.conn_id, s)
    BY <1>3, <1>6 DEF TypeInv, TablesOK, Known
  <2>2. e \in Sessions \X (1 .. MaxDest)
    BY <1>3
  <2> HIDE DEF e
  <2>3. outGot[s] \in Seq(Sessions \X (1 .. MaxDest))
    BY <1>4, <2>1
  <2>4. Append(outGot[s], e) \in Seq(Sessions \X (1 .. MaxDest))
    BY <2>2, <2>3, AppendProperties
  <2>5. outGot' \in [Sessions -> Seq(Sessions \X (1 .. MaxDest))]
    BY <1>4, <1>6, <2>1, <2>4
  <2> QED BY <1>1, <1>3, <1>6, <2>1, <2>5 DEF e
<1> QED BY <1>1, <1>5, <1>6

LEMMA ClientDelivers ==
  ASSUME TypeInv, NEW wrote \in BOOLEAN, NEW ok \in BOOLEAN, ClientTcpData(wrote, ok)
  PROVE  /\ UNCHANGED <<outsideVars, dest, destSent, destRead>>
         /\ destGot' \in [Sessions -> Seq(Sessions \X (1 .. MaxOut))]
         /\ \/ UNCHANGED destGot
            \/ LET s == clientConns[ClientMsg.conn_id] IN
               /\ s \in Sessions /\ ClientMsg.conn_id \in ConnIds
               /\ Known(ClientMsg.conn_id, s) /\ Known(ClientMsg.conn_id, ClientMsg.session)
               /\ ClientMsg.session \in Sessions
               /\ destGot' = [destGot EXCEPT ![s] = Append(@, <<ClientMsg.session, ClientMsg.item>>)]
<1> DEFINE s == clientConns[ClientMsg.conn_id]
           e == <<ClientMsg.session, ClientMsg.item>>
<1>1. /\ ClientHead(TCP_DATA) /\ ClientPop /\ UNCHANGED <<outsideVars, dest, destSent, destRead>>
      /\ \/ UNCHANGED destGot
         \/ clientConns[ClientMsg.conn_id] # None /\ destGot' = [destGot EXCEPT ![s] = Append(@, e)]
  BY DEF ClientTcpData, ClientHas
<1>2. /\ ClientMsg \in Carried(MaxOut) /\ ClientMsg.type = TCP_DATA
      /\ ClientMsg \in Range(toClient)
  BY <1>1, ClientHeadWire DEF TCP_DATA
<1>3. /\ ClientMsg.conn_id \in ConnIds /\ ClientMsg.session \in Sessions
      /\ Known(ClientMsg.conn_id, ClientMsg.session) /\ ClientMsg.item \in 1 .. MaxOut
  BY <1>2, MessageKnown DEF Carried, TCP_DATA, UDP_PACKET
<1>4. destGot \in [Sessions -> Seq(Sessions \X (1 .. MaxOut))]
  BY DEF TypeInv, PeersOK
<1>5. CASE UNCHANGED destGot
  BY <1>1, <1>4, <1>5
<1>6. CASE s # None /\ destGot' = [destGot EXCEPT ![s] = Append(@, e)]
  <2>1. s \in Sessions /\ Known(ClientMsg.conn_id, s)
    BY <1>3, <1>6 DEF TypeInv, TablesOK, Known
  <2>2. e \in Sessions \X (1 .. MaxOut)
    BY <1>3
  <2> HIDE DEF e
  <2>3. destGot[s] \in Seq(Sessions \X (1 .. MaxOut))
    BY <1>4, <2>1
  <2>4. Append(destGot[s], e) \in Seq(Sessions \X (1 .. MaxOut))
    BY <2>2, <2>3, AppendProperties
  <2>5. destGot' \in [Sessions -> Seq(Sessions \X (1 .. MaxOut))]
    BY <1>4, <1>6, <2>1, <2>4
  <2> QED BY <1>1, <1>3, <1>6, <2>1, <2>5 DEF e
<1> QED BY <1>1, <1>5, <1>6

LEMMA PeersOpen ==
  ASSUME TypeInv, NEW connected \in BOOLEAN, NEW ok \in BOOLEAN, ClientTcpOpen(connected, ok)
  PROVE  PeersOK'
<1>1. /\ UNCHANGED <<outsideVars, destSent, destRead, destGot>>
      /\ UNCHANGED dest \/ dest' = [dest EXCEPT ![ClientMsg.session] = "up"]
  BY DEF ClientTcpOpen
<1>2. PeersOK
  BY DEF TypeInv
<1> QED BY <1>1, <1>2 DEF PeersOK, PeerStates, outsideVars

LEMMA PeersStep == ASSUME TypeInv, InStep PROVE PeersOK'
<1>1. PeersOK
  BY DEF TypeInv
<1>2. CASE Peers
  <2>1. PICK s \in Sessions : \/ OutsideConnect(s) \/ OutsideSend(s) \/ DestSend(s)
                              \/ \E how \in Endings : OutsideEnds(s, how) \/ DestEnds(s, how)
    BY <1>2 DEF Peers
  <2>2. CASE \E how \in Endings : OutsideEnds(s, how) \/ DestEnds(s, how)
    BY <1>1, <2>2, PeersPeers
  <2>3. CASE OutsideConnect(s) \/ OutsideSend(s) \/ DestSend(s)
    BY <1>1, <2>3, PeersAlone
  <2> QED BY <2>1, <2>2, <2>3
<1>3. CASE Server
  <2>1. CASE AcceptTunnel \/ ServerUdpPacket \/ ServerTunnelEnd \/ ServerTcpClose
    BY <1>1, <2>1, PeersKept DEF AcceptTunnel, ServerUdpPacket, ServerTunnelEnd, ServerTcpClose, peerVars
  <2>2. ASSUME NEW s \in Sessions, RejectOutside(s) PROVE PeersOK'
    BY <1>1, <2>2, QueueShrinks DEF RejectOutside
  <2>3. ASSUME NEW ok \in BOOLEAN, ServerReadUdp(ok) PROVE PeersOK'
    BY <1>1, <2>3, PeersKept DEF ServerReadUdp, peerVars
  <2>4. ASSUME NEW s \in Sessions, NEW ok \in BOOLEAN, AcceptOutside(s, ok) PROVE PeersOK'
    BY <1>1, <2>4, QueueShrinks DEF AcceptOutside
  <2>5. ASSUME NEW id \in ConnIds, NEW ok \in BOOLEAN, ReadOutsideEnd(id, ok) PROVE PeersOK'
    BY <1>1, <2>5, PeersKept DEF ReadOutsideEnd, peerVars
  <2>6. ASSUME NEW wrote \in BOOLEAN, NEW ok \in BOOLEAN, ServerTcpData(wrote, ok) PROVE PeersOK'
    <3>1. /\ UNCHANGED <<outside, queued, outSent, outRead, destVars>>
          /\ outGot' \in [Sessions -> Seq(Sessions \X (1 .. MaxDest))]
      BY <2>6, ServerDelivers
    <3> QED BY <1>1, <3>1 DEF PeersOK, destVars
  <2> QED BY <1>3, <2>1, <2>2, <2>3, <2>4, <2>5, <2>6, PeersReadOutside DEF Server
<1>4. CASE Client
  <2>1. CASE Connect \/ ConnectFails \/ ClientTcpClose \/ ClientUdpPacket \/ ClientTunnelEnd
    BY <1>1, <2>1, PeersKept
       DEF Connect, ConnectFails, ClientTcpClose, ClientUdpPacket, ClientTunnelEnd, peerVars
  <2>2. ASSUME NEW ok \in BOOLEAN, ClientReadUdp(ok) PROVE PeersOK'
    BY <1>1, <2>2, PeersKept DEF ClientReadUdp, peerVars
  <2>3. ASSUME NEW wrote \in BOOLEAN, NEW ok \in BOOLEAN, ClientTcpData(wrote, ok) PROVE PeersOK'
    <3>1. /\ UNCHANGED <<outsideVars, dest, destSent, destRead>>
          /\ destGot' \in [Sessions -> Seq(Sessions \X (1 .. MaxOut))]
      BY <2>3, ClientDelivers
    <3> QED BY <1>1, <3>1 DEF PeersOK, outsideVars
  <2>4. ASSUME NEW id \in ConnIds, NEW ok \in BOOLEAN, ReadDestEnd(id, ok) PROVE PeersOK'
    BY <1>1, <2>4, PeersKept DEF ReadDestEnd, peerVars
  <2> QED BY <1>4, <2>1, <2>2, <2>3, <2>4, PeersOpen, PeersReadDest DEF Client
<1>5. CASE FaultStep
  <2>1. CASE Break \/ ClientSigpipe \/ KillClient \/ StartServer \/ StartClient
    BY <1>1, <2>1, PeersKept DEF Break, ClientSigpipe, KillClient, StartServer, StartClient, peerVars
  <2>2. CASE ServerSigpipe \/ KillServer
    <3>1. queued' = {} /\ UNCHANGED <<outside, outSent, outRead, outGot, destVars>>
      BY <2>2 DEF ServerSigpipe, KillServer, ServerStops
    <3> QED BY <1>1, <3>1, QueueShrinks
  <2> QED BY <1>5, <2>1, <2>2 DEF FaultStep
<1> QED BY <1>2, <1>3, <1>4, <1>5 DEF InStep

\* Fewer wait, or the same: the numbers left are enough.
LEMMA FewerWait ==
  ASSUME IdsOK, NEW W, W \subseteq Waiting
  PROVE  /\ Cardinality(W) \in Nat /\ Cardinality(Waiting) \in Nat /\ Cardinality(Sessions) \in Nat
         /\ Cardinality(W) <= Cardinality(Waiting) /\ Cardinality(Waiting) <= Cardinality(Sessions)
         /\ next_conn_id + Cardinality(W) <= Cardinality(Sessions) + 1
<1>1. IsFiniteSet(Sessions) /\ Waiting \subseteq Sessions
  BY SessionsAssumption DEF Waiting
<1>2. /\ IsFiniteSet(Waiting) /\ Cardinality(Waiting) <= Cardinality(Sessions)
      /\ IsFiniteSet(W) /\ Cardinality(W) <= Cardinality(Waiting)
  BY <1>1, FS_Subset
<1>3. Cardinality(W) \in Nat /\ Cardinality(Waiting) \in Nat /\ Cardinality(Sessions) \in Nat
  BY <1>1, <1>2, FS_CardinalityType
<1> QED BY <1>2, <1>3 DEF IdsOK

LEMMA IdsKept ==
  ASSUME IdsOK, UNCHANGED next_conn_id, Waiting' \subseteq Waiting
  PROVE  IdsOK'
<1> DEFINE W == Waiting'
<1>1. W \subseteq Waiting
  OBVIOUS
<1> HIDE DEF W
<1>2. next_conn_id + Cardinality(W) <= Cardinality(Sessions) + 1
  BY <1>1, FewerWait
<1>3. next_conn_id' = next_conn_id /\ next_conn_id \in Nat \ {0}
  BY DEF IdsOK
<1>4. next_conn_id' + Cardinality(W) <= Cardinality(Sessions) + 1
  BY <1>2, <1>3
<1> QED BY <1>3, <1>4 DEF IdsOK, W

\* A number is given to a session, which waits no more.
LEMMA IdsAccept ==
  ASSUME TypeInv, NEW s \in Sessions, NEW ok \in BOOLEAN, AcceptOutside(s, ok)
  PROVE  IdsOK'
<1>1. /\ s \in queued /\ queued' = queued \ {s} /\ next_conn_id' = next_conn_id + 1
      /\ UNCHANGED outside
  BY DEF AcceptOutside
<1>2. s \in Waiting /\ Waiting' = Waiting \ {s} /\ IdsOK
  BY <1>1 DEF Waiting, TypeInv, PeersOK
<1>3. /\ Cardinality(Waiting) \in Nat /\ Cardinality(Sessions) \in Nat
      /\ Cardinality(Waiting \ {s}) = Cardinality(Waiting) - 1
  BY <1>2, NumberLeft
<1>4. next_conn_id \in Nat \ {0} /\ next_conn_id + Cardinality(Waiting) <= Cardinality(Sessions) + 1
  BY <1>2 DEF IdsOK
<1> DEFINE W == Waiting'
           n == next_conn_id'
<1>5. W = Waiting \ {s} /\ n = next_conn_id + 1
  BY <1>1, <1>2
<1> HIDE DEF W, n
<1>6. n \in Nat \ {0} /\ n + Cardinality(W) <= Cardinality(Sessions) + 1
  BY <1>3, <1>4, <1>5
<1> QED BY <1>6 DEF IdsOK, W, n

\* A new process has all its numbers.
LEMMA IdsStart == ASSUME TypeInv, StartServer PROVE IdsOK'
<1>1. next_conn_id' = 1 /\ UNCHANGED <<outside, queued>>
  BY DEF StartServer, outsideVars
<1>2. Waiting' = Waiting
  BY <1>1 DEF Waiting
<1>3. Cardinality(Waiting) \in Nat /\ Cardinality(Sessions) \in Nat
      /\ Cardinality(Waiting) <= Cardinality(Sessions)
  BY FewerWait DEF TypeInv
<1>4. 1 + Cardinality(Waiting) <= Cardinality(Sessions) + 1
  BY <1>3
<1> QED BY <1>1, <1>2, <1>4 DEF IdsOK

LEMMA IdsStep == ASSUME TypeInv, InStep PROVE IdsOK'
<1>1. IdsOK
  BY DEF TypeInv
<1>2. ASSUME UNCHANGED next_conn_id, UNCHANGED outside, queued' \subseteq queued PROVE IdsOK'
  BY <1>1, <1>2, IdsKept DEF Waiting
<1>3. CASE Peers
  <2>1. PICK s \in Sessions : \/ OutsideConnect(s) \/ OutsideSend(s) \/ DestSend(s)
                              \/ \E how \in Endings : OutsideEnds(s, how) \/ DestEnds(s, how)
    BY <1>3 DEF Peers
  <2>2. CASE OutsideConnect(s)
    <3>1. UNCHANGED next_conn_id /\ outside[s] = "idle" /\ queued' = queued \cup {s}
          /\ outside' = [outside EXCEPT ![s] = "up"]
      BY <2>2 DEF OutsideConnect, serverVars
    <3>2. \A r \in Sessions : r = s \/ (outside'[r] = "idle" => outside[r] = "idle")
      BY <3>1 DEF TypeInv, PeersOK
    <3>3. Waiting' \subseteq Waiting
      BY <3>1, <3>2 DEF Waiting
    <3> QED BY <1>1, <3>1, <3>3, IdsKept
  <2>3. CASE OutsideSend(s) \/ DestSend(s)
    BY <1>2, <2>3 DEF OutsideSend, DestSend, serverVars, outsideVars
  <2>4. ASSUME NEW how \in Endings, OutsideEnds(s, how) PROVE IdsOK'
    <3>1. UNCHANGED <<next_conn_id, queued>> /\ how # "idle"
          /\ outside' = [outside EXCEPT ![s] = how]
      BY <2>4, EndingsAssumption DEF OutsideEnds, serverVars, Ended
    <3>2. \A r \in Sessions : outside'[r] = "idle" => outside[r] = "idle"
      BY <3>1 DEF TypeInv, PeersOK
    <3>3. Waiting' \subseteq Waiting
      BY <3>1, <3>2 DEF Waiting
    <3> QED BY <1>1, <3>1, <3>3, IdsKept
  <2>5. ASSUME NEW how \in Endings, DestEnds(s, how) PROVE IdsOK'
    BY <1>2, <2>5 DEF DestEnds, serverVars, outsideVars
  <2> QED BY <2>1, <2>2, <2>3, <2>4, <2>5
<1>4. CASE Server
  <2>1. CASE AcceptTunnel \/ ServerTcpClose \/ ServerUdpPacket \/ ServerTunnelEnd
    BY <1>2, <2>1 DEF AcceptTunnel, ServerTcpClose, ServerUdpPacket, ServerTunnelEnd, serverVars, outsideVars
  <2>2. ASSUME NEW s \in Sessions, RejectOutside(s) PROVE IdsOK'
    BY <1>2, <2>2 DEF RejectOutside, serverVars
  <2>3. ASSUME NEW ok \in BOOLEAN, ServerReadUdp(ok) PROVE IdsOK'
    BY <1>2, <2>3 DEF ServerReadUdp, outsideVars
  <2>4. ASSUME NEW id \in ConnIds, NEW ok \in BOOLEAN, ReadOutside(id, ok) \/ ReadOutsideEnd(id, ok)
        PROVE  IdsOK'
    BY <1>2, <2>4 DEF ReadOutside, ReadOutsideEnd, outsideVars
  <2>5. ASSUME NEW wrote \in BOOLEAN, NEW ok \in BOOLEAN, ServerTcpData(wrote, ok) PROVE IdsOK'
    BY <1>2, <2>5 DEF ServerTcpData
  <2> QED BY <1>4, <2>1, <2>2, <2>3, <2>4, <2>5, IdsAccept DEF Server
<1>5. CASE Client
  <2>1. UNCHANGED <<outsideVars, serverVars>>
    BY <1>5 DEF Client, Connect, ConnectFails, ClientTcpClose, ClientUdpPacket, ClientTunnelEnd,
         ClientReadUdp, ClientTcpOpen, ClientTcpData, ReadDest, ReadDestEnd
  <2> QED BY <1>2, <2>1 DEF outsideVars, serverVars
<1>6. CASE FaultStep
  <2>1. CASE Break \/ ClientSigpipe \/ KillClient \/ StartClient
    BY <1>2, <2>1 DEF Break, ClientSigpipe, KillClient, StartClient, outsideVars, serverVars
  <2>2. CASE ServerSigpipe \/ KillServer
    BY <1>2, <2>2 DEF ServerSigpipe, KillServer, ServerStops
  <2> QED BY <1>6, <2>1, <2>2, IdsStart DEF FaultStep
<1> QED BY <1>3, <1>4, <1>5, <1>6 DEF InStep

-----------------------------------------------------------------------------
(* The invariant.                                                          *)

\* Whatever happens the messages are well formed, and only AcceptOutside gives a
\* number a new meaning.
LEMMA NewsStep ==
  ASSUME TypeInv, InStep
  PROVE  WireOK' /\ (NoNews \/ \E s \in Sessions, ok \in BOOLEAN : AcceptOutside(s, ok))
<1> DEFINE G == WireOK' /\ (NoNews \/ \E s \in Sessions, ok \in BOOLEAN : AcceptOutside(s, ok))
<1>1. ASSUME UNCHANGED <<toClient, toServer, serverConns, clientConns>> PROVE WireOK' /\ NoNews
  <2>1. TablesShrink
    BY <1>1 DEF TablesShrink
  <2> QED BY <1>1, <2>1, QuietWire
<1>2. CASE Peers
  <2>1. UNCHANGED <<toClient, toServer, serverConns, clientConns>>
    BY <1>2 DEF Peers, OutsideConnect, OutsideSend, OutsideEnds, DestSend, DestEnds, serverVars,
         clientVars, tunnelVars
  <2> QED BY <1>1, <2>1
<1>3. CASE Server
  <2>1. CASE AcceptTunnel \/ ServerTcpClose \/ ServerUdpPacket \/ ServerTunnelEnd
    BY <2>1, AcceptTunnelWire, ServerTcpCloseWire, ServerUdpPacketWire, ServerTunnelEndWire
  <2>2. ASSUME NEW s \in Sessions, RejectOutside(s) PROVE G
    BY <1>1, <2>2 DEF RejectOutside, serverVars, clientVars, tunnelVars
  <2>3. ASSUME NEW ok \in BOOLEAN, ServerReadUdp(ok) PROVE G
    BY <2>3, ServerReadUdpWire
  <2>4. ASSUME NEW s \in Sessions, NEW ok \in BOOLEAN, AcceptOutside(s, ok) PROVE G
    BY <2>4, AcceptOutsideWire
  <2>5. ASSUME NEW id \in ConnIds, NEW ok \in BOOLEAN, ReadOutside(id, ok) \/ ReadOutsideEnd(id, ok)
        PROVE  G
    BY <2>5, ReadOutsideWire, ReadOutsideEndWire
  <2>6. ASSUME NEW wrote \in BOOLEAN, NEW ok \in BOOLEAN, ServerTcpData(wrote, ok) PROVE G
    BY <2>6, ServerTcpDataWire
  <2> HIDE DEF G
  <2> QED BY <1>3, <2>1, <2>2, <2>3, <2>4, <2>5, <2>6 DEF Server, G
<1>4. CASE Client
  <2>1. CASE Connect \/ ConnectFails \/ ClientTcpClose \/ ClientUdpPacket \/ ClientTunnelEnd
    BY <2>1, ConnectWire, ConnectFailsWire, ClientTcpCloseWire, ClientUdpPacketWire, ClientTunnelEndWire
  <2>2. ASSUME NEW ok \in BOOLEAN, ClientReadUdp(ok) PROVE WireOK' /\ NoNews
    BY <2>2, ClientReadUdpWire
  <2>3. ASSUME NEW b \in BOOLEAN, NEW ok \in BOOLEAN, ClientTcpOpen(b, ok) \/ ClientTcpData(b, ok)
        PROVE  WireOK' /\ NoNews
    BY <2>3, ClientTcpOpenWire, ClientTcpDataWire
  <2>4. ASSUME NEW id \in ConnIds, NEW ok \in BOOLEAN, ReadDest(id, ok) \/ ReadDestEnd(id, ok)
        PROVE  WireOK' /\ NoNews
    BY <2>4, ReadDestWire, ReadDestEndWire
  <2> QED BY <1>4, <2>1, <2>2, <2>3, <2>4 DEF Client
<1>5. CASE FaultStep
  <2>1. CASE Break
    BY <2>1, BreakWire
  <2>2. CASE ServerSigpipe \/ KillServer
    BY <2>2, ServerEndsWire DEF ServerSigpipe, KillServer, clientVars
  <2>3. CASE ClientSigpipe \/ KillClient
    BY <2>3, ClientStopsWire DEF ClientSigpipe, KillClient, serverVars
  <2>4. CASE StartServer \/ StartClient
    BY <1>1, <2>4 DEF StartServer, StartClient, serverVars, clientVars, tunnelVars
  <2> QED BY <1>5, <2>1, <2>2, <2>3, <2>4 DEF FaultStep
<1> QED BY <1>2, <1>3, <1>4, <1>5 DEF InStep

-----------------------------------------------------------------------------
(* The reconstructors.                                                     *)

\* Only misreading changes misread.
LEMMA MisreadKept == ASSUME InStep PROVE UNCHANGED misread
<1> USE DEF readVars
<1>1. CASE Peers
  BY <1>1 DEF Peers, OutsideConnect, OutsideSend, OutsideEnds, DestSend, DestEnds
<1>2. CASE Server
  BY <1>2 DEF Server, AcceptTunnel, ServerTcpClose, ServerUdpPacket, ServerTunnelEnd, RejectOutside,
       ServerReadUdp, AcceptOutside, ReadOutside, ReadOutsideEnd, ServerTcpData
<1>3. CASE Client
  BY <1>3 DEF Client, Connect, ConnectFails, ClientTcpClose, ClientUdpPacket, ClientTunnelEnd,
       ClientReadUdp, ClientTcpOpen, ClientTcpData, ReadDest, ReadDestEnd
<1>4. CASE FaultStep
  BY <1>4 DEF FaultStep, Break, ServerSigpipe, ClientSigpipe, KillServer, KillClient, StartServer,
       StartClient
<1> QED BY <1>1, <1>2, <1>3, <1>4 DEF InStep

\* Before a message is misread every step is one of programs that are in step.
LEMMA InStepBefore == ASSUME Next, ~misread' PROVE InStep /\ ~misread
BY MisreadKept DEF Next, Misreads, ServerMisreads, ClientMisreads

LEMMA HalvesKept ==
  ASSUME HalvesOK, TunnelsOK, NEW q, NEW p, NEW t \in {clientTunnel, serverTunnel}
  PROVE  /\ \A h \in Halves(halfToClient, t, q, p) : h \subseteq 1 .. tunnels
         /\ \A h \in Halves(halfToServer, t, q, p) : h \subseteq 1 .. tunnels
<1>1. t = 0 \/ t \in 1 .. tunnels
  BY DEF TunnelsOK
<1> QED BY <1>1 DEF HalvesOK, Halves

LEMMA LosesHalves ==
  ASSUME HalvesOK, TunnelsOK
  PROVE  /\ LoseToClient => halfToClient' \subseteq 1 .. tunnels
         /\ LoseToServer => halfToServer' \subseteq 1 .. tunnels
         /\ CloseServerEnd(serverTunnel) =>
              halfToClient' \subseteq 1 .. tunnels /\ halfToServer' \subseteq 1 .. tunnels
         /\ CloseClientEnd => halfToServer' \subseteq 1 .. tunnels
         /\ LeaveLoop => halfToClient' \subseteq 1 .. tunnels /\ halfToServer' \subseteq 1 .. tunnels
         /\ ServerStops => halfToClient' \subseteq 1 .. tunnels /\ halfToServer' \subseteq 1 .. tunnels
         /\ \A phase : ClientStops(phase) =>
              halfToClient' \subseteq 1 .. tunnels /\ halfToServer' \subseteq 1 .. tunnels
<1>1. LoseToClient => halfToClient' \subseteq 1 .. tunnels
  BY HalvesKept DEF LoseToClient
<1>2. LoseToServer => halfToServer' \subseteq 1 .. tunnels
  BY HalvesKept DEF LoseToServer
<1>3. CloseServerEnd(serverTunnel) =>
        halfToClient' \subseteq 1 .. tunnels /\ halfToServer' \subseteq 1 .. tunnels
  BY <1>1, HalvesKept DEF CloseServerEnd, HalvesOK
<1>4. CloseClientEnd => halfToServer' \subseteq 1 .. tunnels
  BY <1>2 DEF CloseClientEnd, HalvesOK
<1>5. LeaveLoop => halfToClient' \subseteq 1 .. tunnels
  BY HalvesKept DEF LeaveLoop
<1> QED BY <1>1, <1>2, <1>3, <1>4, <1>5 DEF LeaveLoop, ServerStops, ClientStops

LEMMA HalvesStep == ASSUME TypeInv, InStep PROVE HalvesOK'
<1>1. HalvesOK /\ TunnelsOK
  BY DEF TypeInv
<1>2. misread' \in BOOLEAN
  BY <1>1, MisreadKept DEF HalvesOK
<1>3. tunnels \in Nat
  BY <1>1 DEF TunnelsOK
<1>4. SUFFICES /\ tunnels' \in {tunnels, tunnels + 1}
               /\ halfToClient' \subseteq 1 .. tunnels /\ halfToServer' \subseteq 1 .. tunnels
  BY <1>2, <1>3 DEF HalvesOK
<1>5. ASSUME UNCHANGED halves
      PROVE  halfToClient' \subseteq 1 .. tunnels /\ halfToServer' \subseteq 1 .. tunnels
  BY <1>1, <1>5 DEF HalvesOK, halves
<1> USE <1>5 DEF readVars, tunnelVars
<1>6. CASE Peers
  BY <1>6 DEF Peers, OutsideConnect, OutsideSend, OutsideEnds, DestSend, DestEnds
<1>7. CASE Server
  <2>1. CASE AcceptTunnel \/ ServerTunnelEnd
    BY <1>1, <2>1, LosesHalves DEF AcceptTunnel, ServerTunnelEnd
  <2>2. CASE ServerTcpClose \/ ServerUdpPacket
    BY <2>2 DEF ServerTcpClose, ServerUdpPacket
  <2>3. ASSUME NEW ok \in BOOLEAN, ServerReadUdp(ok)
        PROVE  /\ UNCHANGED tunnels
               /\ halfToClient' \subseteq 1 .. tunnels /\ halfToServer' \subseteq 1 .. tunnels
    BY <1>1, <2>3, LosesHalves DEF ServerReadUdp
  <2> QED
    BY <1>7, <2>1, <2>2, <2>3 DEF Server, RejectOutside, AcceptOutside, ReadOutside, ReadOutsideEnd, ServerTcpData
<1>8. CASE Client
  <2>1. CASE ConnectFails
    BY <1>1, <2>1, LosesHalves DEF ConnectFails
  <2>2. CASE Connect \/ ClientTcpClose \/ ClientUdpPacket
    BY <2>2 DEF Connect, ClientTcpClose, ClientUdpPacket
  <2>3. CASE ClientTunnelEnd
    BY <1>1, <2>3, LosesHalves DEF ClientTunnelEnd
  <2>4. ASSUME NEW ok \in BOOLEAN, NEW id \in ConnIds, ClientReadUdp(ok) \/ ReadDest(id, ok)
        PROVE  /\ UNCHANGED tunnels
               /\ halfToClient' \subseteq 1 .. tunnels /\ halfToServer' \subseteq 1 .. tunnels
    BY <1>1, <2>4, LosesHalves DEF ClientReadUdp, ReadDest
  <2>5. ASSUME NEW ok \in BOOLEAN, ClientReadUdp(ok)
        PROVE  /\ UNCHANGED tunnels
               /\ halfToClient' \subseteq 1 .. tunnels /\ halfToServer' \subseteq 1 .. tunnels
    BY <1>1, <2>5, LosesHalves DEF ClientReadUdp
  <2> QED BY <1>8, <2>1, <2>2, <2>3, <2>4, <2>5 DEF Client, ClientTcpOpen, ClientTcpData, ReadDestEnd
<1>9. CASE FaultStep
  BY <1>1, <1>9, LosesHalves DEF FaultStep, Break, ServerSigpipe, ClientSigpipe, KillServer, KillClient,
     StartServer, StartClient
<1> QED BY <1>6, <1>7, <1>8, <1>9 DEF InStep

\* What a reconstructor out of step makes of the bytes has the form of a message.
LEMMA MisreadingsWire ==
  ASSUME NEW max \in Nat, NEW q \in Seq(Carried(max)), q # <<>>, NEW types \in SUBSET {TCP_OPEN, TCP_CLOSE}
  PROVE  /\ Misreadings(types, max, q) \subseteq Seq(Carried(max))
         /\ \A id \in ConnIds, s \in Sessions :
              <<Message(TCP_OPEN, id, s, 0)>> \o Tail(q) \in Seq(Carried(max))
<1>1. Tail(q) \in Seq(Carried(max))
  BY TailRange
<1>2. ASSUME NEW m \in Carried(max) PROVE <<m>> \o Tail(q) \in Seq(Carried(max))
  BY <1>1, ConcatProperties
<1>3. \A type \in {TCP_OPEN, TCP_CLOSE}, id \in ConnIds, s \in Sessions :
        Message(type, id, s, 0) \in Carried(max)
  BY MessageCarried DEF TCP_OPEN, TCP_CLOSE, TCP_DATA
<1>4. \A id \in ConnIds, s \in Sessions, n \in 1 .. max : Message(TCP_DATA, id, s, n) \in Carried(max)
  BY MessageCarried DEF TCP_DATA
<1>5. Chance(types, max) \subseteq Carried(max)
  BY <1>3, <1>4 DEF Chance
<1>6. \A m \in Chance(types, max) : <<m>> \o Tail(q) \in Seq(Carried(max))
  BY <1>2, <1>5
<1>7. \A id \in ConnIds, s \in Sessions : <<Message(TCP_OPEN, id, s, 0)>> \o Tail(q) \in Seq(Carried(max))
  BY <1>2, <1>3, Zenon
<1> QED BY <1>1, <1>6, <1>7 DEF Misreadings

LEMMA MisreadsType == ASSUME TypeInv, Misreads PROVE TypeInv'
<1> USE DEF outsideVars, destVars, serverVars, clientVars, halves, boundVars
<1>1. TunnelsOK /\ WireOK /\ HalvesOK
  BY DEF TypeInv
<1>2. WireOK'
  <2>1. CASE ServerMisreads
    <3>1. serverTunnel \in Tunnels
      BY <1>1, <2>1, HeldTunnels DEF ServerMisreads
    <3>2. PICK q \in Misreadings({TCP_CLOSE}, MaxDest, toServer[serverTunnel]) :
            toServer' = [toServer EXCEPT ![serverTunnel] = q]
      BY <2>1 DEF ServerMisreads
    <3>3. q \in Seq(Carried(MaxDest))
      BY <1>1, <2>1, <3>1, MisreadingsWire, LimitsAssumption DEF ServerMisreads, WireOK
    <3> QED BY <1>1, <2>1, <3>2, <3>3 DEF ServerMisreads, WireOK
  <2>2. CASE ClientMisreads
    BY <1>1, <2>2, MisreadingsWire, LimitsAssumption DEF ClientMisreads, WireOK
  <2> QED BY <2>1, <2>2 DEF Misreads
<1>3. UNCHANGED <<outsideVars, destVars, serverVars, clientVars, tunnels, backlog, broken, halves, boundVars>>
      /\ misread' = TRUE
  BY DEF Misreads, ServerMisreads, ClientMisreads
<1>4. PeersOK'
  BY <1>3 DEF TypeInv, PeersOK
<1>5. TablesOK' /\ HalvesOK'
  BY <1>3 DEF TypeInv, TablesOK, HalvesOK
<1>6. IdsOK'
  BY <1>3 DEF TypeInv, IdsOK, Waiting
<1>7. TunnelsOK'
  BY <1>1, <1>3 DEF TunnelsOK, InLoop, ClientCut
<1> QED BY <1>2, <1>4, <1>5, <1>6, <1>7 DEF TypeInv

LEMMA TypeInit == ASSUME Init PROVE TypeInv
<1>1. /\ <<>> \in Seq(Carried(MaxOut)) /\ <<>> \in Seq(Carried(MaxDest))
      /\ <<>> \in Seq(Sessions \X (1 .. MaxDest)) /\ <<>> \in Seq(Sessions \X (1 .. MaxOut))
      /\ DOMAIN <<>> = {}
  BY EmptySeq
<1>2. WireOK
  BY <1>1 DEF Init, WireOK
<1>3. PeersOK
  BY <1>1, LimitsAssumption DEF Init, PeersOK, PeerStates
<1>4. TablesOK
  BY DEF Init, TablesOK, NoConns
<1>5. IdsOK
  <2>1. Waiting \subseteq Sessions /\ next_conn_id = 1
    BY DEF Waiting, Init
  <2>2. /\ Cardinality(Waiting) \in Nat /\ Cardinality(Sessions) \in Nat
        /\ Cardinality(Waiting) <= Cardinality(Sessions)
    BY <2>1, SessionsAssumption, FS_Subset, FS_CardinalityType
  <2> QED BY <2>1, <2>2 DEF IdsOK
<1>6. TunnelsOK
  <2>1. <<>> \in Seq(1 .. 0)
    BY EmptySeq
  <2> QED BY <1>1, <2>1, LimitsAssumption DEF Init, TunnelsOK, InLoop
<1>7. HalvesOK
  BY DEF Init, HalvesOK
<1> QED BY <1>2, <1>3, <1>4, <1>5, <1>6, <1>7 DEF TypeInv

LEMMA TypeStutter == ASSUME TypeInv, UNCHANGED vars PROVE TypeInv'
<1> USE DEF vars, outsideVars, destVars, serverVars, clientVars, tunnelVars, readVars, halves, boundVars
<1>1. WireOK'
  BY DEF TypeInv, WireOK
<1>2. PeersOK'
  BY DEF TypeInv, PeersOK
<1>3. TablesOK'
  BY DEF TypeInv, TablesOK
<1>4. IdsOK'
  BY DEF TypeInv, IdsOK, Waiting
<1>5. TunnelsOK'
  BY DEF TypeInv, TunnelsOK, InLoop, ClientCut
<1>6. HalvesOK'
  BY DEF TypeInv, HalvesOK
<1> QED BY <1>1, <1>2, <1>3, <1>4, <1>5, <1>6 DEF TypeInv

LEMMA TypeStep == ASSUME TypeInv, Next PROVE TypeInv'
<1>1. CASE InStep
  BY <1>1, NewsStep, PeersStep, TablesStep, IdsStep, TunnelsStep, HalvesStep DEF TypeInv
<1>2. CASE Misreads
  BY <1>2, MisreadsType
<1> QED BY <1>1, <1>2 DEF Next

LEMMA TypeInductive == Spec => []TypeInv
<1>1. Init => TypeInv
  BY TypeInit
<1>2. TypeInv /\ [Next]_vars => TypeInv'
  BY TypeStep, TypeStutter
<1> QED BY <1>1, <1>2, PTL DEF Spec

\* For any sessions, bounds and faults: every variable of the two programs, the peers and
\* the network stays in its type and its bounds. So there is a number for each connection
\* that waits, and a tunnel for each time the client connects.
THEOREM TypeCorrect == Spec => []TypeOK
<1>1. TypeInv => TypeOK
  <2> SUFFICES ASSUME TypeInv PROVE TypeOK
    OBVIOUS
  <2>1. \A s \in Sessions :
          /\ outSent[s] \in 0 .. MaxOut /\ outRead[s] \in 0 .. outSent[s]
          /\ destSent[s] \in 0 .. MaxDest /\ destRead[s] \in 0 .. destSent[s]
    BY LimitsAssumption DEF TypeInv, PeersOK
  <2>2. next_conn_id \in 1 .. Cardinality(Sessions) + 1
    <3>1. {} \subseteq Waiting /\ IdsOK
      BY DEF TypeInv
    <3>2. next_conn_id + Cardinality({}) <= Cardinality(Sessions) + 1 /\ Cardinality(Sessions) \in Nat
      BY <3>1, FewerWait
    <3> QED BY <3>1, <3>2, FS_EmptySet DEF IdsOK
  <2>3. TunnelsOK /\ tunnels \in Nat /\ tunnels <= MaxFaults + 1
    BY LimitsAssumption DEF TypeInv, TunnelsOK
  <2>4. 1 .. tunnels \subseteq Tunnels
    BY <2>3, LimitsAssumption DEF Tunnels
  <2>5. backlog \in Seq(Tunnels) /\ broken \subseteq Tunnels
    BY <2>3, <2>4, WiderSeq DEF TunnelsOK
  <2>6. tunnels \in Tunnels \cup {0} /\ serverTunnel \in Tunnels \cup {0}
        /\ clientTunnel \in Tunnels \cup {0} /\ (InLoop <=> clientTunnel # 0)
    BY <2>3, LimitsAssumption DEF Tunnels, TunnelsOK
  <2>7. /\ serverUp \in BOOLEAN /\ clientPhase \in {"connect", "loop", "dead", "gaveup"}
        /\ attempt \in 0 .. MaxAttempts /\ faults \in 0 .. MaxFaults /\ udp \in 0 .. MaxUdp
    BY <2>3 DEF TunnelsOK
  <2>8. halfToClient \subseteq Tunnels /\ halfToServer \subseteq Tunnels /\ misread \in BOOLEAN
    BY <2>4 DEF TypeInv, HalvesOK
  <2> QED BY <2>1, <2>2, <2>5, <2>6, <2>7, <2>8 DEF TypeOK, TypeInv, PeersOK, PeerStates, TablesOK
<1> QED BY <1>1, TypeInductive, PTL

-----------------------------------------------------------------------------
(* What a number stands for.                                               *)

\* A number stands for one session at most, and is one the server has given.
KnownOnce ==
  \A id \in ConnIds, s \in Sessions :
    Known(id, s) => id < next_conn_id /\ \A r \in Sessions : Known(id, r) => r = s

\* What a connection receives comes from its own session.
OwnOnly ==
  \A s \in Sessions :
    /\ \A i \in DOMAIN destGot[s] : destGot[s][i][1] = s
    /\ \A i \in DOMAIN outGot[s] : outGot[s][i][1] = s

LEMMA NumbersGrow ==
  ASSUME TypeInv, InStep, "startServer" \notin Faults
  PROVE  next_conn_id' = next_conn_id
         \/ (next_conn_id' = next_conn_id + 1 /\ \E s \in Sessions, ok \in BOOLEAN : AcceptOutside(s, ok))
<1> USE DEF serverVars
<1>1. CASE Peers
  BY <1>1 DEF Peers, OutsideConnect, OutsideSend, OutsideEnds, DestSend, DestEnds
<1>2. CASE Server
  BY <1>2 DEF Server, AcceptTunnel, ServerTcpClose, ServerUdpPacket, ServerTunnelEnd, RejectOutside,
       ServerReadUdp, AcceptOutside, ReadOutside, ReadOutsideEnd, ServerTcpData
<1>3. CASE Client
  BY <1>3 DEF Client, Connect, ConnectFails, ClientTcpClose, ClientUdpPacket, ClientTunnelEnd,
       ClientReadUdp, ClientTcpOpen, ClientTcpData, ReadDest, ReadDestEnd
<1>4. CASE FaultStep
  BY <1>4 DEF FaultStep, Break, ServerSigpipe, ClientSigpipe, KillServer, KillClient, StartServer,
       StartClient
<1> QED BY <1>1, <1>2, <1>3, <1>4 DEF InStep

LEMMA KnownStep ==
  ASSUME TypeInv, KnownOnce, InStep, "startServer" \notin Faults
  PROVE  KnownOnce'
<1>1. next_conn_id \in Nat /\ IdsOK
  BY DEF TypeInv, IdsOK
<1>2. ASSUME NEW s \in Sessions, NEW ok \in BOOLEAN, AcceptOutside(s, ok) PROVE KnownOnce'
  <2>1. /\ \A id \in ConnIds, r \in Sessions :
             Known(id, r)' => Known(id, r) \/ (id = next_conn_id /\ r = s)
        /\ next_conn_id' = next_conn_id + 1
    BY <1>2, AcceptOutsideWire DEF AcceptOutside
  <2>2. SUFFICES ASSUME NEW id \in ConnIds, NEW r \in Sessions, Known(id, r)'
                 PROVE  id < next_conn_id + 1 /\ \A q \in Sessions : Known(id, q)' => q = r
    BY <2>1 DEF KnownOnce
  <2>3. CASE id = next_conn_id
    <3>1. \A q \in Sessions : ~Known(id, q)
      BY <1>1, <2>3 DEF KnownOnce
    <3> QED BY <1>1, <2>1, <2>2, <2>3, <3>1
  <2>4. CASE id # next_conn_id
    <3>1. Known(id, r) /\ \A q \in Sessions : Known(id, q)' => Known(id, q)
      BY <2>1, <2>2, <2>4
    <3>2. id < next_conn_id /\ \A q \in Sessions : Known(id, q) => q = r
      BY <3>1 DEF KnownOnce
    <3>3. id \in Int
      BY DEF ConnIds
    <3> QED BY <1>1, <3>1, <3>2, <3>3
  <2> QED BY <2>3, <2>4
<1>3. CASE ~\E s \in Sessions, ok \in BOOLEAN : AcceptOutside(s, ok)
  <2>1. NoNews /\ next_conn_id' = next_conn_id
    BY <1>3, NewsStep, NumbersGrow
  <2> QED BY <2>1 DEF NoNews, KnownOnce
<1> QED BY <1>2, <1>3

\* An item of the session is added to what it received.
LEMMA OwnAdded ==
  ASSUME NEW max, NEW got \in [Sessions -> Seq(Sessions \X (1 .. max))], NEW s \in Sessions,
         NEW n \in 1 .. max, NEW new, new = [got EXCEPT ![s] = Append(@, <<s, n>>)],
         \A r \in Sessions : \A i \in DOMAIN got[r] : got[r][i][1] = r
  PROVE  \A r \in Sessions : \A i \in DOMAIN new[r] : new[r][i][1] = r
<1> TAKE r \in Sessions
<1>1. CASE r # s
  BY <1>1
<1>2. CASE r = s
  <2> DEFINE e == <<s, n>>
  <2>1. e \in Sessions \X (1 .. max) /\ e[1] = s
    OBVIOUS
  <2>2. new[s] = Append(got[s], e) /\ got[s] \in Seq(Sessions \X (1 .. max))
    OBVIOUS
  <2> HIDE DEF e
  <2>3. /\ Len(new[s]) = Len(got[s]) + 1 /\ Len(got[s]) \in Nat
        /\ DOMAIN new[s] = 1 .. Len(new[s]) /\ DOMAIN got[s] = 1 .. Len(got[s])
        /\ \A i \in 1 .. Len(got[s]) : new[s][i] = got[s][i]
        /\ new[s][Len(got[s]) + 1] = e
    BY <2>1, <2>2, AppendProperties, LenProperties
  <2>4. \A i \in DOMAIN new[s] : i \in DOMAIN got[s] \/ i = Len(got[s]) + 1
    BY <2>3
  <2> QED BY <1>2, <2>1, <2>3, <2>4
<1> QED BY <1>1, <1>2

\* Both ends of a delivery are known by the same number, hence the same.
LEMMA ExclusiveStep ==
  ASSUME TypeInv, KnownOnce, OwnOnly, InStep
  PROVE  OwnOnly'
<1>1. PeersOK
  BY DEF TypeInv
<1>2. ASSUME UNCHANGED <<outGot, destGot>> PROVE OwnOnly'
  BY <1>2 DEF OwnOnly
<1>4. ASSUME NEW wrote \in BOOLEAN, NEW ok \in BOOLEAN, ServerTcpData(wrote, ok) PROVE OwnOnly'
  <2> DEFINE s == serverConns[ServerMsg.conn_id]
  <2>1. CASE UNCHANGED outGot
    BY <1>2, <1>4, <2>1 DEF ServerTcpData, destVars
  <2>2. CASE ~UNCHANGED outGot
    <3>1. /\ UNCHANGED destGot /\ s \in Sessions /\ s = ServerMsg.session
          /\ outGot' = [outGot EXCEPT ![s] = Append(@, <<s, ServerMsg.item>>)]
      BY <1>4, <2>2, ServerDelivers DEF KnownOnce, destVars
    <3>2. ServerMsg.item \in 1 .. MaxDest
      <4>1. ServerMsg \in Carried(MaxDest) /\ ServerMsg.type = TCP_DATA
        BY <1>4, ServerHeadWire DEF ServerTcpData, TCP_DATA
      <4> QED BY <4>1 DEF Carried
    <3> HIDE DEF s
    <3>3. /\ outGot \in [Sessions -> Seq(Sessions \X (1 .. MaxDest))]
          /\ \A r \in Sessions : \A i \in DOMAIN outGot[r] : outGot[r][i][1] = r
      BY <1>1 DEF PeersOK, OwnOnly
    <3>4. \A r \in Sessions : \A i \in DOMAIN outGot'[r] : outGot'[r][i][1] = r
      BY ONLY <3>1, <3>2, <3>3, OwnAdded
    <3> QED BY <3>1, <3>4 DEF OwnOnly
  <2> QED BY <2>1, <2>2
<1>5. ASSUME NEW wrote \in BOOLEAN, NEW ok \in BOOLEAN, ClientTcpData(wrote, ok) PROVE OwnOnly'
  <2> DEFINE s == clientConns[ClientMsg.conn_id]
  <2>1. CASE UNCHANGED destGot
    BY <1>2, <1>5, <2>1 DEF ClientTcpData, outsideVars
  <2>2. CASE ~UNCHANGED destGot
    <3>1. /\ UNCHANGED outGot /\ s \in Sessions /\ s = ClientMsg.session
          /\ destGot' = [destGot EXCEPT ![s] = Append(@, <<s, ClientMsg.item>>)]
      BY <1>5, <2>2, ClientDelivers DEF KnownOnce, outsideVars
    <3>2. ClientMsg.item \in 1 .. MaxOut
      <4>1. ClientMsg \in Carried(MaxOut) /\ ClientMsg.type = TCP_DATA
        BY <1>5, ClientHeadWire DEF ClientTcpData, TCP_DATA
      <4> QED BY <4>1 DEF Carried
    <3> HIDE DEF s
    <3>3. /\ destGot \in [Sessions -> Seq(Sessions \X (1 .. MaxOut))]
          /\ \A r \in Sessions : \A i \in DOMAIN destGot[r] : destGot[r][i][1] = r
      BY <1>1 DEF PeersOK, OwnOnly
    <3>4. \A r \in Sessions : \A i \in DOMAIN destGot'[r] : destGot'[r][i][1] = r
      BY ONLY <3>1, <3>2, <3>3, OwnAdded
    <3> QED BY <3>1, <3>4 DEF OwnOnly
  <2> QED BY <2>1, <2>2
<1>6. CASE UNCHANGED <<outGot, destGot>>
  BY <1>2, <1>6
<1> USE DEF outsideVars, destVars
<1>7. CASE Peers
  BY <1>2, <1>7 DEF Peers, OutsideConnect, OutsideSend, OutsideEnds, DestSend, DestEnds
<1>8. CASE Server
  BY <1>2, <1>4, <1>8 DEF Server, AcceptTunnel, ServerTcpClose, ServerUdpPacket, ServerTunnelEnd,
       RejectOutside, ServerReadUdp, AcceptOutside, ReadOutside, ReadOutsideEnd
<1>9. CASE Client
  BY <1>2, <1>5, <1>9 DEF Client, Connect, ConnectFails, ClientTcpClose, ClientUdpPacket, ClientTunnelEnd,
       ClientReadUdp, ClientTcpOpen, ReadDest, ReadDestEnd
<1>10. CASE FaultStep
  BY <1>2, <1>10 DEF FaultStep, Break, ServerSigpipe, ClientSigpipe, KillServer, KillClient, StartServer,
       StartClient
<1> QED BY <1>7, <1>8, <1>9, <1>10 DEF InStep

\* Unless the server is started again every number keeps its meaning, until a message is
\* misread.
LEMMA BindInductive ==
  ASSUME "startServer" \notin Faults
  PROVE  Spec => [](TypeInv /\ (~misread => KnownOnce /\ OwnOnly))
<1> DEFINE J == ~misread => KnownOnce /\ OwnOnly
<1>1. Init => J
  <2> SUFFICES ASSUME Init PROVE J
    OBVIOUS
  <2>1. \A id \in ConnIds, s \in Sessions : ~Known(id, s)
    BY SessionsAssumption, NoMessages DEF Init, Known, NoConns
  <2>2. DOMAIN <<>> = {}
    OBVIOUS
  <2> QED BY <2>1, <2>2 DEF KnownOnce, OwnOnly, Init
<1>2. ASSUME TypeInv, J, [Next]_vars PROVE J'
  <2> SUFFICES ASSUME ~misread' PROVE KnownOnce' /\ OwnOnly'
    OBVIOUS
  <2>1. CASE Next
    BY <1>2, <2>1, InStepBefore, KnownStep, ExclusiveStep
  <2>2. CASE UNCHANGED vars
    BY <1>2, <2>2 DEF vars, outsideVars, destVars, serverVars, clientVars, tunnelVars, readVars, KnownOnce,
       Known, OwnOnly
  <2> QED BY <1>2, <2>1, <2>2
<1> HIDE DEF J
<1>3. TypeInv /\ J /\ [Next]_vars => J'
  BY <1>2
<1>4. Spec => []J
  BY <1>1, <1>3, TypeInductive, PTL DEF Spec
<1>5. J => (~misread => KnownOnce /\ OwnOnly)
  BY DEF J
<1> QED BY <1>4, <1>5, TypeInductive, PTL

\* Over any number of lost tunnels and restarts of the client, a number in both tables
\* stands for the same connection in both, unless the server is started again, and until a
\* message that was lost in part is read on with the bytes of the next tunnel.
THEOREM IdsAgree ==
  ASSUME "startServer" \notin Faults
  PROVE  Spec => []IdAgreement
<1>1. TypeInv /\ (~misread => KnownOnce /\ OwnOnly) => IdAgreement
  BY DEF TypeInv, TablesOK, KnownOnce, Known, IdAgreement
<1> QED BY <1>1, BindInductive, PTL

\* What is read from one outside connection never reaches the destination of another,
\* nor the other way round, whatever is lost, under the same two conditions.
THEOREM Exclusive ==
  ASSUME "startServer" \notin Faults
  PROVE  Spec => []SpliceExclusive
<1>1. (~misread => KnownOnce /\ OwnOnly) => SpliceExclusive
  BY DEF OwnOnly, SpliceExclusive
<1> QED BY <1>1, BindInductive, PTL

=============================================================================
