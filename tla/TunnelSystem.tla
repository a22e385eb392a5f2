---------------------------- MODULE TunnelSystem ----------------------------
(***************************************************************************)
(* TunnelServer and TunnelClient with the outside peers, the destination   *)
(* and the network between them.                                           *)
(***************************************************************************)
EXTENDS TunnelServer, TunnelClient

-----------------------------------------------------------------------------
(* The peers: each may send, close or reset at any time.                   *)

OutsideConnect(s) ==
  /\ outside[s] = "idle" /\ serverUp
  /\ outside' = [outside EXCEPT ![s] = "up"]
  /\ queued' = queued \cup {s}
  /\ UNCHANGED <<outSent, outRead, outGot, destVars, serverVars, clientVars,
                 tunnelVars, readVars, boundVars>>

OutsideSend(s) ==
  /\ outside[s] = "up" /\ s \in queued \cup Range(serverConns)
  /\ outSent[s] < MaxOut
  /\ outSent' = [outSent EXCEPT ![s] = @ + 1]
  /\ UNCHANGED <<outside, queued, outRead, outGot, destVars, serverVars,
                 clientVars, tunnelVars, readVars, boundVars>>

OutsideEnds(s, how) ==
  /\ StillReads(outside[s]) /\ how # outside[s] /\ s \in queued \cup Range(serverConns)
  /\ outside' = [outside EXCEPT ![s] = how]
  /\ UNCHANGED <<queued, outSent, outRead, outGot, destVars, serverVars,
                 clientVars, tunnelVars, readVars, boundVars>>

DestSend(s) ==
  /\ dest[s] = "up" /\ s \in Range(clientConns)
  /\ destSent[s] < MaxDest
  /\ destSent' = [destSent EXCEPT ![s] = @ + 1]
  /\ UNCHANGED <<outsideVars, dest, destRead, destGot, serverVars, clientVars,
                 tunnelVars, readVars, boundVars>>

DestEnds(s, how) ==
  /\ StillReads(dest[s]) /\ how # dest[s] /\ s \in Range(clientConns)
  /\ dest' = [dest EXCEPT ![s] = how]
  /\ UNCHANGED <<outsideVars, destSent, destRead, destGot, serverVars,
                 clientVars, tunnelVars, readVars, boundVars>>

\* The network cuts the client's tunnel, at any byte of what is in flight in either
\* direction.
Break ==
  /\ "break" \in Faults /\ faults < MaxFaults
  /\ InLoop /\ ~ClientCut
  /\ faults' = faults + 1
  /\ broken' = broken \cup {clientTunnel}
  /\ LoseToClient
  /\ LoseToServer
  /\ UNCHANGED <<outsideVars, destVars, serverVars, clientVars, tunnels,
                 backlog, misread, udp>>

-----------------------------------------------------------------------------
Peers ==
  \E s \in Sessions :
    \/ OutsideConnect(s) \/ OutsideSend(s) \/ DestSend(s)
    \/ \E how \in Endings : OutsideEnds(s, how) \/ DestEnds(s, how)

Server ==
  \/ AcceptTunnel \/ ServerTcpClose \/ ServerUdpPacket \/ ServerTunnelEnd
  \/ \E s \in Sessions : RejectOutside(s)
  \/ \E ok \in BOOLEAN :
       \/ ServerReadUdp(ok)
       \/ \E s \in Sessions : AcceptOutside(s, ok)
       \/ \E id \in ConnIds : ReadOutside(id, ok) \/ ReadOutsideEnd(id, ok)
       \/ \E wrote \in BOOLEAN : ServerTcpData(wrote, ok)

Client ==
  \/ Connect \/ ConnectFails
  \/ ClientTcpClose \/ ClientUdpPacket \/ ClientTunnelEnd
  \/ \E ok \in BOOLEAN :
       \/ ClientReadUdp(ok)
       \/ \E connected \in BOOLEAN : ClientTcpOpen(connected, ok)
       \/ \E wrote \in BOOLEAN : ClientTcpData(wrote, ok)
       \/ \E id \in ConnIds : ReadDest(id, ok) \/ ReadDestEnd(id, ok)

FaultStep ==
  \/ Break \/ ServerSigpipe \/ ClientSigpipe
  \/ KillServer \/ KillClient \/ StartServer \/ StartClient

\* The steps of programs whose reconstructors are in step with the stream.
InStep == Peers \/ Server \/ Client \/ FaultStep
Misreads == ServerMisreads \/ ClientMisreads

Next == InStep \/ Misreads

Spec == Init /\ [][Next]_vars

\* A loop that is not blocked in a write comes back to select, which reports
\* every ready socket, and runs the handler of each; connectWithRetry goes on to
\* its next attempt. Nothing makes a peer send or close, or a fault happen.
Fairness ==
  /\ WF_vars(AcceptTunnel)
  /\ \A s \in Sessions :
       WF_vars(RejectOutside(s) \/ \E ok \in BOOLEAN : AcceptOutside(s, ok))
  /\ \A id \in ConnIds :
       WF_vars(\E ok \in BOOLEAN : ReadOutside(id, ok) \/ ReadOutsideEnd(id, ok))
  /\ WF_vars(\/ ServerTcpClose \/ ServerUdpPacket \/ ServerTunnelEnd
             \/ \E wrote, ok \in BOOLEAN : ServerTcpData(wrote, ok)
             \/ ~misread /\ ServerMisreads)
  /\ WF_vars(Connect \/ ConnectFails)
  /\ WF_vars(\/ ClientTcpClose \/ ClientUdpPacket \/ ClientTunnelEnd
             \/ \E b, ok \in BOOLEAN : ClientTcpOpen(b, ok) \/ ClientTcpData(b, ok)
             \/ ~misread /\ ClientMisreads)
  /\ \A id \in ConnIds :
       WF_vars(\E ok \in BOOLEAN : ReadDest(id, ok) \/ ReadDestEnd(id, ok))

FairSpec == Spec /\ Fairness

-----------------------------------------------------------------------------
TypeOK ==
  /\ outside \in [Sessions -> {"idle", "up"} \cup Ended] /\ queued \subseteq Sessions
  /\ dest \in [Sessions -> {"idle", "up"} \cup Ended]
  /\ \A s \in Sessions :
       /\ outSent[s] \in 0 .. MaxOut /\ outRead[s] \in 0 .. outSent[s]
       /\ destSent[s] \in 0 .. MaxDest /\ destRead[s] \in 0 .. destSent[s]
       /\ outGot[s] \in Seq(Sessions \X (1 .. MaxDest))
       /\ destGot[s] \in Seq(Sessions \X (1 .. MaxOut))
  /\ serverUp \in BOOLEAN
  /\ serverConns \in [ConnIds -> Sessions \cup {None}]
  /\ next_conn_id \in 1 .. Cardinality(Sessions) + 1
  /\ serverTunnel \in Tunnels \cup {0}
  /\ clientPhase \in {"connect", "loop", "dead", "gaveup"}
  /\ clientConns \in [ConnIds -> Sessions \cup {None}]
  /\ clientTunnel \in Tunnels \cup {0} /\ InLoop <=> clientTunnel # 0
  /\ attempt \in 0 .. MaxAttempts
  /\ tunnels \in Tunnels \cup {0} /\ backlog \in Seq(Tunnels)
  /\ broken \subseteq Tunnels
  /\ halfToClient \subseteq Tunnels /\ halfToServer \subseteq Tunnels
  /\ misread \in BOOLEAN
  /\ faults \in 0 .. MaxFaults /\ udp \in 0 .. MaxUdp

\* Data of one outside connection never reaches the destination connection of
\* another, nor the other way round: over any number of lost tunnels, until the part
\* of a message that one of them left is read on with the next one's bytes (misread).
SpliceExclusive ==
  ~misread => \A s \in Sessions :
    /\ \A i \in DOMAIN destGot[s] : destGot[s][i][1] = s
    /\ \A i \in DOMAIN outGot[s] : outGot[s][i][1] = s

\* Over any number of lost tunnels nothing is delivered twice or out of order, again
\* until a part of a message is misread.
InOrder ==
  ~misread => \A s \in Sessions : \A got \in {destGot[s], outGot[s]} :
    \A i, j \in DOMAIN got : i < j => got[i][2] < got[j][2]

\* The network cuts no tunnel and no program is started again: the first tunnel
\* is the only one, and lasts as long as both programs do.
OneTunnel == Faults \cap {"break", "startServer", "startClient"} = {}

\* The two programs implement the service they offer to the peers: every step
\* is one of the service's or changes nothing a peer sees. The service promises
\* nothing once a part of a message is misread; with one tunnel that never happens,
\* and nothing is missing in between.
Relay == INSTANCE RelayService WITH
  Lossless <- OneTunnel,
  peer <- [outside |-> outside, dest |-> dest],
  sent <- [outside |-> outSent, dest |-> destSent],
  got  <- [outside |-> outGot, dest |-> destGot]

ImplementsRelay == Relay!Spec

\* A number that both tables have stands for the same session in both, until a part
\* of a message is misread (a TCP_OPEN may come out of it that nobody sent).
IdAgreement ==
  ~misread => \A id \in ConnIds :
    serverConns[id] # None /\ clientConns[id] # None
      => serverConns[id] = clientConns[id]

Joined == serverTunnel # 0 /\ ~ServerCut
Dead == ~serverUp \/ clientPhase \in {"dead", "gaveup"}

InFlight(q, type, id) == \E i \in DOMAIN q : q[i].type = type /\ q[i].conn_id = id

\* With one tunnel the tables differ only by what a message in flight will
\* repair: no connection is left open on one side only.
NoOrphans ==
  \A id \in ConnIds :
    serverUp /\ InLoop =>
      /\ ServerHas(id) /\ ~ClientHas(id) =>
           \/ InFlight(toClient, TCP_OPEN, id)
           \/ InFlight(toServer[clientTunnel], TCP_CLOSE, id)
      /\ ClientHas(id) /\ ~ServerHas(id) => InFlight(toClient, TCP_CLOSE, id)

\* Each side of a connection receives a beginning of what the other side sent,
\* with nothing missing in between. So it is with one tunnel, also when a
\* program ends; a tunnel that takes the place of another leaves a gap.
Gapless ==
  \A s \in Sessions : \A got \in {destGot[s], outGot[s]} :
    \A i \in DOMAIN got : got[i] = <<s, i>>

\* Nothing of the session is left in either program.
Over(s) ==
  s \notin queued \cup Range(serverConns) \cup Range(clientConns)

\* With one tunnel, when one end of a connection ends, both programs close
\* their part of it for good, unless one of them has ended.
EndsTogether ==
  \A s \in Sessions :
    <>[](outside[s] \in Ended \/ dest[s] \in Ended => Dead \/ Over(s))

\* With one tunnel, all that was sent on a connection that stays open arrives.
Drained ==
  \A s \in Sessions :
    <>[](~Dead /\ s \in Range(serverConns) =>
           /\ dest[s] = "up"
           /\ Len(destGot[s]) = outSent[s] /\ Len(outGot[s]) = destSent[s])

\* The tunnel comes back after the last fault: the client reads the end of a
\* lost tunnel, the server accepts the new one over the old. The exception is a
\* process that has ended.
TunnelRestored == <>[](Dead \/ Joined)

-----------------------------------------------------------------------------
(* What the documentation says and the code does not do.                   *)

\* "TunnelClient automatically reconnects when tunnel connection is lost."
AutoReconnect == <>[]Joined

=============================================================================
