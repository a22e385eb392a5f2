---------------------------- MODULE TunnelClient ----------------------------
(***************************************************************************)
(* TunnelClient: the reconnection loop of main and connectWithRetry        *)
(* (tunnel_client.cc), and dispatch_loop (tunnel_client_dispatch.cc), one  *)
(* action per handler of a ready socket.                                   *)
(*                                                                         *)
(* A handler that finds the tunnel lost sets cont_loop to FALSE; the rest  *)
(* of the iteration still reads the other ready sockets before the loop    *)
(* ends. Those reads have the same effect before the handler runs, since   *)
(* the tunnel is lost already; so the model orders them before it, and     *)
(* leaves the loop at once.                                                *)
(***************************************************************************)
EXTENDS TunnelWire

InLoop == clientPhase = "loop"
ClientHas(id) == clientConns[id] # None

ClientRemove(id) == clientConns' = [clientConns EXCEPT ![id] = None]

\* Mutant: the tunnel is not closed when the loop is left.
LeaveLoopOpen ==
  /\ clientPhase' = "connect"
  /\ attempt' = 0
  /\ UNCHANGED <<clientTunnel, toClient, toServer, halves>>

\* dispatch_loop returns false; main destroys the tunnel and calls
\* connectWithRetry again. The table stays, and the reconstructor, which is global.
LeaveLoop ==
  /\ clientPhase' = "connect"
  /\ attempt' = 0
  /\ CloseClientEnd
  /\ halfToClient' \in Halves(halfToClient, clientTunnel, toClient, <<>>)

\* The process ends: its sockets are closed, its table and its reconstructor are gone.
ClientStops(phase) ==
  /\ clientPhase' = phase
  /\ clientConns' = NoConns
  /\ CloseClientEnd
  /\ halfToClient' = {}

-----------------------------------------------------------------------------
\* An attempt of connectWithRetry succeeds as soon as the kernel of the server
\* host queues the connection, whether or not the server accepts it.
Connect ==
  /\ clientPhase = "connect" /\ serverUp
  /\ tunnels' = tunnels + 1
  /\ clientTunnel' = tunnels + 1
  /\ backlog' = Append(backlog, tunnels + 1)
  /\ clientPhase' = "loop"
  /\ attempt' = 0
  /\ UNCHANGED <<outsideVars, destVars, serverVars, clientConns, broken,
                 toClient, toServer, readVars, boundVars>>

\* An attempt fails, because the server does not run or the network is down: sleep
\* and try again, and after the last one main returns.
ConnectFails ==
  /\ clientPhase = "connect"
  /\ IF ~serverUp THEN UNCHANGED faults
     ELSE "break" \in Faults /\ faults < MaxFaults /\ faults' = faults + 1
  /\ attempt' = attempt + 1
  /\ IF attempt + 1 < MaxAttempts
     THEN UNCHANGED <<clientPhase, clientConns, clientTunnel, toClient, toServer, halves>>
     ELSE ClientStops("gaveup")
  /\ UNCHANGED <<outsideVars, destVars, serverVars, tunnels, backlog, broken, misread,
                 udp>>

-----------------------------------------------------------------------------
(* The tunnel is readable.                                                 *)

\* The reconstructor has a part of a message of an earlier tunnel.
ClientOutOfStep == \E t \in halfToClient : t < clientTunnel

ClientHead(type) ==
  /\ InLoop /\ (ClientOutOfStep => misread)
  /\ toClient # <<>>
  /\ Head(toClient).type = type

ClientMsg == Head(toClient)
\* Mutant: popMessage is forgotten.
ClientPopNone == toClient' = toClient
ClientPop == toClient' = Tail(toClient)

\* As in the server. Bound: a TCP_OPEN that nobody sent makes a connection to the destination
\* under the name of a session that has none yet.
ClientMisreads ==
  /\ InLoop /\ ClientOutOfStep
  /\ toClient # <<>>
  /\ misread' = TRUE
  /\ \/ toClient' \in Misreadings({TCP_CLOSE}, MaxOut, toClient)
     \/ \E id \in ConnIds, s \in Sessions :
          /\ dest[s] = "idle"
          /\ toClient' = <<Message(TCP_OPEN, id, s, 0)>> \o Tail(toClient)
  /\ UNCHANGED <<outsideVars, destVars, serverVars, clientVars, tunnels, backlog,
                 broken, toServer, halves, boundVars>>

\* Mutant: a failed connect is not reported.
ClientTcpOpenQuiet(connected, ok) ==
  LET id == ClientMsg.conn_id
      s == ClientMsg.session IN
  /\ ClientHead(TCP_OPEN)
  /\ ClientPop
  /\ IF ClientHas(id) \/ ~connected THEN UNCHANGED <<dest, clientConns>>
     ELSE /\ clientConns' = [clientConns EXCEPT ![id] = s]
          /\ dest' = [dest EXCEPT ![s] = "up"]
  /\ UNCHANGED <<outsideVars, destSent, destRead, destGot, serverVars,
                 clientPhase, clientTunnel, attempt, tunnels, backlog, broken,
                 toServer, readVars, boundVars>>

\* TCP_OPEN: a conn_id that is in the table is taken for a connection kept over
\* a reconnection. Otherwise connect to the destination; if that fails, say so.
ClientTcpOpen(connected, ok) ==
  LET id == ClientMsg.conn_id
      s == ClientMsg.session IN
  /\ ClientHead(TCP_OPEN)
  /\ ClientPop
  /\ IF ClientHas(id) THEN UNCHANGED <<dest, clientConns, toServer>>
     ELSE IF connected
     THEN /\ clientConns' = [clientConns EXCEPT ![id] = s]
          /\ dest' = [dest EXCEPT ![s] = "up"]
          /\ UNCHANGED toServer
     ELSE /\ SendToServer(Message(TCP_CLOSE, id, s, 0), ok)
          /\ UNCHANGED <<dest, clientConns>>
  /\ UNCHANGED <<outsideVars, destSent, destRead, destGot, serverVars,
                 clientPhase, clientTunnel, attempt, tunnels, backlog, broken, readVars,
                 boundVars>>

\* TCP_DATA: written to the connection, as in the server. Unlike the server the
\* client answers an unknown conn_id with TCP_CLOSE.
ClientTcpData(wrote, ok) ==
  LET id == ClientMsg.conn_id
      s == clientConns[id] IN
  /\ ClientHead(TCP_DATA)
  /\ ClientPop
  /\ IF ClientHas(id) /\ wrote
     THEN /\ destGot' = IF ~StillReads(dest[s]) THEN destGot
                        ELSE [destGot EXCEPT ![s] =
                                Append(@, <<ClientMsg.session, ClientMsg.item>>)]
          /\ UNCHANGED <<clientConns, toServer>>
     ELSE /\ ClientRemove(id)
          /\ SendToServer(Message(TCP_CLOSE, id, ClientMsg.session, 0), ok)
          /\ UNCHANGED destGot
  /\ UNCHANGED <<outsideVars, dest, destSent, destRead, serverVars,
                 clientPhase, clientTunnel, attempt, tunnels, backlog, broken, readVars,
                 boundVars>>

ClientTcpClose ==
  /\ ClientHead(TCP_CLOSE)
  /\ ClientPop
  /\ ClientRemove(ClientMsg.conn_id)
  /\ UNCHANGED <<outsideVars, destVars, serverVars, clientPhase, clientTunnel,
                 attempt, tunnels, backlog, broken, toServer, readVars, boundVars>>

\* The datagram goes to the UDP destination; the result is only logged.
ClientUdpPacket ==
  /\ ClientHead(UDP_PACKET)
  /\ ClientPop
  /\ UNCHANGED <<outsideVars, destVars, serverVars, clientVars, tunnels,
                 backlog, broken, toServer, readVars, boundVars>>

\* Mutant: only an error ends the loop, not the end of the stream.
ClientTunnelEndError ==
  /\ InLoop
  /\ clientTunnel \in broken /\ toClient = <<>>
  /\ LeaveLoop
  /\ UNCHANGED <<outsideVars, destVars, serverVars, clientConns, tunnels,
                 backlog, broken, misread, boundVars>>

\* recv returns 0 or an error.
ClientTunnelEnd ==
  /\ InLoop
  /\ ClientCut /\ toClient = <<>>
  /\ LeaveLoop
  /\ UNCHANGED <<outsideVars, destVars, serverVars, clientConns, tunnels,
                 backlog, broken, misread, boundVars>>

-----------------------------------------------------------------------------
\* udp_forwarder is readable.
ClientReadUdp(ok) ==
  /\ InLoop /\ udp < MaxUdp
  /\ udp' = udp + 1
  /\ IF ok
     THEN /\ SendToServer(Message(UDP_PACKET, 0, None, 0), ok)
          /\ UNCHANGED <<clientPhase, clientTunnel, attempt, toClient, halves>>
     ELSE ClientCut /\ LeaveLoop
  /\ UNCHANGED <<outsideVars, destVars, serverVars, clientConns, tunnels,
                 backlog, broken, misread, faults>>

\* A connection to the destination is readable and recv returns data. When it
\* cannot be sent the loop ends; the connection is kept, the data is gone.
ReadDest(id, ok) ==
  LET s == clientConns[id] IN
  /\ InLoop /\ ClientHas(id)
  /\ dest[s] # "rst" /\ destRead[s] < destSent[s]
  /\ destRead' = [destRead EXCEPT ![s] = @ + 1]
  /\ IF ok
     THEN /\ SendToServer(Message(TCP_DATA, id, s, destRead[s] + 1), ok)
          /\ UNCHANGED <<clientPhase, clientTunnel, attempt, toClient, halves>>
     ELSE ClientCut /\ LeaveLoop
  /\ UNCHANGED <<outsideVars, dest, destSent, destGot, serverVars, clientConns,
                 tunnels, backlog, broken, misread, boundVars>>

DestAtEnd(s) ==
  \/ dest[s] = "rst"
  \/ dest[s] \in {"fin", "half"} /\ destRead[s] = destSent[s]

\* Mutant: the server is not told.
ReadDestEndQuiet(id, ok) ==
  /\ InLoop /\ ClientHas(id) /\ DestAtEnd(clientConns[id])
  /\ ClientRemove(id)
  /\ UNCHANGED <<outsideVars, destVars, serverVars, clientPhase, clientTunnel,
                 attempt, tunnelVars, readVars, boundVars>>

\* recv returns 0 or an error: TCP_CLOSE (the result is ignored), and the
\* connection is removed.
ReadDestEnd(id, ok) ==
  LET s == clientConns[id] IN
  /\ InLoop /\ ClientHas(id) /\ DestAtEnd(s)
  /\ SendToServer(Message(TCP_CLOSE, id, s, 0), ok)
  /\ ClientRemove(id)
  /\ UNCHANGED <<outsideVars, destVars, serverVars, clientPhase, clientTunnel,
                 attempt, tunnels, backlog, broken, toClient, readVars, boundVars>>

-----------------------------------------------------------------------------
\* SIGPIPE, as in the server.
ClientSigpipe ==
  /\ InLoop
  /\ \/ /\ ClientCut
        /\ \/ udp < MaxUdp
           \/ ClientHead(TCP_OPEN) /\ ~ClientHas(ClientMsg.conn_id)
           \/ ClientHead(TCP_DATA)
           \/ \E id \in ConnIds :
                /\ ClientHas(id)
                /\ \/ destRead[clientConns[id]] < destSent[clientConns[id]]
                   \/ DestAtEnd(clientConns[id])
     \/ /\ ClientHead(TCP_DATA)
        /\ ClientHas(ClientMsg.conn_id)
        /\ ~StillReads(dest[clientConns[ClientMsg.conn_id]])
  /\ ClientStops("dead")
  /\ UNCHANGED <<outsideVars, destVars, serverVars, attempt, tunnels, backlog,
                 broken, misread, boundVars>>

\* The user quits the client (dispatch_loop then removes every connection, and
\* main returns), or it is killed.
KillClient ==
  /\ "killClient" \in Faults /\ faults < MaxFaults
  /\ clientPhase \in {"connect", "loop"}
  /\ faults' = faults + 1
  /\ ClientStops("dead")
  /\ UNCHANGED <<outsideVars, destVars, serverVars, attempt, tunnels, backlog,
                 broken, misread, udp>>

\* A new process, with an empty table.
StartClient ==
  /\ "startClient" \in Faults /\ faults < MaxFaults
  /\ faults' = faults + 1
  /\ clientPhase \in {"dead", "gaveup"}
  /\ clientPhase' = "connect"
  /\ attempt' = 0
  /\ UNCHANGED <<outsideVars, destVars, serverVars, clientConns, clientTunnel,
                 tunnelVars, readVars, udp>>

=============================================================================
