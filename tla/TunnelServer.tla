---------------------------- MODULE TunnelServer ----------------------------
(***************************************************************************)
(* TunnelServer: dispatch_loop of tunnel_server_dispatch.cc. The loop calls*)
(* select and then runs the handler of each socket that is ready; one      *)
(* action is one handler for one ready socket. recv on the tunnel returns  *)
(* one message at a time (TunnelFraming is about how they are cut out),    *)
(* except where the part of a message that a lost tunnel left is in the    *)
(* reconstructor (ServerMisreads).                                         *)
(***************************************************************************)
EXTENDS TunnelWire

HasTunnel == serverTunnel # 0
ServerHas(id) == serverConns[id] # None

ServerRemove(id) == serverConns' = [serverConns EXCEPT ![id] = None]

\* tunnel_listener is ready. The new tunnel takes the place of the old one,
\* whose destructor closes it.
AcceptTunnel ==
  /\ serverUp /\ backlog # <<>>
  /\ serverTunnel' = Head(backlog)
  /\ backlog' = Tail(backlog)
  /\ CloseServerEnd(serverTunnel)
  /\ UNCHANGED <<outsideVars, destVars, serverUp, serverConns, next_conn_id,
                 clientVars, tunnels, broken, misread, boundVars>>

\* outside_tcp_listener is ready and there is no tunnel: accepted and closed.
RejectOutside(s) ==
  /\ serverUp /\ s \in queued /\ ~HasTunnel
  /\ queued' = queued \ {s}
  /\ UNCHANGED <<outside, outSent, outRead, outGot, destVars, serverVars,
                 clientVars, tunnelVars, readVars, boundVars>>

\* Mutant: the lowest number that is free is allocated.
AcceptOutsideLowest(s, ok) ==
  LET free == {i \in ConnIds : ~ServerHas(i)}
      id == CHOOSE i \in free : \A j \in free : i <= j IN
  /\ serverUp /\ s \in queued /\ HasTunnel
  /\ queued' = queued \ {s}
  /\ SendToClient(Message(TCP_OPEN, id, s, 0), ok)
  /\ serverConns' = IF ok THEN [serverConns EXCEPT ![id] = s] ELSE serverConns
  /\ UNCHANGED <<outside, outSent, outRead, outGot, destVars, serverUp,
                 next_conn_id, serverTunnel, clientVars, tunnels, backlog,
                 broken, toServer, readVars, boundVars>>

\* outside_tcp_listener is ready: the connection enters the table, and leaves
\* it again if the TCP_OPEN cannot be sent.
AcceptOutside(s, ok) ==
  /\ serverUp /\ s \in queued /\ HasTunnel
  /\ queued' = queued \ {s}
  /\ next_conn_id' = next_conn_id + 1
  /\ SendToClient(Message(TCP_OPEN, next_conn_id, s, 0), ok)
  /\ serverConns' = IF ok THEN [serverConns EXCEPT ![next_conn_id] = s]
                    ELSE serverConns
  /\ UNCHANGED <<outside, outSent, outRead, outGot, destVars, serverUp,
                 serverTunnel, clientVars, tunnels, backlog, broken, toServer, readVars,
                 boundVars>>

\* outside_udp is ready. Without a tunnel the datagram is dropped; when it
\* cannot be sent the tunnel is given up.
ServerReadUdp(ok) ==
  /\ serverUp /\ udp < MaxUdp
  /\ udp' = udp + 1
  /\ IF ~HasTunnel THEN UNCHANGED <<serverTunnel, toClient, toServer, halves>>
     ELSE IF ok THEN /\ SendToClient(Message(UDP_PACKET, 0, None, 0), ok)
                     /\ UNCHANGED <<serverTunnel, toServer, halves>>
     ELSE /\ ServerCut
          /\ serverTunnel' = 0
          /\ CloseServerEnd(serverTunnel)
  /\ UNCHANGED <<outsideVars, destVars, serverUp, serverConns, next_conn_id,
                 clientVars, tunnels, backlog, broken, misread, faults>>

\* An outside connection is readable and recv returns data: sent on as TCP_DATA.
\* Without a tunnel the data is gone; when it cannot be sent the connection is
\* removed.
ReadOutside(id, ok) ==
  LET s == serverConns[id] IN
  /\ serverUp /\ ServerHas(id)
  /\ outside[s] # "rst" /\ outRead[s] < outSent[s]
  /\ outRead' = [outRead EXCEPT ![s] = @ + 1]
  /\ IF HasTunnel
     THEN /\ SendToClient(Message(TCP_DATA, id, s, outRead[s] + 1), ok)
          /\ IF ok THEN UNCHANGED serverConns ELSE ServerRemove(id)
     ELSE UNCHANGED <<toClient, serverConns>>
  /\ UNCHANGED <<outside, queued, outSent, outGot, destVars, serverUp,
                 next_conn_id, serverTunnel, clientVars, tunnels, backlog,
                 broken, toServer, readVars, boundVars>>

OutsideAtEnd(s) ==
  \/ outside[s] = "rst"
  \/ outside[s] \in {"fin", "half"} /\ outRead[s] = outSent[s]

\* Mutant: the client is not told.
ReadOutsideEndQuiet(id, ok) ==
  /\ serverUp /\ ServerHas(id) /\ OutsideAtEnd(serverConns[id])
  /\ ServerRemove(id)
  /\ UNCHANGED <<outsideVars, destVars, serverUp, next_conn_id, serverTunnel,
                 clientVars, tunnelVars, readVars, boundVars>>

\* An outside connection is readable and recv returns 0 or an error: TCP_CLOSE
\* if there is a tunnel (the result is ignored), and the connection is removed.
ReadOutsideEnd(id, ok) ==
  LET s == serverConns[id] IN
  /\ serverUp /\ ServerHas(id) /\ OutsideAtEnd(s)
  /\ IF HasTunnel THEN SendToClient(Message(TCP_CLOSE, id, s, 0), ok)
     ELSE UNCHANGED toClient
  /\ ServerRemove(id)
  /\ UNCHANGED <<outsideVars, destVars, serverUp, next_conn_id, serverTunnel,
                 clientVars, tunnels, backlog, broken, toServer, readVars, boundVars>>

-----------------------------------------------------------------------------
(* The tunnel is readable.                                                 *)

\* The reconstructor has a part of a message of an earlier tunnel.
ServerOutOfStep == \E t \in halfToServer : t < serverTunnel

ServerHead(type) ==
  /\ serverUp /\ HasTunnel /\ (ServerOutOfStep => misread)
  /\ toServer[serverTunnel] # <<>>
  /\ Head(toServer[serverTunnel]).type = type

ServerMsg == Head(toServer[serverTunnel])
ServerPop == toServer' = [toServer EXCEPT ![serverTunnel] = Tail(@)]

\* The first bytes of a new tunnel complete that part, and what comes out is not what
\* was sent. The same may happen to all that follows, or the reconstructor rejects a header,
\* clears its buffer, and is in step again.
ServerMisreads ==
  /\ serverUp /\ HasTunnel /\ ServerOutOfStep
  /\ toServer[serverTunnel] # <<>>
  /\ misread' = TRUE
  /\ \E q \in Misreadings({TCP_CLOSE}, MaxDest, toServer[serverTunnel]) :
       toServer' = [toServer EXCEPT ![serverTunnel] = q]
  /\ UNCHANGED <<outsideVars, destVars, serverVars, clientVars, tunnels, backlog,
                 broken, toClient, halves, boundVars>>

\* Mutant: a failed write drops the data and keeps the connection.
ServerTcpDataKeeps(wrote, ok) ==
  LET id == ServerMsg.conn_id
      s == serverConns[id] IN
  /\ ServerHead(TCP_DATA)
  /\ ServerPop
  /\ outGot' = IF ~ServerHas(id) \/ ~wrote THEN outGot
               ELSE IF ~StillReads(outside[s]) THEN outGot
               ELSE [outGot EXCEPT ![s] =
                       Append(@, <<ServerMsg.session, ServerMsg.item>>)]
  /\ UNCHANGED <<outside, queued, outSent, outRead, destVars, serverVars,
                 clientVars, tunnels, backlog, broken, toClient, readVars, boundVars>>

\* TCP_DATA: written to the connection if it is there, else dropped. A peer that
\* has closed does not get what the write accepted. The write may fail even
\* when the peer is well: the socket is non-blocking and send gives up on
\* EWOULDBLOCK. Then the connection is removed and the client told.
ServerTcpData(wrote, ok) ==
  LET id == ServerMsg.conn_id
      s == serverConns[id] IN
  /\ ServerHead(TCP_DATA)
  /\ ServerPop
  /\ IF ServerHas(id) /\ wrote
     THEN /\ outGot' = IF ~StillReads(outside[s]) THEN outGot
                       ELSE [outGot EXCEPT ![s] =
                               Append(@, <<ServerMsg.session, ServerMsg.item>>)]
          /\ UNCHANGED <<serverConns, toClient>>
     ELSE IF ServerHas(id)
     THEN /\ ServerRemove(id)
          /\ SendToClient(Message(TCP_CLOSE, id, s, 0), ok)
          /\ UNCHANGED outGot
     ELSE UNCHANGED <<outGot, serverConns, toClient>>
  /\ UNCHANGED <<outside, queued, outSent, outRead, destVars, serverUp,
                 next_conn_id, serverTunnel, clientVars, tunnels, backlog,
                 broken, readVars, boundVars>>

ServerTcpClose ==
  /\ ServerHead(TCP_CLOSE)
  /\ ServerPop
  /\ ServerRemove(ServerMsg.conn_id)
  /\ UNCHANGED <<outsideVars, destVars, serverUp, next_conn_id, serverTunnel,
                 clientVars, tunnels, backlog, broken, toClient, readVars, boundVars>>

\* The datagram goes to the last outside sender; the result is only logged.
ServerUdpPacket ==
  /\ ServerHead(UDP_PACKET)
  /\ ServerPop
  /\ UNCHANGED <<outsideVars, destVars, serverVars, clientVars, tunnels,
                 backlog, broken, toClient, readVars, boundVars>>

\* recv returns 0 or an error: wait for a new tunnel. The table stays.
ServerTunnelEnd ==
  /\ serverUp /\ HasTunnel
  /\ ServerCut /\ toServer[serverTunnel] = <<>>
  /\ serverTunnel' = 0
  /\ CloseServerEnd(serverTunnel)
  /\ UNCHANGED <<outsideVars, destVars, serverUp, serverConns, next_conn_id,
                 clientVars, tunnels, backlog, broken, misread, boundVars>>

-----------------------------------------------------------------------------
\* The process ends: its sockets are closed, its tables and its reconstructor are gone.
ServerStops ==
  /\ serverUp' = FALSE
  /\ serverConns' = NoConns
  /\ serverTunnel' = 0
  /\ backlog' = <<>>
  /\ queued' = {}
  /\ toServer' = [t \in Tunnels |-> <<>>]
  /\ halfToServer' = {}
  /\ LoseToClient

\* A write to the cut tunnel, or to a connection whose peer is gone, raises
\* SIGPIPE, which nothing handles.
ServerSigpipe ==
  /\ serverUp /\ HasTunnel
  /\ \/ /\ ServerCut
        /\ \/ queued # {}
           \/ udp < MaxUdp
           \/ \E id \in ConnIds : /\ ServerHas(id)
                                  /\ \/ outRead[serverConns[id]] < outSent[serverConns[id]]
                                     \/ OutsideAtEnd(serverConns[id])
     \/ /\ ServerHead(TCP_DATA)
        /\ ServerHas(ServerMsg.conn_id)
        /\ ServerCut \/ ~StillReads(outside[serverConns[ServerMsg.conn_id]])
  /\ ServerStops
  /\ UNCHANGED <<outside, outSent, outRead, outGot, destVars, next_conn_id,
                 clientVars, tunnels, broken, misread, boundVars>>

\* The user quits the server, or it is killed.
KillServer ==
  /\ "killServer" \in Faults /\ faults < MaxFaults
  /\ serverUp
  /\ faults' = faults + 1
  /\ ServerStops
  /\ UNCHANGED <<outside, outSent, outRead, outGot, destVars, next_conn_id,
                 clientVars, tunnels, broken, misread, udp>>

\* A new process, with an empty table that numbers from 1.
StartServer ==
  /\ "startServer" \in Faults /\ faults < MaxFaults
  /\ faults' = faults + 1
  /\ ~serverUp
  /\ serverUp' = TRUE
  /\ next_conn_id' = 1
  /\ UNCHANGED <<outsideVars, destVars, serverConns, serverTunnel, clientVars,
                 tunnelVars, readVars, udp>>

=============================================================================
