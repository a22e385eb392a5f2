----------------------------- MODULE TunnelWire -----------------------------
(***************************************************************************)
(* What TunnelServer and TunnelClient share: the tunnel connections between*)
(* them, the messages on them, and the TCP connections they splice.        *)
(*                                                                         *)
(* A session is one attempt of an outside peer to talk to the destination: *)
(* its connection to the server on one side and, once the TCP_OPEN that    *)
(* the server sends for it is handled, a connection of the client to the   *)
(* destination on the other. The nth read from a session's socket is its   *)
(* item n. A message carries, next to the fields of the protocol, the      *)
(* session it was sent for; no handler looks at it, only the properties.   *)
(*                                                                         *)
(* The tunnel connection is replaced when it is lost; the connections are  *)
(* numbered 1, 2, ... in the order the client makes them, 0 is none.       *)
(***************************************************************************)
EXTENDS TunnelProtocol, FiniteSets, Functions

CONSTANTS
  Sessions,     \* outside connections
  None,         \* no session
  Endings,      \* how peers end a connection: see Ended
  MaxOut,       \* bound: items an outside peer sends
  MaxDest,      \* bound: items the destination sends on one connection
  MaxUdp,       \* bound: datagrams the two programs receive
  MaxAttempts,  \* max_attempts of connectWithRetry
  Faults,       \* the faults that happen
  MaxFaults     \* bound: number of faults, restarts of a program included

\* A peer closes, resets, or shuts down only the direction in which it sends.
Ended == {"fin", "rst", "half"}
StillReads(peer) == peer \in {"up", "half"}
FaultKinds == {"break", "killServer", "killClient", "startServer", "startClient"}

ASSUME SessionsAssumption == IsFiniteSet(Sessions) /\ None \notin Sessions
ASSUME LimitsAssumption == /\ MaxOut \in Nat /\ MaxDest \in Nat
                           /\ MaxUdp \in Nat /\ MaxFaults \in Nat
                           /\ MaxAttempts \in Nat \ {0}
ASSUME EndingsAssumption == Endings \subseteq Ended
ASSUME FaultsAssumption == Faults \subseteq FaultKinds

\* The server gives every connection of one run the next number.
ConnIds == 1 .. Cardinality(Sessions)
\* Only a cut tunnel or a restart makes the client connect again.
Tunnels == 1 .. MaxFaults + 1

VARIABLES
  \* the outside peers and their connections to the server
  outside,      \* what the peer did: "idle", "up" or how it ended its sending
  queued,       \* sessions waiting in the listen queue of outside_tcp_listener
  outSent,      \* items the peer has sent
  outRead,      \* items the server has read
  outGot,       \* items the peer has received
  \* the destination and the client's connections to it
  dest, destSent, destRead, destGot,
  \* TunnelServer
  serverUp,     \* the process runs
  serverConns,  \* tcp_connections: conn_id -> session, None when absent
  next_conn_id,
  serverTunnel, \* tunnel
  \* TunnelClient
  clientPhase,  \* "connect" (connectWithRetry), "loop" (dispatch_loop), "dead"
                \* or "gaveup"
  clientConns,  \* tcp_connections
  clientTunnel, \* tunnel
  attempt,      \* attempt of connectWithRetry
  \* the tunnel connections
  tunnels,      \* how many were made
  backlog,      \* those waiting in the listen queue of tunnel_listener
  broken,       \* those the network has cut
  toClient,     \* messages in flight on the client's tunnel
  toServer,     \* messages in flight on each tunnel
  \* the reconstructors
  halfToClient, \* lost tunnels whose last message reaches the client in part
  halfToServer, \* the same for the server
  misread,      \* history: such a part was read on with the next tunnel's bytes
  \* bounds
  faults, udp

outsideVars == <<outside, queued, outSent, outRead, outGot>>
destVars    == <<dest, destSent, destRead, destGot>>
serverVars  == <<serverUp, serverConns, next_conn_id, serverTunnel>>
clientVars  == <<clientPhase, clientConns, clientTunnel, attempt>>
tunnelVars  == <<tunnels, backlog, broken, toClient, toServer>>
halves      == <<halfToClient, halfToServer>>
readVars    == <<halves, misread>>
boundVars   == <<faults, udp>>
vars == <<outsideVars, destVars, serverVars, clientVars, tunnelVars, readVars,
          boundVars>>

Message(type, id, s, n) == [type |-> type, conn_id |-> id, session |-> s, item |-> n]

NoConns == [id \in ConnIds |-> None]

Init ==
  /\ outside = [s \in Sessions |-> "idle"] /\ queued = {}
  /\ outSent = [s \in Sessions |-> 0] /\ outRead = [s \in Sessions |-> 0]
  /\ outGot = [s \in Sessions |-> <<>>]
  /\ dest = [s \in Sessions |-> "idle"]
  /\ destSent = [s \in Sessions |-> 0] /\ destRead = [s \in Sessions |-> 0]
  /\ destGot = [s \in Sessions |-> <<>>]
  /\ serverUp = TRUE /\ serverConns = NoConns
  /\ next_conn_id = 1 /\ serverTunnel = 0
  /\ clientPhase = "connect" /\ clientConns = NoConns
  /\ clientTunnel = 0 /\ attempt = 0
  /\ tunnels = 0 /\ backlog = <<>> /\ broken = {}
  /\ toClient = <<>> /\ toServer = [t \in Tunnels |-> <<>>]
  /\ halfToClient = {} /\ halfToServer = {} /\ misread = FALSE
  /\ faults = 0 /\ udp = 0

-----------------------------------------------------------------------------
(* The end of the tunnel a program holds may lead nowhere: the network cut *)
(* it, or the other side has closed its end. The program learns this from  *)
(* recv, once it has read what arrived, or from a write.                   *)

ServerCut == serverTunnel # clientTunnel \/ serverTunnel \in broken
ClientCut == \/ clientTunnel \in broken
             \/ /\ clientTunnel # serverTunnel
                /\ clientTunnel \notin Range(backlog)

\* sendTunnelMessage on a tunnel end that leads somewhere succeeds: the socket is
\* blocking. On one that is cut it still may (the bytes go to the send buffer
\* and are lost) or return false, or SIGPIPE kills the process (a separate
\* action: neither program ignores the signal).
SendToClient(m, ok) ==
  /\ ok \/ ServerCut
  /\ toClient' = IF ServerCut THEN toClient ELSE Append(toClient, m)

SendToServer(m, ok) ==
  /\ ok \/ ClientCut
  /\ toServer' = IF ClientCut THEN toServer
                 ELSE [toServer EXCEPT ![clientTunnel] = Append(@, m)]

\* When a connection is cut, reset or closed, any tail of the bytes in flight is
\* lost: whole messages, and of the last one that arrives perhaps a part (Halves).
Beginnings(q) == {SubSeq(q, 1, k) : k \in 0 .. Len(q)}

\* A reconstructor keeps the part of a message it has when the tunnel t is lost. The
\* stream q of t has become p; half is the set of tunnels that ended in a part.
Halves(half, t, q, p) ==
  IF t = 0 \/ p = q THEN {half} ELSE {half \ {t}, half \cup {t}}

\* The client's tunnel loses what is in flight to the client.
LoseToClient ==
  /\ toClient' \in Beginnings(toClient)
  /\ halfToClient' \in Halves(halfToClient, clientTunnel, toClient, toClient')

LoseToServer ==
  \E q \in Beginnings(toServer[clientTunnel]) :
    /\ toServer' = [toServer EXCEPT ![clientTunnel] = q]
    /\ halfToServer' \in Halves(halfToServer, clientTunnel, toServer[clientTunnel], q)

\* The server closes its end of the tunnel t (0: it holds none). Of a message that
\* it has not read to the end, its reconstructor may have a part.
CloseServerEnd(t) ==
  /\ toServer' = [u \in Tunnels |-> IF u = t THEN <<>> ELSE toServer[u]]
  /\ halfToServer' \in Halves(halfToServer, t, toServer[t], <<>>)
  /\ IF t # 0 /\ t = clientTunnel THEN LoseToClient
     ELSE UNCHANGED <<toClient, halfToClient>>

\* The client closes its end of its tunnel.
CloseClientEnd ==
  /\ clientTunnel' = 0
  /\ toClient' = <<>>
  /\ IF clientTunnel = 0 THEN UNCHANGED <<toServer, halfToServer>> ELSE LoseToServer

\* The messages that bytes of some users' data, read as a header, may stand for: of
\* these types, for any number, or with data of any connection.
Chance(types, max) ==
  {Message(type, id, s, 0) : type \in types, id \in ConnIds, s \in Sessions} \cup
  {Message(TCP_DATA, id, s, n) : id \in ConnIds, s \in Sessions, n \in 1 .. max}

\* What comes out of a reconstructor that takes the bytes of another tunnel for the
\* rest of its message, where the next message of q should: such a message, or nothing
\* (the bytes wait for more, are rejected, or make one without effect here).
\* Bound: at most one message for one.
Misreadings(types, max, q) ==
  {Tail(q)} \cup {<<m>> \o Tail(q) : m \in Chance(types, max)}

=============================================================================
