----------------------------- MODULE TunnelFlow -----------------------------
(***************************************************************************)
(* TCP data and datagrams on their way through the two programs while the  *)
(* tunnel stands, with buffers of a limited size. Each program is one      *)
(* thread. It writes to the tunnel with a blocking write, and does nothing *)
(* else until the write is done; it writes to the connections with a       *)
(* non-blocking one, which may take a part of the data and then fail.      *)
(*                                                                         *)
(* A side stands for a program and the peers next to it: the outside peers *)
(* of the server, the destination of the client. An item is what one read  *)
(* of a connection returns; it has two units, so that a write can take one *)
(* of them. All connections are open at first, and what the peers send is  *)
(* there to be read: data that comes later is data that is read later.     *)
(* Datagrams are requests that outside hosts send, and the responses of    *)
(* the destination, which may come in any order.                           *)
(***************************************************************************)
EXTENDS Naturals, Sequences

CONSTANTS
  Conns,       \* TCP connections
  Hosts,       \* outside hosts that send datagrams
  None,        \* no host
  TunnelSize,  \* messages one direction of the tunnel holds
  SocketSize,  \* units a connection holds that its peer has not read
  Items,       \* bound: items the peer of a side sends on a connection
  MaxUdp       \* bound: datagrams of the outside hosts

ASSUME SizesAssumption == TunnelSize \in Nat \ {0} /\ SocketSize \in Nat
ASSUME ItemsAssumption == Items \in [{"server", "client"} -> [Conns -> Nat]]
ASSUME NoneAssumption == None \notin Hosts

VARIABLES
  open,        \* connections in the table of each side
  read,        \* items of the peer's that the program has read
  stream,      \* units written to the peer, by their place in what was sent
  unread,      \* how many of them the peer has not read yet
  writing,     \* the message of a write that has not returned: 0 or 1 of them
  batch,       \* messages the reconstructor holds
  wire,        \* messages in the tunnel towards this side
  requests,    \* the senders of the datagrams the server has read, in order
  responses,   \* responses on the way to the client: the requests they answer
  answers,     \* the responses the server has sent: to whom, to which request
  last_udp_sender, has_udp_sender

tcpVars == <<open, read, stream, unread>>
udpVars == <<requests, responses, answers, last_udp_sender, has_udp_sender>>
vars == <<tcpVars, writing, batch, wire, udpVars>>

Sides == {"server", "client"}
Other(side) == IF side = "server" THEN "client" ELSE "server"

Data(c, n) == [type |-> "TCP_DATA", conn |-> c, item |-> n]
CloseMsg(c) == [type |-> "TCP_CLOSE", conn |-> c, item |-> 0]
\* A datagram: the number of the request it is, or answers.
Packet(n) == [type |-> "UDP_PACKET", conn |-> None, item |-> n]

Init ==
  /\ open = [side \in Sides |-> Conns]
  /\ read = [side \in Sides |-> [c \in Conns |-> 0]]
  /\ stream = [side \in Sides |-> [c \in Conns |-> <<>>]]
  /\ unread = [side \in Sides |-> [c \in Conns |-> 0]]
  /\ writing = [side \in Sides |-> <<>>]
  /\ batch = [side \in Sides |-> <<>>]
  /\ wire = [side \in Sides |-> <<>>]
  /\ requests = <<>> /\ responses = {} /\ answers = <<>>
  /\ last_udp_sender = None /\ has_udp_sender = FALSE

-----------------------------------------------------------------------------
\* A peer reads when it likes, or never.
PeerReads(side, c) ==
  /\ unread[side][c] > 0
  /\ unread' = [unread EXCEPT ![side][c] = 0]
  /\ UNCHANGED <<open, read, stream, writing, batch, wire, udpVars>>

-----------------------------------------------------------------------------
(* The tunnel.                                                             *)

\* The thread is in select, or between two handlers.
AtSelect(side) == writing[side] = <<>> /\ batch[side] = <<>>

\* sendTunnelMessage: the message is handed to a blocking write.
SendTunnel(side, m) == writing' = [writing EXCEPT ![side] = <<m>>]

\* The write returns when the tunnel had room for the message.
WriteTunnel(side) ==
  /\ writing[side] # <<>> /\ Len(wire[Other(side)]) < TunnelSize
  /\ wire' = [wire EXCEPT ![Other(side)] = Append(@, writing[side][1])]
  /\ writing' = [writing EXCEPT ![side] = <<>>]
  /\ UNCHANGED <<tcpVars, batch, udpVars>>

\* Mutant: the messages stay in the tunnel.
ReadTunnelPeeks(side) ==
  /\ AtSelect(side) /\ wire[side] # <<>>
  /\ batch' = [batch EXCEPT ![side] = wire[side]]
  /\ UNCHANGED <<tcpVars, writing, wire, udpVars>>

\* recv takes what there is, up to its buffer, and the reconstructor makes
\* messages of it.
ReadTunnel(side) ==
  /\ AtSelect(side)
  /\ \E k \in 1 .. Len(wire[side]) :
       /\ batch' = [batch EXCEPT ![side] = SubSeq(wire[side], 1, k)]
       /\ wire' = [wire EXCEPT ![side] = SubSeq(@, k + 1, Len(@))]
  /\ UNCHANGED <<tcpVars, writing, udpVars>>

\* The next message of the batch is of this type.
Front(side, type) ==
  /\ writing[side] = <<>> /\ batch[side] # <<>>
  /\ batch[side][1].type = type
Pop(side) == batch' = [batch EXCEPT ![side] = Tail(@)]

-----------------------------------------------------------------------------
(* TCP.                                                                    *)

\* A connection is readable: its data goes on as TCP_DATA.
ReadConn(side, c) ==
  /\ AtSelect(side)
  /\ c \in open[side] /\ read[side][c] < Items[side][c]
  /\ read' = [read EXCEPT ![side][c] = @ + 1]
  /\ SendTunnel(side, Data(c, read[side][c] + 1))
  /\ UNCHANGED <<open, stream, unread, batch, wire, udpVars>>

Units(n) == <<2 * n - 1, 2 * n>>

\* TCPSocket::send on a connection goes on writing until all is written or the socket
\* is full; then it returns -1, although part may be written.
Taken(side, c) ==
  LET room == SocketSize - unread[side][c] IN IF room < 2 THEN room ELSE 2
Write(side, c, n) ==
  /\ stream' = [stream EXCEPT ![side][c] = @ \o SubSeq(Units(n), 1, Taken(side, c))]
  /\ unread' = [unread EXCEPT ![side][c] = @ + Taken(side, c)]

\* Mutant: setNoBlock is forgotten, the write waits for room.
HandleDataBlocking(side) ==
  LET m == batch[side][1] IN
  /\ Front(side, "TCP_DATA") /\ m.conn \in open[side]
  /\ Taken(side, m.conn) = 2
  /\ Pop(side)
  /\ Write(side, m.conn, m.item)
  /\ UNCHANGED <<open, read, writing, wire, udpVars>>

\* Mutant: a write that takes only a part is taken for success.
HandleDataPartial(side) ==
  LET m == batch[side][1] IN
  /\ Front(side, "TCP_DATA") /\ m.conn \in open[side]
  /\ Pop(side)
  /\ Write(side, m.conn, m.item)
  /\ UNCHANGED <<open, read, writing, wire, udpVars>>

\* TCP_DATA for a connection of the table. When the write fails, after a part or
\* none, the connection is removed and the other side told.
HandleData(side) ==
  LET m == batch[side][1] IN
  /\ Front(side, "TCP_DATA") /\ m.conn \in open[side]
  /\ Pop(side)
  /\ Write(side, m.conn, m.item)
  /\ IF Taken(side, m.conn) = 2 THEN UNCHANGED <<open, writing>>
     ELSE /\ open' = [open EXCEPT ![side] = @ \ {m.conn}]
          /\ SendTunnel(side, CloseMsg(m.conn))
  /\ UNCHANGED <<read, wire, udpVars>>

\* TCP_DATA for another: the server drops it, the client answers TCP_CLOSE.
HandleUnknown(side) ==
  LET m == batch[side][1] IN
  /\ Front(side, "TCP_DATA") /\ m.conn \notin open[side]
  /\ Pop(side)
  /\ IF side = "client" THEN SendTunnel(side, CloseMsg(m.conn))
     ELSE UNCHANGED writing
  /\ UNCHANGED <<tcpVars, wire, udpVars>>

HandleClose(side) ==
  /\ Front(side, "TCP_CLOSE")
  /\ Pop(side)
  /\ open' = [open EXCEPT ![side] = @ \ {batch[side][1].conn}]
  /\ UNCHANGED <<read, stream, unread, writing, wire, udpVars>>

-----------------------------------------------------------------------------
(* UDP.                                                                    *)

\* Mutant: only the first sender is remembered.
RecvfromFirst(host) ==
  /\ requests' = Append(requests, host)
  /\ last_udp_sender' = IF has_udp_sender THEN last_udp_sender ELSE host

\* recvfrom writes the sender's address into last_udp_sender, whatever arrives.
Recvfrom(host) ==
  /\ requests' = Append(requests, host)
  /\ last_udp_sender' = host

\* An empty datagram is not sent on, and does not set has_udp_sender.
ServerReadUdp(host, empty) ==
  /\ AtSelect("server") /\ Len(requests) < MaxUdp
  /\ Recvfrom(host)
  /\ IF empty THEN UNCHANGED <<has_udp_sender, writing>>
     ELSE has_udp_sender' = TRUE /\ SendTunnel("server", Packet(Len(requests) + 1))
  /\ UNCHANGED <<tcpVars, batch, wire, responses, answers>>

\* UDP_PACKET in the client goes to the destination, which may respond.
ClientUdpPacket(responds) ==
  /\ Front("client", "UDP_PACKET")
  /\ Pop("client")
  /\ responses' = IF responds THEN responses \cup {batch["client"][1].item}
                  ELSE responses
  /\ UNCHANGED <<tcpVars, writing, wire, requests, answers, last_udp_sender,
                 has_udp_sender>>

ClientReadUdp(n) ==
  /\ AtSelect("client") /\ n \in responses
  /\ responses' = responses \ {n}
  /\ SendTunnel("client", Packet(n))
  /\ UNCHANGED <<tcpVars, batch, wire, requests, answers, last_udp_sender,
                 has_udp_sender>>

\* UDPSocket::send.
SendTo(host, n) == answers' = Append(answers, [to |-> host, request |-> n])

\* UDP_PACKET in the server goes to the last sender, if there was one.
ServerUdpPacket ==
  /\ Front("server", "UDP_PACKET")
  /\ Pop("server")
  /\ IF has_udp_sender THEN SendTo(last_udp_sender, batch["server"][1].item)
     ELSE UNCHANGED answers
  /\ UNCHANGED <<tcpVars, writing, wire, requests, responses, last_udp_sender,
                 has_udp_sender>>

-----------------------------------------------------------------------------
ServerUdp ==
  ServerUdpPacket \/ \E host \in Hosts, empty \in BOOLEAN : ServerReadUdp(host, empty)

ClientUdp ==
  \/ \E n \in responses : ClientReadUdp(n)
  \/ \E responds \in BOOLEAN : ClientUdpPacket(responds)

Thread(side) ==
  \/ WriteTunnel(side) \/ ReadTunnel(side)
  \/ HandleData(side) \/ HandleUnknown(side) \/ HandleClose(side)
  \/ \E c \in Conns : ReadConn(side, c)
  \/ side = "server" /\ ServerUdp
  \/ side = "client" /\ ClientUdp

Next == \E side \in Sides : Thread(side) \/ \E c \in Conns : PeerReads(side, c)

Spec == Init /\ [][Next]_vars

\* A thread that can go on does. A peer need not read, and what the peers send has an
\* end; that nothing ready is passed over for ever is shown in SelectLoop.
FairSpec == Spec /\ \A side \in Sides : WF_vars(Thread(side))

-----------------------------------------------------------------------------
Messages == [type : {"TCP_DATA", "TCP_CLOSE", "UDP_PACKET"},
             conn : Conns \cup {None}, item : Nat]

TypeOK ==
  /\ open \in [Sides -> SUBSET Conns]
  /\ \A side \in Sides, c \in Conns :
       /\ read[side][c] \in 0 .. Items[side][c]
       /\ unread[side][c] \in 0 .. SocketSize
       /\ Len(stream[side][c]) <= 2 * read[Other(side)][c]
  /\ writing \in [Sides -> Seq(Messages)] /\ batch \in [Sides -> Seq(Messages)]
  /\ wire \in [Sides -> Seq(Messages)]
  /\ \A side \in Sides : Len(writing[side]) <= 1 /\ Len(wire[side]) <= TunnelSize
  /\ requests \in Seq(Hosts) /\ responses \subseteq DOMAIN requests
  /\ last_udp_sender \in Hosts \cup {None}
  /\ has_udp_sender \in BOOLEAN
  /\ answers \in Seq([to : Hosts, request : DOMAIN requests])

\* What a peer receives is a beginning of what the other sent, down to the unit:
\* after a write that took only a part nothing more is written.
StreamWhole ==
  \A side \in Sides, c \in Conns :
    \A i \in DOMAIN stream[side][c] : stream[side][c][i] = i

\* A response goes to the host that asked, unless the host it goes to has sent a
\* datagram (be it an empty one) after the request; and never to a host that
\* has sent nothing.
RightHost ==
  \A i \in DOMAIN answers :
    \E n \in answers[i].request .. Len(requests) : requests[n] = answers[i].to

\* Both programs are in a write to a full tunnel, so neither reads it.
BlockedInWrite(side) == writing[side] # <<>> /\ Len(wire[Other(side)]) = TunnelSize
MutualBlock == \A side \in Sides : BlockedInWrite(side)

\* Nothing is left to forward, and both sides have the same connections.
AllForwarded ==
  /\ \A side \in Sides :
       /\ writing[side] = <<>> /\ batch[side] = <<>> /\ wire[side] = <<>>
       /\ \A c \in open[side] : read[side][c] = Items[side][c]
  /\ responses = {} /\ open["server"] = open["client"]

\* A peer that reads slowly or never stops nobody: all that is sent is forwarded, or
\* its connection is closed on both sides. Only a mutual block stops it.
FlowsOn == <>[](MutualBlock \/ AllForwarded)

\* "Multiple TCP connections don't block each other"
NeverBlocked == <>[]AllForwarded

=============================================================================
