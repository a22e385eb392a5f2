--------------------------- MODULE TunnelFraming ---------------------------
(***************************************************************************)
(* One direction of the tunnel at the level of bytes: sendTunnelMessage    *)
(* (tunnel_send_message.cc) writes header and payload into a TCP stream,   *)
(* the dispatch loop on the other side reads the stream in segments of any *)
(* length, TunnelMessageReconstructor::collect_from_tunnel                 *)
(* (tunnel_message_reconstructor.cc) cuts it into messages, and the loop   *)
(* handles them. Both programs contain this pair once per direction.       *)
(*                                                                         *)
(* When the tunnel connection is lost and replaced, the reconstructor      *)
(* object lives on with whatever it holds: in the client it is a global,   *)
(* in the server a local of dispatch_loop, and neither has an operation    *)
(* that resets it.                                                         *)
(***************************************************************************)
EXTENDS TunnelProtocol

CONSTANTS
  Messages,       \* the messages the programs send
  RecvMax,        \* max_buffer_size, the most one recv returns
  MaxSent,        \* bound: messages sent over all connections
  MaxReconnects   \* bound: times the tunnel connection is replaced

ASSUME MessagesAssumption == Messages \subseteq TunnelMessage
ASSUME BoundsAssumption == RecvMax \in Nat /\ MaxSent \in Nat /\ MaxReconnects \in Nat

VARIABLES
  \* the sender and the connection
  stream,            \* bytes written on the current connection
  writing,           \* header written, payload not yet (inside sendTunnelMessage)
  arrived,           \* how many bytes of the stream the receiver has read
  \* TunnelMessageReconstructor
  bytes_from_tunnel,
  wait_for_header,
  current_conn_id,
  current_type,
  wait_for_payload,
  reconstructed_messages,
  \* where the receiving dispatch loop stands
  pc,
  \* bounds and history
  sends, reconnects,
  sent,              \* messages begun on the current connection
  offsets,           \* offsets[i]: bytes of the stream before sent[i]
  handled,           \* messages handled on the current connection
  torn               \* a connection was lost inside a message

wire == <<stream, writing, arrived>>
reconstructor == <<bytes_from_tunnel, wait_for_header, current_conn_id,
                   current_type, wait_for_payload, reconstructed_messages>>
history == <<sends, reconnects, sent, offsets, torn>>
vars == <<wire, reconstructor, pc, history, handled>>

Init ==
  /\ stream = <<>> /\ writing = FALSE /\ arrived = 0
  /\ bytes_from_tunnel = <<>>
  /\ wait_for_header = TRUE
  /\ current_conn_id = 0
  /\ current_type = UDP_PACKET
  /\ wait_for_payload = 0
  /\ reconstructed_messages = <<>>
  /\ pc = "select"
  /\ sends = 0 /\ reconnects = 0
  /\ sent = <<>> /\ offsets = <<0>> /\ handled = <<>> /\ torn = FALSE

-----------------------------------------------------------------------------
(* sendTunnelMessage: two writes, so the receiver may see the first alone. *)

SendHeader(m) ==
  /\ ~writing
  /\ sends < MaxSent
  /\ stream' = stream \o createHeader(m.conn_id, Len(m.payload), m.type)
  /\ writing' = (Len(m.payload) > 0)
  /\ sends' = sends + 1
  /\ sent' = Append(sent, m)
  /\ offsets' = Append(offsets, offsets[Len(offsets)] + HEADER_SIZE + Len(m.payload))
  /\ UNCHANGED <<arrived, reconstructor, pc, reconnects, handled, torn>>

SendPayload ==
  /\ writing
  /\ stream' = stream \o sent[Len(sent)].payload
  /\ writing' = FALSE
  /\ UNCHANGED <<arrived, reconstructor, pc, history, handled>>

-----------------------------------------------------------------------------
(* The receiving dispatch loop. Its iteration is select, recv, the loop of *)
(* collect_from_tunnel (one step per turn), then the loop over the         *)
(* reconstructed messages (one step per message).                          *)

\* tunnel->recv returns n > 0 bytes and collect_from_tunnel appends them.
Recv(n) ==
  /\ pc = "select"
  /\ arrived + n <= Len(stream)
  /\ bytes_from_tunnel' =
       bytes_from_tunnel \o SubSeq(stream, arrived + 1, arrived + n)
  /\ arrived' = arrived + n
  /\ pc' = "collect"
  /\ UNCHANGED <<stream, writing, wait_for_header, current_conn_id, current_type,
                 wait_for_payload, reconstructed_messages, history, handled>>

\* Mutant: erase removes one byte too few.
RestShort(n) == SubSeq(bytes_from_tunnel, n, Len(bytes_from_tunnel))

\* The bytes of the buffer after the first n.
Rest(n) == SubSeq(bytes_from_tunnel, n + 1, Len(bytes_from_tunnel))

HeaderComplete == Len(bytes_from_tunnel) >= HEADER_SIZE
PayloadComplete == Len(bytes_from_tunnel) >= wait_for_payload

Header == parseHeader(bytes_from_tunnel)
HeaderValid == isValidMessageType(Header.type) /\ Header.length <= MAX_PAYLOAD_SIZE

\* Mutant: a message without payload waits for the payload branch.
TakeHeaderWaits ==
  LET h == Header IN
  /\ pc = "collect"
  /\ wait_for_header /\ HeaderComplete /\ HeaderValid
  /\ bytes_from_tunnel' = Rest(HEADER_SIZE)
  /\ current_conn_id' = h.conn_id
  /\ current_type' = h.type
  /\ wait_for_payload' = h.length
  /\ wait_for_header' = FALSE
  /\ UNCHANGED <<wire, reconstructed_messages, pc, history, handled>>

\* Mutant: the length counts a terminator that is not sent.
TakeHeaderLess ==
  LET h == Header IN
  /\ pc = "collect"
  /\ wait_for_header /\ HeaderComplete /\ HeaderValid
  /\ bytes_from_tunnel' = Rest(HEADER_SIZE)
  /\ current_conn_id' = h.conn_id
  /\ current_type' = h.type
  /\ wait_for_payload' = h.length - 1
  /\ wait_for_header' = FALSE
  /\ UNCHANGED <<wire, reconstructed_messages, pc, history, handled>>

\* A message without payload is complete as soon as its header is: the loop
\* would not come back for it, since the buffer may be empty now.
TakeHeader ==
  LET h == Header IN
  /\ pc = "collect"
  /\ wait_for_header /\ HeaderComplete /\ HeaderValid
  /\ bytes_from_tunnel' = Rest(HEADER_SIZE)
  /\ current_conn_id' = h.conn_id
  /\ current_type' = h.type
  /\ wait_for_payload' = h.length
  /\ wait_for_header' = (h.length = 0)
  /\ reconstructed_messages' =
       IF h.length = 0
       THEN Append(reconstructed_messages,
                   [conn_id |-> h.conn_id, type |-> h.type, payload |-> <<>>])
       ELSE reconstructed_messages
  /\ UNCHANGED <<wire, pc, history, handled>>

\* An impossible type throws the whole buffer away and leaves the loop.
RejectHeader ==
  /\ pc = "collect"
  /\ wait_for_header /\ HeaderComplete /\ ~HeaderValid
  /\ bytes_from_tunnel' = <<>>
  /\ pc' = "process"
  /\ UNCHANGED <<wire, wait_for_header, current_conn_id, current_type,
                 wait_for_payload, reconstructed_messages, history, handled>>

TakePayload ==
  /\ pc = "collect"
  /\ ~wait_for_header /\ bytes_from_tunnel # <<>> /\ PayloadComplete
  /\ reconstructed_messages' =
       Append(reconstructed_messages,
              [conn_id |-> current_conn_id, type |-> current_type,
               payload |-> SubSeq(bytes_from_tunnel, 1, wait_for_payload)])
  /\ bytes_from_tunnel' = Rest(wait_for_payload)
  /\ wait_for_header' = TRUE
  /\ wait_for_payload' = 0
  /\ UNCHANGED <<wire, current_conn_id, current_type, pc, history, handled>>

\* The buffer is empty, or holds less than the header or payload awaited.
CollectDone ==
  /\ pc = "collect"
  /\ \/ bytes_from_tunnel = <<>>
     \/ wait_for_header /\ ~HeaderComplete
     \/ ~wait_for_header /\ ~PayloadComplete
  /\ pc' = "process"
  /\ UNCHANGED <<wire, reconstructor, history, handled>>

\* Mutant: the newest message is handled first.
ProcessBack ==
  /\ pc = "process"
  /\ reconstructed_messages # <<>>
  /\ handled' = Append(handled, reconstructed_messages[Len(reconstructed_messages)])
  /\ reconstructed_messages' =
       SubSeq(reconstructed_messages, 1, Len(reconstructed_messages) - 1)
  /\ UNCHANGED <<wire, bytes_from_tunnel, wait_for_header, current_conn_id,
                 current_type, wait_for_payload, pc, history>>

\* frontMessage, its handler, popMessage.
Process ==
  /\ pc = "process"
  /\ reconstructed_messages # <<>>
  /\ handled' = Append(handled, Head(reconstructed_messages))
  /\ reconstructed_messages' = Tail(reconstructed_messages)
  /\ UNCHANGED <<wire, bytes_from_tunnel, wait_for_header, current_conn_id,
                 current_type, wait_for_payload, pc, history>>

ProcessDone ==
  /\ pc = "process"
  /\ reconstructed_messages = <<>>
  /\ pc' = "select"
  /\ UNCHANGED <<wire, reconstructor, history, handled>>

-----------------------------------------------------------------------------
\* The reconstructor is between two messages.
AtBoundary == bytes_from_tunnel = <<>> /\ wait_for_header

\* recv reports the end or the loss of the connection (the unread bytes and a
\* message being written are lost with it), and the loop goes on with the next
\* one. The server also gets here by accepting a new tunnel over a live one.
\* What the sender writes on the new connection before the receiver has it is
\* ordered after this step: the two do not share a stream.
Reconnect ==
  /\ pc = "select"
  /\ reconnects < MaxReconnects
  /\ reconnects' = reconnects + 1
  /\ stream' = <<>> /\ writing' = FALSE /\ arrived' = 0
  /\ sent' = <<>> /\ offsets' = <<0>> /\ handled' = <<>>
  /\ torn' = (torn \/ ~AtBoundary)
  /\ UNCHANGED <<reconstructor, pc, sends>>

Next ==
  \/ \E m \in Messages : SendHeader(m)
  \/ SendPayload
  \/ \E n \in 1 .. RecvMax : Recv(n)
  \/ TakeHeader \/ RejectHeader \/ TakePayload \/ CollectDone
  \/ Process \/ ProcessDone
  \/ Reconnect

Spec == Init /\ [][Next]_vars

-----------------------------------------------------------------------------
\* Whatever the reconstructor may make of bytes.
RawMessage == [conn_id : Nat, type : Nat, payload : Seq(Byte)]

TypeOK ==
  /\ stream \in Seq(Byte) /\ writing \in BOOLEAN /\ arrived \in Nat
  /\ bytes_from_tunnel \in Seq(Byte)
  /\ wait_for_header \in BOOLEAN
  /\ current_conn_id \in Nat /\ current_type \in Nat /\ wait_for_payload \in Nat
  /\ reconstructed_messages \in Seq(RawMessage)
  /\ pc \in {"select", "collect", "process"}
  /\ sends \in Nat /\ reconnects \in Nat
  /\ sent \in Seq(TunnelMessage) /\ offsets \in Seq(Nat)
  /\ handled \in Seq(RawMessage)
  /\ torn \in BOOLEAN

Reconstructed == handled \o reconstructed_messages

\* However TCP cuts the stream into segments, the messages the reconstructor
\* produces are the messages sent, in order, none twice and none invented, as
\* long as no connection was lost inside a message.
FramingFaithful ==
  ~torn => /\ Len(Reconstructed) <= Len(sent)
           /\ \A i \in 1 .. Len(Reconstructed) : Reconstructed[i] = sent[i]

\* Nothing waits in the reconstructor for bytes that belong to a later message:
\* when the loop is back in select with all written bytes read, every message
\* sent has been handled (a TCP_OPEN or TCP_CLOSE is a bare header).
QuiescentComplete ==
  (~torn /\ pc = "select" /\ arrived = Len(stream) /\ ~writing)
     => /\ handled = sent
        /\ AtBoundary

\* The documented loss on reconnection, "only in-flight tunnel data": what has
\* arrived on the new connection in full is handled.
OnlyInFlightLost ==
  (pc = "select" /\ arrived = Len(stream) /\ ~writing) => handled = sent

\* The byte-level pair implements the channel of messages: each step of it is a
\* send, a delivery of the next message, a lost connection, or nothing.
Channel == INSTANCE MessageChannel
ImplementsChannel == Channel!Spec

=============================================================================
