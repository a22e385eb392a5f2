------------------------- MODULE TunnelFramingProofs -------------------------
(***************************************************************************)
(* Proofs about the wire format and the framing, for every set of messages *)
(* (payloads of every length up to 65535), every segmentation of the       *)
(* stream and every number of messages and reconnections:                  *)
(*   - parseHeader inverts createHeader;                                   *)
(*   - the reconstructor is faithful and withholds nothing;                *)
(*   - the byte-level pair implements the channel of messages.             *)
(***************************************************************************)
EXTENDS TunnelFraming, SequenceTheorems, TLAPS

-----------------------------------------------------------------------------
(* The wire format.                                                        *)

HeaderOf(m) == createHeader(m.conn_id, Len(m.payload), m.type)

\* parseHeader recovers the three fields createHeader was given, for every
\* conn_id, length and type of their C++ widths.
THEOREM HeaderRoundTrip ==
  ASSUME NEW c \in UInt32, NEW l \in UInt16, NEW t \in UInt16
  PROVE  parseHeader(createHeader(c, l, t)) =
           [conn_id |-> c, length |-> l, type |-> t]
BY DEF UInt32, UInt16, parseHeader, createHeader, htonl, htons, ntohl, ntohs

\* A header is HEADER_SIZE bytes.
LEMMA HeaderIsBytes ==
  ASSUME NEW c \in UInt32, NEW l \in UInt16, NEW t \in UInt16
  PROVE  createHeader(c, l, t) \in Seq(Byte) /\ Len(createHeader(c, l, t)) = 8
<1>1. /\ htonl(c)[1] \in Byte /\ htonl(c)[2] \in Byte
      /\ htonl(c)[3] \in Byte /\ htonl(c)[4] \in Byte
  BY DEF UInt32, htonl, Byte
<1>2. /\ htons(l)[1] \in Byte /\ htons(l)[2] \in Byte
      /\ htons(t)[1] \in Byte /\ htons(t)[2] \in Byte
  BY DEF UInt16, htons, Byte
<1> QED BY <1>1, <1>2 DEF createHeader

\* The fields of a message fit the header.
LEMMA MessageFields ==
  ASSUME NEW m \in TunnelMessage
  PROVE  /\ m.conn_id \in UInt32 /\ m.conn_id \in Nat
         /\ m.type \in UInt16 /\ m.type \in Nat
         /\ isValidMessageType(m.type)
         /\ m.payload \in Seq(Byte) /\ Len(m.payload) \in Nat
         /\ Len(m.payload) \in UInt16
         /\ Len(m.payload) <= MAX_PAYLOAD_SIZE
         /\ m = [conn_id |-> m.conn_id, type |-> m.type, payload |-> m.payload]
         /\ m \in RawMessage
<1>1. m.conn_id \in UInt32 /\ m.type \in {1, 2, 3, 4}
  BY DEF TunnelMessage, UDP_PACKET, TCP_OPEN, TCP_DATA, TCP_CLOSE
<1>2. /\ m.payload \in Seq(Byte) /\ Len(m.payload) \in Nat
      /\ Len(m.payload) <= MAX_PAYLOAD_SIZE
  BY SMT DEF TunnelMessage
<1>3. m = [conn_id |-> m.conn_id, type |-> m.type, payload |-> m.payload]
  BY DEF TunnelMessage
<1>4. Len(m.payload) \in UInt16
  BY <1>2, SMT DEF UInt16, MAX_PAYLOAD_SIZE
<1>5. /\ m.type \in UInt16 /\ isValidMessageType(m.type) /\ m.type \in Nat
      /\ m.conn_id \in Nat
  BY <1>1, SMT DEF UInt16, UInt32, isValidMessageType, UDP_PACKET, TCP_CLOSE
<1>6. m \in RawMessage
  BY <1>2, <1>3, <1>5 DEF RawMessage
<1> QED BY <1>1, <1>2, <1>3, <1>4, <1>5, <1>6

LEMMA HeaderOfIsBytes ==
  ASSUME NEW m \in TunnelMessage
  PROVE  HeaderOf(m) \in Seq(Byte) /\ Len(HeaderOf(m)) = 8
BY MessageFields, HeaderIsBytes DEF HeaderOf

\* A buffer that begins with a message's header parses to its fields.
LEMMA ParseHeaderOf ==
  ASSUME NEW m \in TunnelMessage, NEW b \in Seq(Byte), Len(b) >= 8,
         \A j \in 1 .. 8 : b[j] = HeaderOf(m)[j]
  PROVE  parseHeader(b) =
           [conn_id |-> m.conn_id, length |-> Len(m.payload), type |-> m.type]
<1>1. parseHeader(b) = parseHeader(HeaderOf(m))
  <2>1. /\ b[1] = HeaderOf(m)[1] /\ b[2] = HeaderOf(m)[2] /\ b[3] = HeaderOf(m)[3]
        /\ b[4] = HeaderOf(m)[4] /\ b[5] = HeaderOf(m)[5] /\ b[6] = HeaderOf(m)[6]
        /\ b[7] = HeaderOf(m)[7] /\ b[8] = HeaderOf(m)[8]
    OBVIOUS
  <2> QED BY <2>1 DEF parseHeader, ntohl, ntohs
<1> QED BY <1>1, MessageFields, HeaderRoundTrip DEF HeaderOf

\* What parseHeader makes of any eight bytes.
LEMMA ParseBytes ==
  ASSUME NEW b, \A j \in 1 .. 8 : b[j] \in Byte
  PROVE  /\ parseHeader(b).conn_id \in Nat
         /\ parseHeader(b).length \in Nat
         /\ parseHeader(b).type \in Nat
<1>1. \A j \in 1 .. 8 : b[j] \in Nat
  <2>1. \A x \in Byte : x \in Nat
    BY DEF Byte
  <2> QED BY <2>1, Zenon
<1>2. /\ b[1] \in Nat /\ b[2] \in Nat /\ b[3] \in Nat /\ b[4] \in Nat
      /\ b[5] \in Nat /\ b[6] \in Nat /\ b[7] \in Nat /\ b[8] \in Nat
  BY <1>1
<1> QED BY <1>2 DEF parseHeader, ntohl, ntohs

LEMMA ParseHeaderType ==
  ASSUME NEW b \in Seq(Byte), Len(b) >= 8
  PROVE  /\ parseHeader(b).conn_id \in Nat
         /\ parseHeader(b).length \in Nat
         /\ parseHeader(b).type \in Nat
<1>1. \A j \in 1 .. 8 : b[j] \in Byte
  BY ElementOfSeq
<1> QED BY <1>1, ParseBytes

-----------------------------------------------------------------------------
(* The inductive invariant. What the stream is, byte by byte, in terms of  *)
(* the messages sent; where the reconstructor stands in it; and what the   *)
(* loop has left behind when it is back in select.                         *)

\* The stream holds the messages one after the other, the last one perhaps
\* without its payload.
StreamInv ==
  /\ Len(offsets) = Len(sent) + 1
  /\ offsets[1] = 0
  /\ \A i \in 1 .. Len(sent) :
       offsets[i + 1] = offsets[i] + 8 + Len(sent[i].payload)
  /\ writing => sent # <<>>
  /\ Len(stream) = IF writing THEN offsets[Len(sent)] + 8
                              ELSE offsets[Len(sent) + 1]
  /\ \A i \in 1 .. Len(sent) :
       /\ offsets[i] + 8 <= Len(stream)
       /\ \A j \in 1 .. 8 : stream[offsets[i] + j] = HeaderOf(sent[i])[j]
  /\ \A i \in 1 .. Len(sent) : (i < Len(sent) \/ ~writing) =>
       /\ offsets[i] + 8 + Len(sent[i].payload) <= Len(stream)
       /\ \A j \in 1 .. Len(sent[i].payload) :
            stream[offsets[i] + 8 + j] = sent[i].payload[j]
  /\ arrived <= Len(stream)

\* How many stream bytes the reconstructor has consumed.
Position == arrived - Len(bytes_from_tunnel)

Count == Len(handled) + Len(reconstructed_messages)

\* The buffer is the part of the stream between Position and arrived; the next
\* message to come out is the one after those already produced.
ReaderInv ==
  /\ Len(bytes_from_tunnel) <= arrived
  /\ \A j \in 1 .. Len(bytes_from_tunnel) :
       bytes_from_tunnel[j] = stream[Position + j]
  /\ Count <= Len(sent)
  /\ \A i \in 1 .. Len(handled) : handled[i] = sent[i]
  /\ \A i \in 1 .. Len(reconstructed_messages) :
       reconstructed_messages[i] = sent[Len(handled) + i]
  /\ wait_for_header => Position = offsets[Count + 1]
  /\ ~wait_for_header =>
       /\ Count < Len(sent)
       /\ Position = offsets[Count + 1] + 8
       /\ current_conn_id = sent[Count + 1].conn_id
       /\ current_type = sent[Count + 1].type
       /\ wait_for_payload = Len(sent[Count + 1].payload)

\* Outside collect_from_tunnel the buffer holds less than what is awaited, and
\* in select no message is waiting to be handled.
LoopInv ==
  /\ ~wait_for_header => wait_for_payload > 0
  /\ pc # "collect" =>
       /\ wait_for_header => Len(bytes_from_tunnel) < 8
       /\ ~wait_for_header => Len(bytes_from_tunnel) < wait_for_payload
  /\ pc = "select" => reconstructed_messages = <<>>

IInv == TypeOK /\ StreamInv /\ LoopInv /\ (~torn => ReaderInv)

-----------------------------------------------------------------------------
LEMMA InitInv == Init => IInv
<1> SUFFICES ASSUME Init PROVE IInv
  OBVIOUS
<1>1. TypeOK
  <2>1. <<0>> \in Seq(Nat) /\ UDP_PACKET \in Nat
    BY DEF UDP_PACKET
  <2>2. offsets \in Seq(Nat) /\ current_type \in Nat
    BY <2>1, Zenon DEF Init
  <2>3. /\ stream = <<>> /\ bytes_from_tunnel = <<>> /\ reconstructed_messages = <<>>
        /\ sent = <<>> /\ handled = <<>> /\ arrived = 0 /\ current_conn_id = 0
        /\ wait_for_payload = 0 /\ sends = 0 /\ reconnects = 0
        /\ writing = FALSE /\ wait_for_header = TRUE /\ torn = FALSE /\ pc = "select"
    BY Zenon DEF Init
  <2>4. /\ <<>> \in Seq(Byte) /\ <<>> \in Seq(RawMessage)
        /\ <<>> \in Seq(TunnelMessage) /\ 0 \in Nat
    OBVIOUS
  <2> QED BY <2>2, <2>3, <2>4, Zenon DEF TypeOK
<1>2. StreamInv /\ LoopInv /\ ReaderInv
  BY DEF Init, StreamInv, LoopInv, ReaderInv, Position, Count
<1> QED BY <1>1, <1>2 DEF IInv

\* The bytes left in the buffer after the first n of them.
LEMMA RestProperties ==
  ASSUME bytes_from_tunnel \in Seq(Byte), NEW n \in Nat,
         n <= Len(bytes_from_tunnel)
  PROVE  /\ Rest(n) \in Seq(Byte)
         /\ Len(Rest(n)) = Len(bytes_from_tunnel) - n
         /\ \A j \in 1 .. Len(bytes_from_tunnel) - n :
              Rest(n)[j] = bytes_from_tunnel[n + j]
BY DEF Rest

\* The step's effect on types, for each action.
LEMMA TypeStep == IInv /\ [Next]_vars => TypeOK'
<1> SUFFICES ASSUME IInv, [Next]_vars PROVE TypeOK'
  OBVIOUS
<1> USE DEF IInv
<1>1. ASSUME NEW m \in Messages, SendHeader(m) PROVE TypeOK'
  <2>1. m \in TunnelMessage /\ Len(m.payload) \in Nat
    BY MessagesAssumption, MessageFields
  <2>2. stream' \in Seq(Byte)
    BY <1>1, <2>1, HeaderOfIsBytes DEF SendHeader, TypeOK, HeaderOf
  <2>3. sent' \in Seq(TunnelMessage) /\ sends' \in Nat
    BY <1>1, <2>1 DEF SendHeader, TypeOK
  <2>4. offsets[Len(offsets)] \in Nat
    BY DEF TypeOK, StreamInv
  <2>5. offsets[Len(offsets)] + 8 + Len(m.payload) \in Nat
    BY <2>1, <2>4
  <2>6. offsets' \in Seq(Nat)
    BY <1>1, <2>5 DEF SendHeader, TypeOK, HEADER_SIZE
  <2> QED BY <1>1, <2>2, <2>3, <2>6 DEF SendHeader, TypeOK, reconstructor
<1>2. CASE SendPayload
  <2>1. Len(sent) \in 1 .. Len(sent)
    BY <1>2 DEF SendPayload, TypeOK, StreamInv
  <2>2. sent[Len(sent)] \in TunnelMessage
    BY <2>1, ElementOfSeq DEF TypeOK
  <2>3. stream' \in Seq(Byte)
    BY <1>2, <2>2, MessageFields DEF SendPayload, TypeOK
  <2> QED BY <1>2, <2>3 DEF SendPayload, TypeOK, reconstructor, history
<1>3. ASSUME NEW n \in 1 .. RecvMax, Recv(n) PROVE TypeOK'
  <2>1. SubSeq(stream, arrived + 1, arrived + n) \in Seq(Byte)
    BY <1>3 DEF Recv, TypeOK
  <2>2. bytes_from_tunnel' \in Seq(Byte) /\ arrived' \in Nat
    BY <1>3, <2>1, BoundsAssumption DEF Recv, TypeOK
  <2> QED BY <1>3, <2>2 DEF Recv, TypeOK, history
<1>4. CASE TakeHeader
  <2>1. /\ Header.conn_id \in Nat /\ Header.length \in Nat /\ Header.type \in Nat
    BY <1>4, ParseHeaderType DEF TakeHeader, Header, HeaderComplete, HEADER_SIZE, TypeOK
  <2>2. bytes_from_tunnel' \in Seq(Byte)
    BY <1>4, RestProperties DEF TakeHeader, HeaderComplete, HEADER_SIZE, TypeOK
  <2>3. [conn_id |-> Header.conn_id, type |-> Header.type, payload |-> <<>>]
          \in RawMessage
    BY <2>1 DEF RawMessage
  <2>4. reconstructed_messages' \in Seq(RawMessage)
    BY <1>4, <2>3 DEF TakeHeader, TypeOK
  <2> QED BY <1>4, <2>1, <2>2, <2>4 DEF TakeHeader, TypeOK, wire, history
<1>5. CASE RejectHeader
  BY <1>5 DEF RejectHeader, TypeOK, wire, history
<1>6. CASE TakePayload
  <2>1. SubSeq(bytes_from_tunnel, 1, wait_for_payload) \in Seq(Byte)
    BY <1>6 DEF TakePayload, PayloadComplete, TypeOK
  <2>2. bytes_from_tunnel' \in Seq(Byte)
    BY <1>6, RestProperties DEF TakePayload, PayloadComplete, TypeOK
  <2>3. [conn_id |-> current_conn_id, type |-> current_type,
         payload |-> SubSeq(bytes_from_tunnel, 1, wait_for_payload)] \in RawMessage
    BY <2>1 DEF RawMessage, TypeOK
  <2>4. reconstructed_messages' \in Seq(RawMessage)
    BY <1>6, <2>3 DEF TakePayload, TypeOK
  <2> QED BY <1>6, <2>2, <2>4 DEF TakePayload, TypeOK, wire, history
<1>7. CASE CollectDone
  BY <1>7 DEF CollectDone, TypeOK, wire, history, reconstructor
<1>8. CASE Process
  <2>1. /\ handled' \in Seq(RawMessage)
        /\ reconstructed_messages' \in Seq(RawMessage)
    BY <1>8 DEF Process, TypeOK
  <2> QED BY <1>8, <2>1 DEF Process, TypeOK, wire, history
<1>9. CASE ProcessDone
  BY <1>9 DEF ProcessDone, TypeOK, wire, history, reconstructor
<1>10. CASE Reconnect
  <2>1. <<0>> \in Seq(Nat)
    OBVIOUS
  <2>2. torn' \in BOOLEAN /\ offsets' \in Seq(Nat)
    BY <1>10, <2>1, Zenon DEF Reconnect
  <2>3. reconnects' \in Nat
    BY <1>10 DEF Reconnect, TypeOK
  <2>4. /\ stream' = <<>> /\ writing' = FALSE /\ arrived' = 0 /\ sent' = <<>>
        /\ handled' = <<>> /\ UNCHANGED <<reconstructor, pc, sends>>
    BY <1>10, Zenon DEF Reconnect
  <2>5. /\ <<>> \in Seq(Byte) /\ <<>> \in Seq(RawMessage)
        /\ <<>> \in Seq(TunnelMessage) /\ 0 \in Nat
    OBVIOUS
  <2> QED BY <2>2, <2>3, <2>4, <2>5, Zenon DEF TypeOK, reconstructor
<1>11. CASE UNCHANGED vars
  BY <1>11 DEF vars, TypeOK, wire, reconstructor, history
<1> QED
  BY <1>1, <1>2, <1>3, <1>4, <1>5, <1>6, <1>7, <1>8, <1>9, <1>10, <1>11 DEF Next

\* What appending v to s gives, element by element.
LEMMA ConcatParts ==
  ASSUME NEW S, NEW s \in Seq(S), NEW v \in Seq(S)
  PROVE  /\ Len(s) \in Nat /\ Len(v) \in Nat
         /\ Len(s \o v) = Len(s) + Len(v)
         /\ \A j \in 1 .. Len(s) : (s \o v)[j] = s[j]
         /\ \A j \in 1 .. Len(v) : (s \o v)[Len(s) + j] = v[j]
OBVIOUS

\* The facts about types the steps need.
LEMMA ReaderTypes ==
  ASSUME TypeOK
  PROVE  /\ Len(bytes_from_tunnel) \in Nat /\ Len(stream) \in Nat /\ arrived \in Nat
         /\ Len(sent) \in Nat /\ Len(handled) \in Nat
         /\ Len(reconstructed_messages) \in Nat /\ wait_for_payload \in Nat
BY DEF TypeOK

\* The first write of sendTunnelMessage extends the stream by the header.
LEMMA SendHeaderEffect ==
  ASSUME IInv, NEW m \in Messages, SendHeader(m)
  PROVE  /\ Len(stream') = Len(stream) + 8
         /\ \A j \in 1 .. Len(stream) : stream'[j] = stream[j]
         /\ \A j \in 1 .. 8 : stream'[Len(stream) + j] = HeaderOf(m)[j]
         /\ Len(sent') = Len(sent) + 1 /\ sent'[Len(sent) + 1] = m
         /\ \A i \in 1 .. Len(sent) : sent'[i] = sent[i]
         /\ Len(offsets') = Len(sent) + 2
         /\ \A i \in 1 .. Len(sent) + 1 : offsets'[i] = offsets[i]
         /\ offsets'[Len(sent) + 2] = offsets[Len(sent) + 1] + 8 + Len(m.payload)
<1> USE DEF IInv
<1> DEFINE n == Len(sent)
           H == HeaderOf(m)
           p == Len(m.payload)
<1>1. m \in TunnelMessage /\ H \in Seq(Byte)
  BY MessagesAssumption, HeaderOfIsBytes
<1>2. Len(H) = 8
  BY <1>1, HeaderOfIsBytes
<1>3. /\ offsets \in Seq(Nat) /\ stream \in Seq(Byte) /\ sent \in Seq(TunnelMessage)
  BY DEF TypeOK
<1>4. Len(offsets) = n + 1
  BY DEF StreamInv
<1>5. n \in Nat
  BY <1>3
<1> HIDE DEF n, H, p
<1>6. /\ Len(stream') = Len(stream) + 8
      /\ \A j \in 1 .. Len(stream) : stream'[j] = stream[j]
      /\ \A j \in 1 .. 8 : stream'[Len(stream) + j] = H[j]
  <2>1. stream' = stream \o H
    BY DEF SendHeader, HeaderOf, H
  <2>2. /\ Len(stream \o H) = Len(stream) + Len(H)
        /\ \A j \in 1 .. Len(stream) : (stream \o H)[j] = stream[j]
        /\ \A j \in 1 .. Len(H) : (stream \o H)[Len(stream) + j] = H[j]
    BY <1>1, <1>3, ConcatParts
  <2> QED BY <1>2, <2>1, <2>2
<1>7. /\ Len(sent') = n + 1 /\ sent'[n + 1] = m
      /\ \A i \in 1 .. n : sent'[i] = sent[i]
  BY <1>1, <1>3 DEF SendHeader, n
<1>8. /\ Len(offsets') = n + 2
      /\ \A i \in 1 .. n + 1 : offsets'[i] = offsets[i]
      /\ offsets'[n + 2] = offsets[n + 1] + 8 + p
  <2>1. offsets' = Append(offsets, offsets[n + 1] + 8 + p)
    BY <1>4 DEF SendHeader, HEADER_SIZE, p
  <2> DEFINE x == offsets[n + 1] + 8 + p
  <2> HIDE DEF x
  <2>2. /\ Len(Append(offsets, x)) = Len(offsets) + 1
        /\ \A i \in 1 .. Len(offsets) : Append(offsets, x)[i] = offsets[i]
        /\ Append(offsets, x)[Len(offsets) + 1] = x
    BY <1>3
  <2> QED BY <1>4, <1>5, <2>1, <2>2 DEF x
<1> QED BY <1>6, <1>7, <1>8, Zenon DEF n, H, p

\* The second write extends it by the payload.
LEMMA SendPayloadEffect ==
  ASSUME IInv, SendPayload
  PROVE  /\ Len(sent[Len(sent)].payload) \in Nat
         /\ Len(stream') = Len(stream) + Len(sent[Len(sent)].payload)
         /\ \A j \in 1 .. Len(stream) : stream'[j] = stream[j]
         /\ \A j \in 1 .. Len(sent[Len(sent)].payload) :
              stream'[Len(stream) + j] = sent[Len(sent)].payload[j]
<1> USE DEF IInv
<1> DEFINE P == sent[Len(sent)].payload
<1>1. Len(sent) \in 1 .. Len(sent)
  BY DEF TypeOK, StreamInv, SendPayload
<1>2. P \in Seq(Byte)
  BY <1>1, ElementOfSeq, MessageFields DEF TypeOK
<1>3. stream' = stream \o P /\ stream \in Seq(Byte)
  BY DEF SendPayload, TypeOK
<1> HIDE DEF P
<1>4. /\ Len(P) \in Nat
      /\ Len(stream') = Len(stream) + Len(P)
      /\ \A j \in 1 .. Len(stream) : stream'[j] = stream[j]
      /\ \A j \in 1 .. Len(P) : stream'[Len(stream) + j] = P[j]
  BY <1>2, <1>3, ConcatParts
<1> QED BY <1>4, Zenon DEF P

\* Only the sender and a new connection change the stream; a read moves arrived.
LEMMA StreamStep == IInv /\ [Next]_vars => StreamInv'
<1> SUFFICES ASSUME IInv, [Next]_vars PROVE StreamInv'
  OBVIOUS
<1> USE DEF IInv
<1>1. ASSUME NEW m \in Messages, SendHeader(m) PROVE StreamInv'
  <2> DEFINE n == Len(sent)
             H == HeaderOf(m)
             p == Len(m.payload)
  <2>1. m \in TunnelMessage /\ H \in Seq(Byte)
    BY MessagesAssumption, HeaderOfIsBytes
  <2>2. p \in Nat /\ Len(H) = 8
    BY <2>1, MessageFields, HeaderOfIsBytes
  <2>3. /\ offsets \in Seq(Nat) /\ stream \in Seq(Byte) /\ sent \in Seq(TunnelMessage)
    BY DEF TypeOK
  <2>4. /\ n \in Nat /\ Len(offsets) = n + 1 /\ Len(stream) \in Nat
        /\ Len(stream) = offsets[n + 1] /\ arrived \in Nat /\ arrived <= Len(stream)
        /\ arrived' = arrived /\ (writing' <=> p > 0)
    <3>1. writing = FALSE /\ arrived' = arrived /\ (writing' <=> p > 0)
      BY <1>1 DEF SendHeader, TypeOK
    <3>2. Len(stream) = offsets[Len(sent) + 1]
      BY <3>1 DEF StreamInv
    <3>3. Len(offsets) = n + 1 /\ arrived <= Len(stream)
      BY DEF StreamInv
    <3>4. n \in Nat /\ Len(stream) \in Nat
      BY <2>3
    <3> QED BY <3>1, <3>2, <3>3, <3>4 DEF TypeOK
  <2>5. \A i \in 1 .. n + 1 : offsets[i] \in Nat
    BY <2>3, <2>4, ElementOfSeq
  <2>6. \A i \in 1 .. n : Len(sent[i].payload) \in Nat
    BY <2>3, ElementOfSeq, MessageFields
  <2> HIDE DEF n, H, p
  <2>7. /\ Len(stream') = Len(stream) + 8
        /\ \A j \in 1 .. Len(stream) : stream'[j] = stream[j]
        /\ \A j \in 1 .. 8 : stream'[Len(stream) + j] = H[j]
    BY <1>1, SendHeaderEffect, Zenon DEF H
  <2>8. /\ Len(sent') = n + 1 /\ sent'[n + 1] = m
        /\ \A i \in 1 .. n : sent'[i] = sent[i]
    BY <1>1, SendHeaderEffect, Zenon DEF n
  <2>9. /\ Len(offsets') = n + 2
        /\ \A i \in 1 .. n + 1 : offsets'[i] = offsets[i]
        /\ offsets'[n + 2] = offsets[n + 1] + 8 + p
    BY <1>1, SendHeaderEffect, Zenon DEF n, p
  <2>10. /\ Len(offsets') = Len(sent') + 1 /\ offsets'[1] = 0
         /\ arrived' <= Len(stream')
         /\ Len(stream') = IF writing' THEN offsets'[Len(sent')] + 8
                                       ELSE offsets'[Len(sent') + 1]
    <3>1. offsets'[1] = 0
      BY <2>4, <2>9 DEF StreamInv
    <3>2. offsets'[n + 1] = Len(stream) /\ offsets'[n + 2] = Len(stream) + 8 + p
      BY <2>4, <2>9
    <3>3. /\ Len(offsets') = Len(sent') + 1 /\ arrived' <= Len(stream')
          /\ offsets'[Len(sent')] = Len(stream)
          /\ offsets'[Len(sent') + 1] = Len(stream) + 8 + p
      <4>1. Len(sent') = n + 1 /\ Len(sent') + 1 = n + 2
        BY <2>4, <2>8
      <4> QED BY <4>1, <3>2, <2>4, <2>7, <2>9
    <3>4. CASE writing'
      BY <3>1, <3>3, <3>4, <2>7
    <3>5. CASE ~writing'
      <4>1. p = 0
        BY <3>5, <2>2, <2>4
      <4> QED BY <4>1, <3>1, <3>3, <3>5, <2>4, <2>7
    <3> QED BY <3>4, <3>5
  <2>11. sent' # <<>>
    BY <2>4, <2>8
  <2>12. ASSUME NEW i \in 1 .. n + 1
         PROVE  offsets'[i + 1] = offsets'[i] + 8 + Len(sent'[i].payload)
    <3>1. i \in 1 .. n => offsets[i + 1] = offsets[i] + 8 + Len(sent[i].payload)
      BY DEF StreamInv, n
    <3> QED BY <3>1, <2>2, <2>4, <2>8, <2>9 DEF p
  <2>13. ASSUME NEW i \in 1 .. n + 1
         PROVE  /\ offsets'[i] + 8 <= Len(stream')
                /\ \A j \in 1 .. 8 : stream'[offsets'[i] + j] = HeaderOf(sent'[i])[j]
    <3>1. CASE i = n + 1
      <4>1. sent'[i] = m /\ offsets'[i] = Len(stream)
        BY <3>1, <2>4, <2>8, <2>9
      <4> QED BY <4>1, <2>4, <2>7 DEF H
    <3>2. CASE i \in 1 .. n
      <4>1. /\ offsets[i] + 8 <= Len(stream) /\ offsets[i] \in Nat
            /\ \A j \in 1 .. 8 : stream[offsets[i] + j] = HeaderOf(sent[i])[j]
        BY <3>2, <2>5 DEF StreamInv, n
      <4>2. sent'[i] = sent[i] /\ offsets'[i] = offsets[i]
        BY <3>2, <2>4, <2>8, <2>9
      <4>3. /\ offsets[i] + 8 <= Len(stream) /\ offsets[i] \in Nat
            /\ Len(stream) \in Nat /\ Len(stream') = Len(stream) + 8
        BY <4>1, <2>4, <2>7
      <4>4. ASSUME NEW j \in 1 .. 8
            PROVE  stream'[offsets[i] + j] = HeaderOf(sent[i])[j]
        <5>1. offsets[i] + j \in 1 .. Len(stream)
          BY <4>3
        <5>2. stream'[offsets[i] + j] = stream[offsets[i] + j]
          BY <5>1, <2>7
        <5> QED BY <4>1, <5>2
      <4>5. offsets[i] + 8 <= Len(stream')
        BY <4>3
      <4> QED BY <4>2, <4>4, <4>5, Zenon
    <3> QED BY <3>1, <3>2, <2>4
  <2>14. ASSUME NEW i \in 1 .. n + 1, i < n + 1 \/ ~writing'
         PROVE  /\ offsets'[i] + 8 + Len(sent'[i].payload) <= Len(stream')
                /\ \A j \in 1 .. Len(sent'[i].payload) :
                     stream'[offsets'[i] + 8 + j] = sent'[i].payload[j]
    <3>1. CASE i = n + 1
      <4>1. sent'[i] = m /\ offsets'[i] = Len(stream) /\ p = 0
        BY <3>1, <2>2, <2>4, <2>8, <2>9, <2>14
      <4> QED BY <4>1, <2>4, <2>7 DEF p
    <3>2. CASE i \in 1 .. n
      <4>1. /\ offsets[i] + 8 + Len(sent[i].payload) <= Len(stream)
            /\ offsets[i] \in Nat /\ Len(sent[i].payload) \in Nat
            /\ \A j \in 1 .. Len(sent[i].payload) :
                 stream[offsets[i] + 8 + j] = sent[i].payload[j]
        <5>1. i < Len(sent) \/ ~writing
          BY <1>1 DEF SendHeader
        <5> QED BY <5>1, <3>2, <2>5, <2>6 DEF StreamInv, n
      <4>2. sent'[i] = sent[i] /\ offsets'[i] = offsets[i]
        BY <3>2, <2>4, <2>8, <2>9
      <4>3. /\ offsets[i] + 8 + Len(sent[i].payload) <= Len(stream)
            /\ offsets[i] \in Nat /\ Len(sent[i].payload) \in Nat
            /\ Len(stream) \in Nat /\ Len(stream') = Len(stream) + 8
        BY <4>1, <2>4, <2>7
      <4>4. ASSUME NEW j \in 1 .. Len(sent[i].payload)
            PROVE  stream'[offsets[i] + 8 + j] = sent[i].payload[j]
        <5>1. offsets[i] + 8 + j \in 1 .. Len(stream)
          <6> DEFINE a == offsets[i]
                     k == Len(sent[i].payload)
                     L == Len(stream)
          <6>1. a \in Nat /\ k \in Nat /\ L \in Nat /\ a + 8 + k <= L /\ j \in 1 .. k
            BY <4>3
          <6> HIDE DEF a, k, L
          <6>2. a + 8 + j \in 1 .. L
            BY <6>1
          <6> QED BY <6>2 DEF a, L
        <5>2. stream'[offsets[i] + 8 + j] = stream[offsets[i] + 8 + j]
          BY <5>1, <2>7
        <5> QED BY <4>1, <5>2
      <4>5. offsets[i] + 8 + Len(sent[i].payload) <= Len(stream')
        BY <4>3
      <4> QED BY <4>2, <4>4, <4>5, Zenon
    <3> QED BY <3>1, <3>2, <2>4
  <2> QED BY <2>8, <2>10, <2>11, <2>12, <2>13, <2>14 DEF StreamInv
<1>2. CASE SendPayload
  <2> DEFINE n == Len(sent)
             P == sent[n].payload
  <2>1. /\ sent \in Seq(TunnelMessage) /\ offsets \in Seq(Nat) /\ stream \in Seq(Byte)
    BY DEF TypeOK
  <2>2. /\ n \in Nat /\ n \in 1 .. n /\ arrived \in Nat /\ Len(stream) \in Nat
        /\ Len(offsets) = n + 1 /\ arrived <= Len(stream)
        /\ writing' = FALSE /\ sent' = sent /\ offsets' = offsets /\ arrived' = arrived
    <3>1. /\ writing /\ writing' = FALSE /\ sent' = sent /\ offsets' = offsets
          /\ arrived' = arrived
      BY <1>2 DEF SendPayload, history
    <3>2. Len(offsets) = Len(sent) + 1 /\ arrived <= Len(stream) /\ sent # <<>>
      BY <3>1 DEF StreamInv
    <3>3. Len(sent) \in Nat /\ Len(stream) \in Nat /\ arrived \in Nat
      BY ReaderTypes
    <3>4. Len(sent) \in 1 .. Len(sent)
      BY <2>1, <3>2
    <3> QED BY <3>1, <3>2, <3>3, <3>4
  <2>3. P \in Seq(Byte) /\ Len(P) \in Nat
    BY <2>1, <2>2, ElementOfSeq, MessageFields
  <2>4. \A i \in 1 .. n + 1 : offsets[i] \in Nat
    BY <2>1, <2>2, ElementOfSeq
  <2>5. \A i \in 1 .. n : Len(sent[i].payload) \in Nat
    BY <2>1, ElementOfSeq, MessageFields
  <2> HIDE DEF n, P
  <2>6. /\ Len(stream) = offsets[n] + 8 /\ offsets[n + 1] = offsets[n] + 8 + Len(P)
    BY <1>2, <2>2 DEF StreamInv, SendPayload, n, P
  <2>7. /\ Len(stream') = Len(stream) + Len(P)
        /\ \A j \in 1 .. Len(stream) : stream'[j] = stream[j]
        /\ \A j \in 1 .. Len(P) : stream'[Len(stream) + j] = P[j]
    BY <1>2, SendPayloadEffect, Zenon DEF n, P
  <2>8. Len(P) \in Nat
    BY <2>3
  <2>9. ASSUME NEW i \in 1 .. n
        PROVE  /\ offsets[i] + 8 <= Len(stream')
               /\ \A j \in 1 .. 8 : stream'[offsets[i] + j] = HeaderOf(sent[i])[j]
    <3>1. /\ offsets[i] + 8 <= Len(stream)
          /\ \A j \in 1 .. 8 : stream[offsets[i] + j] = HeaderOf(sent[i])[j]
      BY DEF StreamInv, n
    <3>2. /\ offsets[i] + 8 <= Len(stream) /\ offsets[i] \in Nat
          /\ Len(stream) \in Nat /\ Len(P) \in Nat /\ Len(stream') = Len(stream) + Len(P)
      BY <3>1, <2>2, <2>4, <2>7, <2>8
    <3>3. offsets[i] + 8 <= Len(stream')
      BY <3>2
    <3>4. ASSUME NEW j \in 1 .. 8
          PROVE  stream'[offsets[i] + j] = HeaderOf(sent[i])[j]
      <4>1. offsets[i] + j \in 1 .. Len(stream)
        BY <3>2
      <4>2. stream'[offsets[i] + j] = stream[offsets[i] + j]
        BY <4>1, <2>7
      <4> QED BY <3>1, <4>2
    <3> QED BY <3>3, <3>4, Zenon
  <2>10. ASSUME NEW i \in 1 .. n
         PROVE  /\ offsets[i] + 8 + Len(sent[i].payload) <= Len(stream')
                /\ \A j \in 1 .. Len(sent[i].payload) :
                     stream'[offsets[i] + 8 + j] = sent[i].payload[j]
    <3>1. CASE i = n
      BY <3>1, <2>2, <2>6, <2>7, <2>8 DEF P
    <3>2. CASE i < n
      <4>1. /\ offsets[i] + 8 + Len(sent[i].payload) <= Len(stream)
            /\ \A j \in 1 .. Len(sent[i].payload) :
                 stream[offsets[i] + 8 + j] = sent[i].payload[j]
        BY <3>2 DEF StreamInv, n
      <4>2. offsets[i] \in Nat /\ Len(sent[i].payload) \in Nat
        BY <2>2, <2>4, <2>5
      <4>3. offsets[i] + 8 + Len(sent[i].payload) <= Len(stream')
        BY <4>1, <4>2, <2>2, <2>7, <2>8
      <4>4. ASSUME NEW j \in 1 .. Len(sent[i].payload)
            PROVE  stream'[offsets[i] + 8 + j] = sent[i].payload[j]
        <5>1. offsets[i] + 8 + j \in 1 .. Len(stream)
          BY <4>1, <4>2, <2>2
        <5>2. stream'[offsets[i] + 8 + j] = stream[offsets[i] + 8 + j]
          BY <5>1, <2>7
        <5> QED BY <4>1, <5>2
      <4> QED BY <4>3, <4>4, Zenon
    <3> QED BY <3>1, <3>2, <2>2
  <2>11. arrived' <= Len(stream') /\ Len(stream') = offsets'[Len(sent') + 1]
    BY <2>2, <2>6, <2>7, <2>8 DEF n
  <2> QED BY <2>2, <2>9, <2>10, <2>11 DEF StreamInv, n
<1>3. ASSUME NEW n \in 1 .. RecvMax, Recv(n) PROVE StreamInv'
  BY <1>3 DEF Recv, StreamInv, history
<1>4. CASE UNCHANGED <<wire, history>>
  BY <1>4 DEF wire, history, StreamInv
<1>5. CASE Reconnect
  BY <1>5 DEF Reconnect, StreamInv
<1> QED
  BY <1>1, <1>2, <1>3, <1>4, <1>5 DEF Next, TakeHeader, RejectHeader, TakePayload,
     CollectDone, Process, ProcessDone, vars

\* What the loop leaves behind.
LEMMA LoopStep == IInv /\ [Next]_vars => LoopInv'
<1> SUFFICES ASSUME IInv, [Next]_vars PROVE LoopInv'
  OBVIOUS
<1> USE DEF IInv
<1>1. CASE UNCHANGED <<reconstructor, pc>>
  BY <1>1 DEF reconstructor, LoopInv
<1>2. ASSUME NEW n \in 1 .. RecvMax, Recv(n) PROVE LoopInv'
  BY <1>2 DEF Recv, LoopInv
<1>3. CASE TakeHeader
  <2>1. Header.length \in Nat
    BY <1>3, ParseHeaderType DEF TakeHeader, Header, HeaderComplete, HEADER_SIZE, TypeOK
  <2>2. /\ pc' = "collect" /\ wait_for_payload' = Header.length
        /\ wait_for_header' = (Header.length = 0)
    BY <1>3 DEF TakeHeader
  <2> HIDE DEF Header
  <2>3. ~wait_for_header' => wait_for_payload' > 0
    <3>1. ~wait_for_header' => Header.length # 0
      BY <2>2, Zenon
    <3>2. Header.length # 0 => wait_for_payload' > 0
      BY <2>1, <2>2
    <3> QED BY <3>1, <3>2, Zenon
  <2>4. pc' = "collect" /\ pc' # "select"
    BY <2>2
  <2> QED BY <2>3, <2>4, Zenon DEF LoopInv
<1>4. CASE RejectHeader
  BY <1>4 DEF RejectHeader, LoopInv
<1>5. CASE TakePayload
  BY <1>5 DEF TakePayload, LoopInv
<1>6. CASE CollectDone
  <2>1. wait_for_payload \in Nat /\ Len(bytes_from_tunnel) \in Nat
        /\ (bytes_from_tunnel = <<>> => Len(bytes_from_tunnel) = 0)
    BY DEF TypeOK
  <2>2. /\ wait_for_header' = wait_for_header /\ wait_for_payload' = wait_for_payload
        /\ bytes_from_tunnel' = bytes_from_tunnel /\ pc' = "process"
    BY <1>6 DEF CollectDone, reconstructor
  <2>3. /\ wait_for_header => Len(bytes_from_tunnel) < 8
        /\ ~wait_for_header => Len(bytes_from_tunnel) < wait_for_payload
    BY <1>6, <2>1 DEF CollectDone, LoopInv, HeaderComplete, PayloadComplete, HEADER_SIZE
  <2>4. ~wait_for_header => wait_for_payload > 0
    BY DEF LoopInv
  <2>5. pc' # "select"
    BY <2>2
  <2> QED BY <2>2, <2>3, <2>4, <2>5, Zenon DEF LoopInv
<1>7. CASE Process
  BY <1>7 DEF Process, LoopInv
<1>8. CASE ProcessDone
  BY <1>8 DEF ProcessDone, LoopInv, reconstructor
<1> QED
  BY <1>1, <1>2, <1>3, <1>4, <1>5, <1>6, <1>7, <1>8
     DEF Next, SendHeader, SendPayload, Reconnect, vars

\* The sender's steps do not disturb the reader: what it has read stays.
LEMMA ReaderStepSend ==
  ASSUME IInv, ReaderInv, (\E m \in Messages : SendHeader(m)) \/ SendPayload
  PROVE  ReaderInv'
<1> USE DEF IInv
<1>1. /\ \A j \in 1 .. Len(stream) : stream'[j] = stream[j]
      /\ \A i \in 1 .. Len(sent) : sent'[i] = sent[i]
      /\ \A i \in 1 .. Len(sent) + 1 : offsets'[i] = offsets[i]
  <2>1. ASSUME NEW m \in Messages, SendHeader(m)
        PROVE  /\ \A j \in 1 .. Len(stream) : stream'[j] = stream[j]
               /\ \A i \in 1 .. Len(sent) : sent'[i] = sent[i]
               /\ \A i \in 1 .. Len(sent) + 1 : offsets'[i] = offsets[i]
    BY <2>1, SendHeaderEffect, Zenon
  <2>2. CASE SendPayload
    <3>1. sent' = sent /\ offsets' = offsets
      BY <2>2 DEF SendPayload, history
    <3> QED BY <2>2, <3>1, SendPayloadEffect, Zenon
  <2> QED BY <2>1, <2>2
<1>2. Len(sent') >= Len(sent)
  <2>1. Len(sent) \in Nat
    BY ReaderTypes
  <2>2. ASSUME NEW m \in Messages, SendHeader(m) PROVE Len(sent') = Len(sent) + 1
    BY <2>2, SendHeaderEffect, Zenon
  <2>3. CASE SendPayload
    BY <2>1, <2>3 DEF SendPayload, history
  <2> QED BY <2>1, <2>2, <2>3
<1>3. UNCHANGED <<arrived, reconstructor, handled>>
  BY DEF SendHeader, SendPayload
<1>4. Count' = Count /\ Position' = Position
  BY <1>3 DEF Count, Position, reconstructor
<1>5. /\ Count \in Nat /\ Count <= Len(sent) /\ Len(sent) \in Nat /\ Len(sent') \in Nat
      /\ Len(handled) \in Nat /\ Len(reconstructed_messages) \in Nat
      /\ Count = Len(handled) + Len(reconstructed_messages)
  <2>1. Len(sent') \in Nat
    BY TypeStep DEF TypeOK, Next
  <2> QED BY <2>1, ReaderTypes DEF ReaderInv, Count
<1>6. /\ Position \in Nat /\ Len(bytes_from_tunnel) \in Nat /\ arrived <= Len(stream)
      /\ arrived = Position + Len(bytes_from_tunnel) /\ Len(stream) \in Nat
  BY ReaderTypes DEF ReaderInv, StreamInv, Position
<1>7. ASSUME NEW j \in 1 .. Len(bytes_from_tunnel)
      PROVE  bytes_from_tunnel'[j] = stream'[Position' + j]
  <2>1. Position + j \in 1 .. Len(stream)
    BY <1>6
  <2>2. bytes_from_tunnel[j] = stream[Position + j]
    BY DEF ReaderInv
  <2> QED BY <1>1, <1>3, <1>4, <2>1, <2>2 DEF reconstructor
<1>8. \A i \in 1 .. Len(handled) : handled'[i] = sent'[i]
  <2>1. \A i \in 1 .. Len(handled) : i \in 1 .. Len(sent)
    BY <1>5
  <2> QED BY <1>1, <1>3, <2>1 DEF ReaderInv
<1>9. \A i \in 1 .. Len(reconstructed_messages) :
        reconstructed_messages'[i] = sent'[Len(handled) + i]
  <2>1. \A i \in 1 .. Len(reconstructed_messages) : Len(handled) + i \in 1 .. Len(sent)
    BY <1>5
  <2> QED BY <1>1, <1>3, <2>1 DEF ReaderInv, reconstructor
<1>10. Count + 1 \in 1 .. Len(sent) + 1 /\ offsets'[Count + 1] = offsets[Count + 1]
  BY <1>1, <1>5
<1>11. Count < Len(sent) => sent'[Count + 1] = sent[Count + 1]
  BY <1>1, <1>5
<1>12. Count' <= Len(sent') /\ (Count < Len(sent) => Count' < Len(sent'))
  BY <1>2, <1>4, <1>5
<1>13. /\ Len(bytes_from_tunnel') <= arrived'
       /\ wait_for_header' => Position' = offsets'[Count' + 1]
       /\ ~wait_for_header' =>
            /\ Count' < Len(sent')
            /\ Position' = offsets'[Count' + 1] + 8
            /\ current_conn_id' = sent'[Count' + 1].conn_id
            /\ current_type' = sent'[Count' + 1].type
            /\ wait_for_payload' = Len(sent'[Count' + 1].payload)
  BY <1>3, <1>4, <1>10, <1>11, <1>12 DEF ReaderInv, reconstructor
<1> QED BY <1>3, <1>7, <1>8, <1>9, <1>12, <1>13 DEF ReaderInv, reconstructor

\* A stretch of n elements of s after the first a.
LEMMA SubSeqParts ==
  ASSUME NEW S, NEW s \in Seq(S), NEW a \in Nat, NEW n \in Nat, a + n <= Len(s)
  PROVE  /\ SubSeq(s, a + 1, a + n) \in Seq(S)
         /\ Len(SubSeq(s, a + 1, a + n)) = n
         /\ \A j \in 1 .. n : SubSeq(s, a + 1, a + n)[j] = s[a + j]
OBVIOUS

\* A read moves a stretch of the stream into the buffer.
LEMMA ReaderStepRecv ==
  ASSUME IInv, ReaderInv, NEW n \in 1 .. RecvMax, Recv(n)
  PROVE  ReaderInv'
<1> USE DEF IInv
<1> DEFINE d == SubSeq(stream, arrived + 1, arrived + n)
<1>1. /\ UNCHANGED <<stream, wait_for_header, current_conn_id, current_type,
                     wait_for_payload, reconstructed_messages, sent, offsets, handled>>
      /\ arrived' = arrived + n /\ arrived + n <= Len(stream)
      /\ bytes_from_tunnel' = bytes_from_tunnel \o d
  BY DEF Recv, history
<1>2. n \in Nat /\ n >= 1
  BY BoundsAssumption
<1>3. /\ d \in Seq(Byte) /\ Len(d) = n
      /\ \A j \in 1 .. n : d[j] = stream[arrived + j]
  <2>1. /\ stream \in Seq(Byte) /\ arrived \in Nat
    BY DEF TypeOK
  <2> QED BY <1>1, <1>2, <2>1, SubSeqParts
<1> HIDE DEF d
<1>4. bytes_from_tunnel \in Seq(Byte)
  BY DEF TypeOK
<1>5. /\ Len(bytes_from_tunnel') = Len(bytes_from_tunnel) + n
      /\ \A j \in 1 .. Len(bytes_from_tunnel) :
           bytes_from_tunnel'[j] = bytes_from_tunnel[j]
      /\ \A j \in 1 .. n : bytes_from_tunnel'[Len(bytes_from_tunnel) + j] = d[j]
  <2> d \in Seq(Byte)
    BY <1>3
  <2>1. /\ Len(bytes_from_tunnel \o d) = Len(bytes_from_tunnel) + Len(d)
        /\ \A j \in 1 .. Len(bytes_from_tunnel) :
             (bytes_from_tunnel \o d)[j] = bytes_from_tunnel[j]
        /\ \A j \in 1 .. Len(d) : (bytes_from_tunnel \o d)[Len(bytes_from_tunnel) + j] = d[j]
    BY <1>4
  <2>2. bytes_from_tunnel' = bytes_from_tunnel \o d /\ Len(d) = n
    BY <1>1, <1>3
  <2> QED BY <2>1, <2>2, Zenon
<1>6. /\ Len(bytes_from_tunnel) \in Nat /\ arrived \in Nat
      /\ Len(bytes_from_tunnel) <= arrived
  BY ReaderTypes DEF ReaderInv
<1>7. /\ Position' = Position /\ Position \in Nat
      /\ arrived = Position + Len(bytes_from_tunnel)
  BY <1>1, <1>2, <1>5, <1>6 DEF Position
<1>8. Count' = Count
  BY <1>1 DEF Count
<1>9. ASSUME NEW j \in 1 .. Len(bytes_from_tunnel')
      PROVE  bytes_from_tunnel'[j] = stream[Position + j]
  <2>1. CASE j \in 1 .. Len(bytes_from_tunnel)
    BY <1>5, <2>1 DEF ReaderInv
  <2>2. CASE j > Len(bytes_from_tunnel)
    <3> DEFINE k == j - Len(bytes_from_tunnel)
    <3>1. k \in 1 .. n /\ j = Len(bytes_from_tunnel) + k /\ Position + j = arrived + k
      BY <1>2, <1>5, <1>6, <1>7, <2>2
    <3> HIDE DEF k
    <3> QED BY <1>3, <1>5, <3>1
  <2> QED BY <1>2, <1>5, <1>6, <2>1, <2>2
<1>10. Len(bytes_from_tunnel') <= arrived'
  BY <1>1, <1>2, <1>5, <1>6
<1> QED BY <1>1, <1>7, <1>8, <1>9, <1>10 DEF ReaderInv

\* Appending one message to what has been reconstructed.
LEMMA QueueAppend ==
  ASSUME TypeOK, ReaderInv, Count < Len(sent),
         reconstructed_messages' = Append(reconstructed_messages, sent[Count + 1]),
         handled' = handled, sent' = sent
  PROVE  /\ Count' = Count + 1 /\ Count \in Nat /\ Count' <= Len(sent')
         /\ \A i \in 1 .. Len(handled') : handled'[i] = sent'[i]
         /\ \A i \in 1 .. Len(reconstructed_messages') :
              reconstructed_messages'[i] = sent'[Len(handled') + i]
<1> DEFINE m == sent[Count + 1]
           q == Len(reconstructed_messages)
<1> HIDE DEF m
<1>1. /\ q \in Nat /\ Len(handled) \in Nat /\ Len(sent) \in Nat
  BY ReaderTypes
<1>2. /\ Len(Append(reconstructed_messages, m)) = q + 1
      /\ \A i \in 1 .. q : Append(reconstructed_messages, m)[i] = reconstructed_messages[i]
      /\ Append(reconstructed_messages, m)[q + 1] = m
  BY DEF TypeOK
<1>3. reconstructed_messages' = Append(reconstructed_messages, m)
  BY DEF m
<1>4. Count = Len(handled) + q /\ Count' = Count + 1 /\ Count \in Nat
  BY <1>1, <1>2, <1>3 DEF Count
<1>5. \A i \in 1 .. q : reconstructed_messages[i] = sent[Len(handled) + i]
  BY DEF ReaderInv
<1> HIDE DEF q
<1>6. Len(handled) + (q + 1) = Count + 1
  BY <1>1, <1>4
<1>7. ASSUME NEW i \in 1 .. q + 1
      PROVE  reconstructed_messages'[i] = sent[Len(handled) + i]
  <2>1. CASE i \in 1 .. q
    BY <1>2, <1>3, <1>5, <2>1
  <2>2. CASE i = q + 1
    BY <1>2, <1>3, <1>6, <2>2 DEF m
  <2>3. i \in 1 .. q \/ i = q + 1
    BY <1>1
  <2> QED BY <2>1, <2>2, <2>3
<1>8. Len(reconstructed_messages') = q + 1
  BY <1>2, <1>3
<1>9. \A i \in 1 .. Len(handled) : handled[i] = sent[i]
  BY DEF ReaderInv
<1>10. Count' <= Len(sent')
  BY <1>1, <1>4
<1> QED BY <1>4, <1>7, <1>8, <1>9, <1>10

\* With a complete header in the buffer, the buffer begins with the header of the
\* next message of the stream, so what is parsed is that message's fields.
LEMMA HeaderIsNext ==
  ASSUME IInv, ReaderInv, wait_for_header, Len(bytes_from_tunnel) >= 8
  PROVE  /\ Count \in Nat /\ Count < Len(sent)
         /\ sent[Count + 1] \in TunnelMessage
         /\ Header = [conn_id |-> sent[Count + 1].conn_id,
                      length |-> Len(sent[Count + 1].payload),
                      type |-> sent[Count + 1].type]
<1> USE DEF IInv
<1> DEFINE k == Count + 1
<1>1. /\ Count \in Nat /\ Count <= Len(sent) /\ Len(sent) \in Nat
      /\ Len(bytes_from_tunnel) \in Nat /\ arrived \in Nat /\ Len(stream) \in Nat
      /\ Len(bytes_from_tunnel) <= arrived /\ arrived <= Len(stream)
      /\ Position = arrived - Len(bytes_from_tunnel)
      /\ Position = offsets[Count + 1]
  BY ReaderTypes DEF ReaderInv, StreamInv, Count, Position
<1>2. Count < Len(sent)
  <2>1. SUFFICES ASSUME Count = Len(sent) PROVE FALSE
    BY <1>1
  <2>2. Len(stream) <= offsets[Len(sent) + 1]
    <3>1. CASE ~writing
      BY <1>1, <3>1 DEF StreamInv
    <3>2. CASE writing
      <4>1. Len(sent) \in 1 .. Len(sent)
        BY <3>2 DEF StreamInv, TypeOK
      <4>2. /\ Len(stream) = offsets[Len(sent)] + 8
            /\ offsets[Len(sent) + 1] = offsets[Len(sent)] + 8 + Len(sent[Len(sent)].payload)
        BY <3>2, <4>1 DEF StreamInv
      <4>3. Len(sent[Len(sent)].payload) \in Nat
        BY <4>1, ElementOfSeq, MessageFields DEF TypeOK
      <4>4. offsets[Len(sent)] \in Nat
        <5>1. offsets \in Seq(Nat) /\ Len(offsets) = Len(sent) + 1
          BY DEF TypeOK, StreamInv
        <5>2. Len(sent) \in 1 .. Len(offsets)
          BY <1>1, <4>1, <5>1
        <5> QED BY <5>1, <5>2, ElementOfSeq
      <4> QED BY <4>2, <4>3, <4>4
    <3> QED BY <3>1, <3>2
  <2> QED BY <1>1, <2>1, <2>2
<1>3. k \in 1 .. Len(sent)
  BY <1>1, <1>2
<1>4. sent[k] \in TunnelMessage
  BY <1>3, ElementOfSeq DEF TypeOK
<1> HIDE DEF k
<1>5. ASSUME NEW j \in 1 .. 8 PROVE bytes_from_tunnel[j] = HeaderOf(sent[k])[j]
  <2>1. stream[offsets[k] + j] = HeaderOf(sent[k])[j]
    BY <1>3 DEF StreamInv
  <2>2. j \in 1 .. Len(bytes_from_tunnel)
    BY <1>1
  <2>3. bytes_from_tunnel[j] = stream[Position + j]
    BY <2>2 DEF ReaderInv
  <2>4. Position = offsets[k]
    BY <1>1 DEF k
  <2> QED BY <2>1, <2>3, <2>4
<1>6. bytes_from_tunnel \in Seq(Byte)
  BY DEF TypeOK
<1>7. parseHeader(bytes_from_tunnel) =
        [conn_id |-> sent[k].conn_id, length |-> Len(sent[k].payload), type |-> sent[k].type]
  BY <1>4, <1>5, <1>6, ParseHeaderOf
<1> QED BY <1>1, <1>2, <1>4, <1>7, Zenon DEF k, Header

LEMMA ReaderStepHeader ==
  ASSUME IInv, ReaderInv, TakeHeader
  PROVE  ReaderInv'
<1> USE DEF IInv
<1> DEFINE m == sent[Count + 1]
<1>1. wait_for_header /\ Len(bytes_from_tunnel) >= 8
  BY DEF TakeHeader, HeaderComplete, HEADER_SIZE
<1>2. /\ Count \in Nat /\ Count < Len(sent) /\ m \in TunnelMessage
      /\ Header.conn_id = m.conn_id /\ Header.type = m.type
      /\ Header.length = Len(m.payload)
  BY <1>1, HeaderIsNext
<1> HIDE DEF m
<1>3. /\ m.payload \in Seq(Byte) /\ Len(m.payload) \in Nat
      /\ m = [conn_id |-> m.conn_id, type |-> m.type, payload |-> m.payload]
  BY <1>2, MessageFields
<1>4. /\ UNCHANGED <<stream, arrived, sent, offsets, handled>>
      /\ current_conn_id' = m.conn_id /\ current_type' = m.type
      /\ wait_for_payload' = Len(m.payload)
      /\ wait_for_header' = (Len(m.payload) = 0)
      /\ bytes_from_tunnel' = Rest(8)
  BY <1>2 DEF TakeHeader, wire, history, HEADER_SIZE
<1>5. /\ Len(bytes_from_tunnel) \in Nat /\ arrived \in Nat
      /\ Len(bytes_from_tunnel) <= arrived
      /\ Position = arrived - Len(bytes_from_tunnel)
      /\ Position = offsets[Count + 1]
  BY <1>1, ReaderTypes DEF ReaderInv, Position
<1>6. /\ Len(bytes_from_tunnel') = Len(bytes_from_tunnel) - 8
      /\ \A j \in 1 .. Len(bytes_from_tunnel) - 8 :
           bytes_from_tunnel'[j] = bytes_from_tunnel[8 + j]
  BY <1>1, <1>4, RestProperties DEF TypeOK
<1>7. Position' = Position + 8 /\ Len(bytes_from_tunnel') <= arrived'
  BY <1>1, <1>4, <1>5, <1>6 DEF Position
<1>8. ASSUME NEW j \in 1 .. Len(bytes_from_tunnel')
      PROVE  bytes_from_tunnel'[j] = stream'[Position' + j]
  <2>1. j \in 1 .. Len(bytes_from_tunnel) - 8 /\ 8 + j \in 1 .. Len(bytes_from_tunnel)
    BY <1>1, <1>5, <1>6
  <2>2. bytes_from_tunnel[8 + j] = stream[Position + (8 + j)]
    BY <2>1 DEF ReaderInv
  <2>3. Position + (8 + j) = Position' + j
    BY <1>5, <1>7
  <2> QED BY <1>4, <1>6, <2>1, <2>2, <2>3
<1>9. CASE Len(m.payload) = 0
  <2>1. m.payload = <<>>
    BY <1>3, <1>9
  <2>2. reconstructed_messages' = Append(reconstructed_messages, m)
    BY <1>2, <1>3, <1>9, <2>1 DEF TakeHeader
  <2>3. /\ Count' = Count + 1 /\ Count' <= Len(sent')
        /\ \A i \in 1 .. Len(handled') : handled'[i] = sent'[i]
        /\ \A i \in 1 .. Len(reconstructed_messages') :
             reconstructed_messages'[i] = sent'[Len(handled') + i]
    BY <1>2, <1>4, <2>2, QueueAppend DEF m
  <2>4. offsets[Count + 1 + 1] = offsets[Count + 1] + 8 + Len(m.payload)
    <3>1. Count + 1 \in 1 .. Len(sent)
      BY <1>2, ReaderTypes
    <3> QED BY <3>1 DEF StreamInv, m
  <2>5. Position' = offsets'[Count' + 1] /\ wait_for_header' = TRUE
    <3>1. wait_for_header' = TRUE
      BY <1>4, <1>9
    <3>2. offsets'[Count' + 1] = offsets[Count + 1 + 1]
      BY <1>4, <2>3
    <3>3. offsets[Count + 1] = Position /\ Position \in Int
      BY <1>5
    <3> QED BY <1>7, <1>9, <2>4, <3>1, <3>2, <3>3
  <2> QED BY <1>7, <1>8, <2>3, <2>5 DEF ReaderInv
<1>10. CASE Len(m.payload) # 0
  <2>1. reconstructed_messages' = reconstructed_messages /\ wait_for_header' = FALSE
    BY <1>2, <1>4, <1>10 DEF TakeHeader
  <2>2. Count' = Count
    BY <1>4, <2>1 DEF Count
  <2>3. /\ Position' = offsets'[Count' + 1] + 8 /\ Count' < Len(sent')
        /\ sent'[Count' + 1] = m
    BY <1>2, <1>4, <1>5, <1>7, <2>2 DEF m
  <2>4. /\ \A i \in 1 .. Len(handled') : handled'[i] = sent'[i]
        /\ \A i \in 1 .. Len(reconstructed_messages') :
             reconstructed_messages'[i] = sent'[Len(handled') + i]
    BY <1>4, <2>1 DEF ReaderInv
  <2>5. Count' <= Len(sent')
    BY <1>2, <1>4, <2>2, ReaderTypes
  <2> QED BY <1>4, <1>7, <1>8, <2>1, <2>3, <2>4, <2>5 DEF ReaderInv
<1> QED BY <1>9, <1>10

LEMMA ReaderStepPayload ==
  ASSUME IInv, ReaderInv, TakePayload
  PROVE  ReaderInv'
<1> USE DEF IInv
<1> DEFINE k == Count + 1
           m == sent[k]
           w == wait_for_payload
           B == SubSeq(bytes_from_tunnel, 1, w)
<1>1. /\ Count \in Nat /\ Count < Len(sent) /\ Len(sent) \in Nat
      /\ Position = offsets[k] + 8
      /\ current_conn_id = m.conn_id /\ current_type = m.type /\ w = Len(m.payload)
  BY ReaderTypes DEF ReaderInv, TakePayload, Count
<1>2. /\ Len(bytes_from_tunnel) \in Nat /\ arrived \in Nat /\ w \in Nat
      /\ Len(stream) \in Nat /\ arrived <= Len(stream) /\ w > 0
      /\ Len(bytes_from_tunnel) <= arrived /\ w <= Len(bytes_from_tunnel)
      /\ Position = arrived - Len(bytes_from_tunnel)
  BY ReaderTypes DEF ReaderInv, StreamInv, LoopInv, Position, TakePayload, PayloadComplete
<1>3. k \in 1 .. Len(sent)
  BY <1>1
<1>4. m \in TunnelMessage
  BY <1>3, ElementOfSeq DEF TypeOK
<1>5. /\ m.payload \in Seq(Byte)
      /\ m = [conn_id |-> m.conn_id, type |-> m.type, payload |-> m.payload]
  BY <1>4, MessageFields
<1>6. k < Len(sent) \/ ~writing
  <2>1. SUFFICES ASSUME k = Len(sent), writing PROVE FALSE
    BY <1>1
  <2>2. Len(stream) = offsets[k] + 8
    BY <2>1 DEF StreamInv
  <2> QED BY <1>1, <1>2, <2>2
<1>7. \A j \in 1 .. Len(m.payload) : stream[offsets[k] + 8 + j] = m.payload[j]
  BY <1>3, <1>6 DEF StreamInv
<1>8. offsets[k + 1] = offsets[k] + 8 + Len(m.payload)
  BY <1>3 DEF StreamInv
<1>9. /\ B \in Seq(Byte) /\ Len(B) = w
      /\ \A j \in 1 .. w : B[j] = bytes_from_tunnel[j]
  <2>1. bytes_from_tunnel \in Seq(Byte)
    BY DEF TypeOK
  <2> QED BY <1>2, <2>1
<1>10. /\ UNCHANGED <<stream, arrived, sent, offsets, handled>>
       /\ wait_for_header' = TRUE
       /\ bytes_from_tunnel' = Rest(w)
       /\ reconstructed_messages' = Append(reconstructed_messages,
            [conn_id |-> current_conn_id, type |-> current_type, payload |-> B])
  BY DEF TakePayload, wire, history
<1>11. /\ Len(bytes_from_tunnel') = Len(bytes_from_tunnel) - w
       /\ \A j \in 1 .. Len(bytes_from_tunnel) - w :
            bytes_from_tunnel'[j] = bytes_from_tunnel[w + j]
  BY <1>2, <1>10, RestProperties DEF TypeOK
<1> HIDE DEF k, m, w, B
<1>12. B = m.payload
  <2>1. ASSUME NEW j \in 1 .. w PROVE B[j] = m.payload[j]
    <3>1. j \in 1 .. Len(bytes_from_tunnel)
      BY <1>2
    <3>2. bytes_from_tunnel[j] = stream[Position + j]
      BY <3>1 DEF ReaderInv
    <3>3. j \in 1 .. Len(m.payload)
      BY <1>1
    <3>4. stream[offsets[k] + 8 + j] = m.payload[j]
      BY <1>7, <3>3
    <3> QED BY <1>1, <1>9, <3>2, <3>4
  <2>2. Len(B) = Len(m.payload)
    BY <1>1, <1>9
  <2> QED BY <1>5, <1>9, <2>1, <2>2, SeqEqual
<1>13. reconstructed_messages' = Append(reconstructed_messages, m)
  BY <1>1, <1>5, <1>10, <1>12
<1>14. /\ Count' = Count + 1 /\ Count' <= Len(sent')
       /\ \A i \in 1 .. Len(handled') : handled'[i] = sent'[i]
       /\ \A i \in 1 .. Len(reconstructed_messages') :
            reconstructed_messages'[i] = sent'[Len(handled') + i]
  BY <1>1, <1>10, <1>13, QueueAppend DEF m, k
<1>15. Position' = Position + w /\ Len(bytes_from_tunnel') <= arrived'
  BY <1>2, <1>10, <1>11 DEF Position
<1>16. Position' = offsets'[Count' + 1]
  <2>1. offsets'[Count' + 1] = offsets[k + 1]
    BY <1>10, <1>14 DEF k
  <2> QED BY <1>1, <1>2, <1>8, <1>15, <2>1
<1>17. ASSUME NEW j \in 1 .. Len(bytes_from_tunnel')
       PROVE  bytes_from_tunnel'[j] = stream'[Position' + j]
  <2>1. j \in 1 .. Len(bytes_from_tunnel) - w /\ w + j \in 1 .. Len(bytes_from_tunnel)
    BY <1>2, <1>11
  <2>2. bytes_from_tunnel[w + j] = stream[Position + (w + j)]
    BY <2>1 DEF ReaderInv
  <2>3. Position + (w + j) = Position' + j
    BY <1>2, <1>15
  <2> QED BY <1>10, <1>11, <2>1, <2>2, <2>3
<1> QED BY <1>10, <1>14, <1>15, <1>16, <1>17 DEF ReaderInv

\* The message at the front of the queue is the next of those sent.
LEMMA ReaderStepProcess ==
  ASSUME IInv, ReaderInv, Process
  PROVE  /\ ReaderInv'
         /\ Len(handled) < Len(sent)
         /\ Head(reconstructed_messages) = sent[Len(handled) + 1]
<1> USE DEF IInv
<1> DEFINE q == Len(reconstructed_messages)
           h == Len(handled)
<1>1. /\ UNCHANGED <<stream, arrived, sent, offsets, bytes_from_tunnel, wait_for_header,
                     current_conn_id, current_type, wait_for_payload>>
      /\ handled' = Append(handled, Head(reconstructed_messages))
      /\ reconstructed_messages' = Tail(reconstructed_messages)
      /\ reconstructed_messages # <<>>
  BY DEF Process, wire, history
<1>2. /\ q \in Nat /\ h \in Nat /\ Len(sent) \in Nat /\ h + q <= Len(sent)
  BY ReaderTypes DEF ReaderInv, Count
<1>3. /\ q > 0 /\ Head(reconstructed_messages) = reconstructed_messages[1]
      /\ Len(reconstructed_messages') = q - 1
      /\ \A i \in 1 .. q - 1 : reconstructed_messages'[i] = reconstructed_messages[i + 1]
  BY <1>1 DEF TypeOK
<1>4. /\ Len(handled') = h + 1 /\ handled'[h + 1] = Head(reconstructed_messages)
      /\ \A i \in 1 .. h : handled'[i] = handled[i]
  BY <1>1 DEF TypeOK
<1>5. \A i \in 1 .. q : reconstructed_messages[i] = sent[h + i]
  BY DEF ReaderInv
<1>6. \A i \in 1 .. h : handled[i] = sent[i]
  BY DEF ReaderInv
<1> HIDE DEF q, h
<1>7. Head(reconstructed_messages) = sent[h + 1] /\ h < Len(sent)
  BY <1>2, <1>3, <1>5
<1>8. Count' = Count /\ Position' = Position
  BY <1>1, <1>2, <1>3, <1>4 DEF Count, Position, q, h
<1>9. \A i \in 1 .. h + 1 : handled'[i] = sent[i]
  <2> TAKE i \in 1 .. h + 1
  <2>1. i \in 1 .. h \/ i = h + 1
    BY <1>2
  <2> QED BY <1>4, <1>6, <1>7, <2>1
<1>10. ASSUME NEW i \in 1 .. q - 1 PROVE reconstructed_messages'[i] = sent[h + 1 + i]
  <2>1. i + 1 \in 1 .. q /\ h + (i + 1) = h + 1 + i
    BY <1>2
  <2> QED BY <1>3, <1>5, <2>1
<1>11. ReaderInv'
  <2>1. /\ \A i \in 1 .. Len(handled') : handled'[i] = sent'[i]
        /\ \A i \in 1 .. Len(reconstructed_messages') :
             reconstructed_messages'[i] = sent'[Len(handled') + i]
    BY <1>1, <1>3, <1>4, <1>9, <1>10
  <2> QED BY <1>1, <1>8, <2>1 DEF ReaderInv
<1> QED BY <1>7, <1>11 DEF h

\* A header taken from an untorn stream is never rejected.
LEMMA NeverRejected ==
  ASSUME IInv, ReaderInv, RejectHeader
  PROVE  FALSE
<1>1. wait_for_header /\ Len(bytes_from_tunnel) >= 8
  BY DEF RejectHeader, HeaderComplete, HEADER_SIZE
<1>2. /\ sent[Count + 1] \in TunnelMessage
      /\ Header.length = Len(sent[Count + 1].payload)
      /\ Header.type = sent[Count + 1].type
  BY <1>1, HeaderIsNext
<1>3. /\ isValidMessageType(sent[Count + 1].type)
      /\ Len(sent[Count + 1].payload) <= MAX_PAYLOAD_SIZE
  BY <1>2, MessageFields
<1> QED BY <1>2, <1>3, Zenon DEF RejectHeader, HeaderValid

\* A new connection finds the reconstructor at a message boundary, or tears.
LEMMA ReaderStepReconnect ==
  ASSUME IInv, Reconnect, ~torn'
  PROVE  ReaderInv'
<1> USE DEF IInv
<1>1. /\ bytes_from_tunnel' = <<>> /\ wait_for_header' = TRUE
      /\ reconstructed_messages' = <<>> /\ arrived' = 0
      /\ sent' = <<>> /\ handled' = <<>> /\ offsets' = <<0>>
  BY DEF Reconnect, AtBoundary, LoopInv, reconstructor, TypeOK
<1> QED BY <1>1 DEF ReaderInv, Position, Count

LEMMA ReaderStep == IInv /\ [Next]_vars /\ ~torn' => ReaderInv'
<1> SUFFICES ASSUME IInv, [Next]_vars, ~torn' PROVE ReaderInv'
  OBVIOUS
<1>1. CASE Reconnect
  BY <1>1, ReaderStepReconnect
<1>2. CASE ~Reconnect
  <2>1. ~torn
    BY <1>2 DEF Next, SendHeader, SendPayload, Recv, TakeHeader, RejectHeader,
       TakePayload, CollectDone, Process, ProcessDone, vars, history
  <2>2. ReaderInv
    BY <2>1 DEF IInv
  <2>3. ASSUME NEW m \in Messages, SendHeader(m) PROVE ReaderInv'
    BY <2>2, <2>3, ReaderStepSend
  <2>4. CASE SendPayload
    BY <2>2, <2>4, ReaderStepSend
  <2>5. ASSUME NEW n \in 1 .. RecvMax, Recv(n) PROVE ReaderInv'
    BY <2>2, <2>5, ReaderStepRecv
  <2>6. CASE TakeHeader
    BY <2>2, <2>6, ReaderStepHeader
  <2>7. CASE RejectHeader
    BY <2>2, <2>7, NeverRejected
  <2>8. CASE TakePayload
    BY <2>2, <2>8, ReaderStepPayload
  <2>9. CASE Process
    BY <2>2, <2>9, ReaderStepProcess
  <2>10. CASE UNCHANGED <<wire, reconstructor, history, handled>>
    <3>1. Count' = Count /\ Position' = Position
      BY <2>10 DEF Count, Position, wire, reconstructor
    <3> QED BY <2>2, <2>10, <3>1 DEF ReaderInv, wire, reconstructor, history
  <2>11. CASE CollectDone \/ ProcessDone \/ UNCHANGED vars
    BY <2>10, <2>11 DEF CollectDone, ProcessDone, vars
  <2> QED BY <1>2, <2>3, <2>4, <2>5, <2>6, <2>7, <2>8, <2>9, <2>11 DEF Next
<1> QED BY <1>1, <1>2

LEMMA StepInv == IInv /\ [Next]_vars => IInv'
<1> SUFFICES ASSUME IInv, [Next]_vars PROVE IInv'
  OBVIOUS
<1>1. TypeOK' /\ StreamInv' /\ LoopInv'
  BY TypeStep, StreamStep, LoopStep
<1>2. ~torn' => ReaderInv'
  BY ReaderStep
<1> QED BY <1>1, <1>2 DEF IInv

-----------------------------------------------------------------------------
\* The inductive invariant holds in every reachable state.
THEOREM Invariance == Spec => []IInv
BY InitInv, StepInv, PTL DEF Spec

\* Every variable of sender, stream and reconstructor keeps its type.
THEOREM TypeCorrect == Spec => []TypeOK
<1>1. IInv => TypeOK
  BY DEF IInv
<1> QED BY <1>1, Invariance, PTL

\* The reconstructor's output is a prefix of the messages sent, whatever the
\* segmentation of the stream, until a connection is lost inside a message.
THEOREM Faithful == Spec => []FramingFaithful
<1>1. IInv => FramingFaithful
  <2> SUFFICES ASSUME IInv, ~torn
      PROVE  /\ Len(Reconstructed) <= Len(sent)
             /\ \A i \in 1 .. Len(Reconstructed) : Reconstructed[i] = sent[i]
    BY DEF FramingFaithful
  <2> DEFINE h == Len(handled)
             q == Len(reconstructed_messages)
  <2>1. ReaderInv /\ TypeOK
    BY DEF IInv
  <2>2. h \in Nat /\ q \in Nat /\ Len(sent) \in Nat /\ h + q <= Len(sent)
    BY <2>1, ReaderTypes DEF ReaderInv, Count
  <2>3. /\ Len(Reconstructed) = h + q
        /\ \A i \in 1 .. h : Reconstructed[i] = handled[i]
        /\ \A i \in 1 .. q : Reconstructed[h + i] = reconstructed_messages[i]
    <3>1. handled \in Seq(RawMessage) /\ reconstructed_messages \in Seq(RawMessage)
      BY <2>1 DEF TypeOK
    <3> QED BY <3>1, ConcatParts DEF Reconstructed
  <2>4. /\ \A i \in 1 .. h : handled[i] = sent[i]
        /\ \A i \in 1 .. q : reconstructed_messages[i] = sent[h + i]
    BY <2>1 DEF ReaderInv
  <2> HIDE DEF h, q
  <2>5. ASSUME NEW i \in 1 .. h + q PROVE Reconstructed[i] = sent[i]
    <3>1. CASE i \in 1 .. h
      BY <2>3, <2>4, <3>1
    <3>2. CASE i > h
      <4> DEFINE j == i - h
      <4>1. j \in 1 .. q /\ i = h + j
        BY <2>2, <3>2
      <4> HIDE DEF j
      <4> QED BY <2>3, <2>4, <4>1
    <3> QED BY <2>2, <3>1, <3>2
  <2> QED BY <2>2, <2>3, <2>5
<1> QED BY <1>1, Invariance, PTL

\* No complete message waits in the reconstructor while the loop is in select.
THEOREM Complete == Spec => []QuiescentComplete
<1>1. IInv => QuiescentComplete
  <2> SUFFICES ASSUME IInv, ~torn, pc = "select", arrived = Len(stream), ~writing
      PROVE  handled = sent /\ AtBoundary
    BY DEF QuiescentComplete
  <2> USE DEF IInv
  <2>1. /\ Len(bytes_from_tunnel) \in Nat /\ Len(stream) \in Nat /\ Len(sent) \in Nat
        /\ Len(handled) \in Nat /\ wait_for_payload \in Nat
    BY ReaderTypes
  <2>2. reconstructed_messages = <<>>
    BY DEF LoopInv
  <2>3. Count = Len(handled) /\ Count <= Len(sent) /\ Count \in Nat
    BY <2>1, <2>2 DEF Count, ReaderInv
  <2>4. Position = Len(stream) - Len(bytes_from_tunnel)
    BY DEF Position
  <2>5. Count < Len(sent) => offsets[Count + 1] + 8 + Len(sent[Count + 1].payload) <= Len(stream)
    <3>1. Count < Len(sent) => Count + 1 \in 1 .. Len(sent)
      BY <2>1, <2>3
    <3> QED BY <3>1 DEF StreamInv
  <2>6. Len(stream) = offsets[Len(sent) + 1]
    BY DEF StreamInv
  <2>7. /\ Count < Len(sent) => Len(sent[Count + 1].payload) \in Nat
        /\ offsets[Count + 1] \in Nat
    <3>1. sent \in Seq(TunnelMessage) /\ offsets \in Seq(Nat) /\ Len(offsets) = Len(sent) + 1
      BY DEF TypeOK, StreamInv
    <3>2. Count + 1 \in 1 .. Len(offsets) /\ (Count < Len(sent) => Count + 1 \in 1 .. Len(sent))
      BY <2>1, <2>3, <3>1
    <3> QED BY <3>1, <3>2, ElementOfSeq, MessageFields
  <2>8. wait_for_header
    <3>1. SUFFICES ASSUME ~wait_for_header PROVE FALSE
      OBVIOUS
    <3>2. /\ Count < Len(sent) /\ Position = offsets[Count + 1] + 8
          /\ wait_for_payload = Len(sent[Count + 1].payload)
      BY <3>1 DEF ReaderInv
    <3>3. Len(bytes_from_tunnel) < wait_for_payload
      BY <3>1 DEF LoopInv
    <3> QED BY <2>1, <2>4, <2>5, <2>7, <3>2, <3>3
  <2>9. Position = offsets[Count + 1] /\ Len(bytes_from_tunnel) < 8
    BY <2>8 DEF ReaderInv, LoopInv
  <2>10. Count = Len(sent)
    <3>1. SUFFICES ASSUME Count < Len(sent) PROVE FALSE
      BY <2>1, <2>3
    <3> QED BY <2>1, <2>4, <2>5, <2>7, <2>9, <3>1
  <2>11. Len(bytes_from_tunnel) = 0
    BY <2>1, <2>4, <2>6, <2>9, <2>10
  <2>12. bytes_from_tunnel = <<>>
    BY <2>11 DEF TypeOK
  <2>13. handled = sent
    <3>1. \A i \in 1 .. Len(handled) : handled[i] = sent[i]
      BY DEF ReaderInv
    <3>2. handled \in Seq(RawMessage) /\ sent \in Seq(RawMessage)
      <4>1. TunnelMessage \subseteq RawMessage
        BY MessageFields
      <4>2. handled \in Seq(RawMessage) /\ sent \in Seq(TunnelMessage)
        BY DEF TypeOK
      <4> QED BY <4>1, <4>2, SeqMonotonic
    <3>3. Len(handled) = Len(sent)
      BY <2>3, <2>10
    <3> QED BY <3>1, <3>2, <3>3, SeqEqual
  <2> QED BY <2>8, <2>12, <2>13 DEF AtBoundary
<1> QED BY <1>1, Invariance, PTL

\* Sender, stream and reconstructor together implement the channel of messages:
\* sending is Send, handling the front of the queue is Deliver, a new connection
\* is Break, and every other step leaves the channel unchanged.
THEOREM ImplementsMessageChannel == Spec => ImplementsChannel
<1>1. Init => Channel!Init
  BY DEF Init, Channel!Init
<1>2. IInv /\ [Next]_vars => [Channel!Next]_(Channel!vars)
  <2> SUFFICES ASSUME IInv, [Next]_vars PROVE [Channel!Next]_(Channel!vars)
    OBVIOUS
  <2>1. ASSUME NEW m \in Messages, SendHeader(m) PROVE Channel!Next
    <3>1. Channel!Send(m)
      BY <2>1 DEF SendHeader, Channel!Send
    <3> QED BY <3>1 DEF Channel!Next
  <2>2. CASE Process
    <3>1. CASE torn
      BY <2>2, <3>1 DEF Process, history, Channel!Next, Channel!Garbled
    <3>2. CASE ~torn
      <4>1. ReaderInv
        BY <3>2 DEF IInv
      <4>2. /\ Len(handled) < Len(sent)
            /\ Head(reconstructed_messages) = sent[Len(handled) + 1]
        BY <2>2, <4>1, ReaderStepProcess
      <4>3. /\ handled' = Append(handled, Head(reconstructed_messages))
            /\ sent' = sent /\ torn' = torn
        BY <2>2 DEF Process, history
      <4> QED BY <4>2, <4>3 DEF Channel!Next, Channel!Deliver
    <3> QED BY <3>1, <3>2
  <2>3. CASE Reconnect
    BY <2>3 DEF Reconnect, Channel!Next, Channel!Break
  <2>4. CASE UNCHANGED <<sent, handled, torn>>
    BY <2>4 DEF Channel!vars
  <2> QED BY <2>1, <2>2, <2>3, <2>4 DEF Next, SendPayload, Recv, TakeHeader,
        RejectHeader, TakePayload, CollectDone, ProcessDone, vars, history
<1> QED BY <1>1, <1>2, Invariance, PTL DEF Spec, ImplementsChannel, Channel!Spec

=============================================================================
