--------------------------- MODULE TunnelProtocol ---------------------------
(***************************************************************************)
(* The tunnel's wire format (tunnel_protocol.h, tunnel_protocol.cc): a     *)
(* message is an 8-byte header, conn_id (4 bytes), length (2 bytes), type  *)
(* (2 bytes), in network byte order, followed by length payload bytes.     *)
(***************************************************************************)
EXTENDS Integers, Sequences

\* enum class TunnelMessageType : uint16_t
UDP_PACKET == 1
TCP_OPEN   == 2
TCP_DATA   == 3
TCP_CLOSE  == 4

HEADER_SIZE == 8
MAX_PAYLOAD_SIZE == 65535

Byte == 0 .. 255

\* uint16_t and uint32_t: a number below 2^32 is one whose fourth byte is the
\* last. Stated by bytes, no literal here leaves the range of TLC's integers.
UInt16 == {n \in Nat : n \div 256 <= 255}
UInt32 == {n \in Nat : ((n \div 256) \div 256) \div 256 <= 255}

isValidMessageType(type) == UDP_PACKET <= type /\ type <= TCP_CLOSE

\* What a TunnelMessage (tunnel_message_reconstructor.h) holds when one of
\* the two programs has built it: a declared type, and a payload whose length
\* fits the uint16_t parameter of sendTunnelMessage.
TunnelMessage ==
  [conn_id : UInt32,
   type    : {UDP_PACKET, TCP_OPEN, TCP_DATA, TCP_CLOSE},
   payload : {p \in Seq(Byte) : Len(p) <= MAX_PAYLOAD_SIZE}]

\* htonl and htons: the most significant byte first.
htonl(n) == <<((n \div 256) \div 256) \div 256, ((n \div 256) \div 256) % 256,
              (n \div 256) % 256, n % 256>>
htons(n) == <<n \div 256, n % 256>>

\* createHeader writes htonl(conn_id), htons(length), htons(type).
createHeader(conn_id, length, type) ==
  LET c == htonl(conn_id)
      l == htons(length)
      t == htons(type)
  IN  <<c[1], c[2], c[3], c[4], l[1], l[2], t[1], t[2]>>

\* parseHeader reads the first HEADER_SIZE bytes of b.
ntohl(b) == 256 * (256 * (256 * b[1] + b[2]) + b[3]) + b[4]
ntohs(b, i) == 256 * b[i] + b[i + 1]

parseHeader(b) ==
  [conn_id |-> ntohl(b), length |-> ntohs(b, 5), type |-> ntohs(b, 7)]

=============================================================================
