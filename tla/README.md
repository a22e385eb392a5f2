# Verification of tunnel_in_out

tunnel_in_out carries TCP connections and UDP datagrams into a network that only
allows outgoing connections. **TunnelServer** runs outside: it listens for outside
peers and for the tunnel. **TunnelClient** runs inside: it connects to the server
over one TCP connection, the *tunnel*, and makes a connection to a fixed destination
for each connection the server accepts. When the tunnel is lost the client connects
again, and both programs keep the connections they have.

This directory holds TLA+ models of the programs, TLC configurations, and proofs
checked by TLAPS. `PROJECT.json` lists components, runs, mutants, hazards, findings and
theorems, and maps definitions to source lines. Paths are relative to the repository,
which is `src/` here; the programs are in its `src` directory.

    tlc -workers 2 -config System_stream.cfg MCTunnelSystem     one run
    tlc -workers 2 -config SelectLoop.cfg SelectLoop            another
    tlapm TunnelFramingProofs.tla                               the proofs of a module

## Inventory

| part | state | operations | talks to |
|---|---|---|---|
| protocol (`tunnel_protocol`) | none | createHeader, parseHeader, isValidMessageType | both loops |
| `sendTunnelMessage` | none | header write, payload write | tunnel socket |
| reconstructor | byte buffer, awaited header or payload, queue of messages | collect_from_tunnel, hasMessages, frontMessage, popMessage | fed and drained by a loop |
| connection manager | conn_id -> socket, socket -> conn_id, next_conn_id | allocate, add, remove, get..., markInvalid | both loops, static in each |
| server loop | tunnel, socket list, last UDP sender, reconstructor, connections | one handler per ready socket: stdin, tunnel listener, outside listener, outside UDP, outside connections, tunnel | client by messages; peers |
| client loop | tunnel, reconstructor (global), connections (static) | stdin, tunnel, UDP, destination connections | server by messages; destination |
| client main | attempt counter | connectWithRetry, reconnection loop | server |
| TCP, UDP sockets | descriptor, port, valid | create, accept, connect, recv, send, close | kernel |
| SockAddr, argument parsing, logging, OutsideUDP, test.cc, scripts | | | start-up, output, tools |

Each program is one thread around `select`, so nothing races inside a process. Inside one,
what is hard is that one answer of `select` is used for a whole iteration, in which
descriptors are closed and their numbers given out again; that the descriptors to select on are
listed apart from the objects that own them; and that some sockets block and others do not.
The rest is between the two: two tables that must agree and are updated by messages in flight
in both directions; a tunnel that disappears with any part of what is in flight, at
any point of any handler; processes that restart with empty tables while the other
side keeps its own; a stream cut at any byte, of which a part of a message stays in the
reconstructor and is joined to the bytes of the next tunnel; writes that fail, are lost silently, or
kill the process with SIGPIPE. The `hazards` of `PROJECT.json` list these by line.

What makes the parts correct: the reconstructor returns what was sent, whatever the
segments; the manager's maps are inverse and own exactly the open descriptors; the
loops keep the two tables in agreement, deliver each connection's data to its own other
end, in order and without gaps, close both ends when one ends, and get the tunnel back.

## Modules

| module | models | extends |
|---|---|---|
| `TunnelProtocol` | the header, byte by byte | |
| `TunnelFraming` | one direction of a tunnel in bytes: `sendTunnelMessage`, `collect_from_tunnel`, the loop over messages, replacement of the connection | `TunnelProtocol` |
| `MessageChannel` | what framing promises: messages delivered in order, none invented, until a connection is torn inside one | |
| `TunnelFramingProofs` | the inductive invariant and theorems | `TunnelFraming` |
| `TCPConnectionManager` | the class, and how each program calls it | |
| `TCPConnectionManagerProofs` | | `TCPConnectionManager` |
| `TunnelWire` | state shared by the two programs, the tunnel connections, sending and closing | `TunnelProtocol` |
| `TunnelServer`, `TunnelClient` | the handlers of the two dispatch loops, start and end of the processes | `TunnelWire` |
| `TunnelSystem` | both programs, peers, destination, network; fairness; properties | both |
| `TunnelSystemProofs` | | `TunnelSystem` |
| `TunnelOrderProofs` | | `TunnelSystemProofs` |
| `TunnelLosslessProofs` | | `TunnelOrderProofs` |
| `TunnelRelayProofs` | | `TunnelLosslessProofs` |
| `RelayService` | what the two programs promise the peers of a connection | |
| `SelectLoop` | either program seen from its descriptors: select, the sections of an iteration in order, accept, close, stdin | |
| `SelectLoopProofs` | | `SelectLoop` |
| `TunnelFlow` | both programs with buffers of a limited size: blocking and partial writes, batches, UDP senders | |
| `TunnelFlowProofs` | | `TunnelFlow` |
| `MC...` | symmetry, message and item sets for TLC | |

**Framing.** The variables are the fields of TunnelMessageReconstructor, the stream, and
`pc`, which says whether the receiving loop is in select, in `collect_from_tunnel` or in
the loop over messages. The turns of the `while` are the actions TakeHeader,
RejectHeader, TakePayload and CollectDone. `torn` records that a connection was replaced
with the reconstructor inside a message.

**Manager.** `open` is the set of descriptors the process has open; `addConnection` and
`removeConnection` say what the unique_ptr in an entry does to them.

**System.** One action is one handler for one ready socket, as a whole. A *session* is
an outside connection and what comes of it; messages carry the session they belong
to, which only the properties read. An *item* is what one `recv` on a connection
returns. A tunnel connection has a number; the server's end is `serverTunnel` or waits in
`backlog`, the client's is `clientTunnel`. An end is *cut* when the network broke it
or the other side closed. A write to a cut end is lost, or fails, or kills the process
(ServerSigpipe, ClientSigpipe). What was in flight loses any tail (LoseToClient, LoseToServer), a message
whose write the cut falls into included: whole messages, and of the last one that
still arrives perhaps a part.

*Parts of messages.* The reconstructor outlives the tunnel, in the client because it is global
(`tunnel_client_dispatch.cc:29`, where line 392 clears nothing), in the server because it
is a local of the loop over all tunnels (`tunnel_server_dispatch.cc:54`).
`halfToClient` and `halfToServer` are the tunnels that were lost inside a message, so that the
reconstructor may hold a part of it; only the end of the process empties them. While there is one of an
older tunnel (ClientOutOfStep, ServerOutOfStep) the bytes of the present one complete that part, and
what is read is not what was sent. ServerMisreads and ClientMisreads replace the next message by
nothing (its bytes wait, or are rejected) or by any message that bytes of some
user's data may happen to form: data of any session for any number, a TCP_CLOSE of any number, for the
client a TCP_OPEN of any number. The history variable `misread` records that this has happened once. From then on
every message may be misread or, if the reconstructor has found a header where there is one, read as it
was sent. Two bounds: one message comes out for one, and a TCP_OPEN that nobody sent makes its connection to the
destination under the name of a session that has none.

*What is claimed about it.* After `misread` bytes of one connection may reach another, so IdAgreement,
SpliceExclusive and InOrder hold up to it and are silent afterwards, and the service that
ImplementsRelay speaks of promises nothing any more. That is not a rare state: a tunnel lost inside a message
and replaced is enough, and `framing_reconnect` shows it in bytes. A tunnel lost between
messages, or inside one whose receiver was started again, leaves no part, and the properties go on
to hold. With one tunnel there is nothing to misread (NothingMisread).

`ConnectFails` is an attempt to connect that fails: the server does not run, or the network is down, which
counts as a fault of the kind "break".

A peer that ends a connection closes it ("fin"), resets it ("rst"), or shuts down
only its sending side ("half") and goes on reading; the programs cannot tell "fin" from "half".

**Select loop.** One action is one section of an iteration for one descriptor; `pc` is the
next section, `role` says which program it is. `owner`, `nonblocking` and `ready` are the kernel's,
`listed` is the vector (`sockets`, `read_sockets`), `tunnel` and `table` the objects that own
descriptors, `bits` the part of the answer of select that may still be used. `socket` and
`accept` return the lowest free number. `ready` is what a read would find: data, the end, nothing, or
a datagram that the read will discard because its checksum is wrong ("bad"). A read or accept that
finds nothing on a blocking socket makes the thread wait (`blocked`). stdin may be readable at any
time; at its end it always is, which is a `Stdin` step that changes nothing.

**Flow.** Each program is one thread; `writing` is the message of a tunnel write that has not
returned, and as long as there is one the thread does nothing else. `batch` is the
reconstructor's queue, `wire` a direction of the tunnel. An item has two units, of which a
non-blocking write takes as many as the socket of the connection has room for.

**Refinements.** `TunnelFraming` implements `MessageChannel` (ImplementsChannel) and
`TunnelSystem` implements `RelayService` (ImplementsRelay). The second maps what peers can see: what they
did, what they sent and got. A relay step is a connect, a send, an end or the delivery of a later
item of the same session; `Lossless`, which is `OneTunnel` (the network cuts no tunnel and no program is started
again; programs may end), makes it the next item. Everything
else the two programs do must be a stutter. The service's own variable `misread` ends its promise, unless it
is Lossless: then it has no such step.

Simplifications, and why they are sound for the properties stated:

- In `TunnelSystem` any handler of a ready socket runs next; the code runs them in a fixed order, which
  `SelectLoop` models. That allows more interleavings than the code, never fewer:
  a socket that becomes ready later is seen by a later `select`.
- A client handler that finds the tunnel lost sets `cont_loop`, and the rest of the
  iteration still reads the other sockets. With the tunnel lost those reads do
  the same before as after, so the model orders them before and leaves at once.
- `recv` on the tunnel returns one message at a time. `TunnelFraming` is about how messages are
  cut out of the bytes. Of a message left in part by a lost tunnel `TunnelSystem` keeps that it is there, not its bytes:
  what can come of it is the nondeterministic choice described above.
- In `TunnelSystem` UDP datagrams are only traffic on the tunnel. Their addresses are in `TunnelFlow`.
- Quitting with Q has the effect of killing the process: all its sockets are closed.
- A network that silently drops packets without either side noticing is not modelled (the
  programs set no keepalive and would wait).
- In `TunnelSystem` a failed write to a connection delivers nothing of the item, and tunnel writes do not
  wait. `TunnelFlow` has partial and blocking writes, without loss of the tunnel and without peers
  that close.
- `SelectLoop` leaves out what is read and written, except where it opens or closes a descriptor.
  What a user types is there to be read at once: a line that stdio has buffered
  behind its first character is seen only when stdin becomes readable again.
- The process may open fewer descriptors than FD_SETSIZE. Above that FD_SET is undefined.
- In `TunnelFlow` a message is one slot of a tunnel buffer, whatever its length.

## Runs

| run | instance | shows |
|---|---|---|
| framing | 3 messages of different types, with and without payload, any segments, one reconnection | TypeOK, FramingFaithful, QuiescentComplete, ImplementsChannel |
| manager | either program, 3 descriptors, 6 allocations of 7 ids | maps inverse, descriptors neither leaked nor used after close, allocated ids fresh |
| system_stream | 1 session, 2 items each way, all three ends, either program or both killed, fair | one tunnel: Gapless, ImplementsRelay (lossless), EndsTogether, Drained; NoOrphans: a difference between the tables is always about to be repaired by a message in flight |
| system_faults | 2 sessions, 1 item each way, up to three faults: tunnel cut or network down, client killed, client started | TypeOK; IdAgreement, SpliceExclusive, ImplementsRelay until a part of a message is misread |
| system_order | 1 session, 2 items each way, all three ends, two faults: the same, and the server killed | InOrder until a part of a message is misread |
| system_reconnect | 1 session, 1 item each way, a datagram, close and reset, all kinds of fault, two of them, fair | TunnelRestored |
| select_loop | the server with 6 descriptors, the client with 4; fair | SelectSetExact, OwnedOnce, NeverHangs: no iteration confuses descriptors or waits in a read; Served, TunnelAdmitted: what is ready is served |
| flow | 2 connections, 2 hosts, a tunnel of 2 messages, sockets of one item and a half, 3 items one way and 2 the other, 2 datagrams; fair | StreamWhole, RightHost, FlowsOn: only a mutual block stops the flow |

Bounds. Two sessions are the fewest that can be confused and two items the fewest that
can be reordered, doubled or leave a gap. A restart is two faults (death, start); one cut is
enough for a lost message, two for a queue of dead tunnels. The peers of system_faults do not close: there
connections leave the tables through failed writes and lost tunnels, elsewhere through their ends as well. No run of
IdAgreement, SpliceExclusive or InOrder starts the server again: then they fail at once, with two sessions, as
`system_reuse` shows. system_order needs one session, because order is a matter of one connection. system_reconnect
looks only at the tunnel, which connections and datagrams matter to only by the writes in
which a loss is noticed; it starts either program again, and one connection, its ends and one datagram are all kinds of write. Three
server descriptors are fixed and the fourth is the tunnel's, so six leave room for
two connections, one of them only while no new tunnel is accepted: descriptors run out, and a closed number is
reused within an iteration. The client has a UDP socket, the tunnel and two connections. A socket of one item and
a half takes a part of the second; a tunnel of two messages fills while a batch is handled. `MaxAttempts` is 2
for 100: what matters is that it is reached. In the manager six allocations of seven ids go up to
the wrap. The system runs, select_loop and flow do not check deadlock: peers may
fall silent, a killed process may stay dead, and all may be forwarded.

Fairness. `FairSpec` has weak fairness for each handler with its socket, because `select`
reports every ready socket and the loop serves all of them before it calls `select`
again, and for the attempts of `connectWithRetry`. A tunnel handler that finds a part of an older message in the
reconstructor runs too, as a misreading. Peers, faults and restarts have none, and
an outcome (a write failing, a connect refused) is never owed. That every ready socket gets
its turn is what `Served` shows in `SelectLoop`, whose only fairness is that the thread runs and that a batch of
messages ends (it is finite). That a write to the tunnel does not wait for ever is an assumption of
`TunnelSystem`; `TunnelFlow` shows when it holds, with fairness for each thread as a whole. There the input is
finite, so a thread that goes on comes to everything. No peer is ever assumed to read.

Disagreements between code and documentation, each a run that TLC must refute:

| run | the text | the code |
|---|---|---|
| framing_reconnect | "Clear any remaining data in reconstructor", "only in-flight tunnel data" | nothing is cleared; a partial header swallows messages of the next connection |
| system_sigpipe | "automatically reconnects" | SIGPIPE kills the process |
| system_reuse | "unique conn_id for proper routing" | a restarted server reuses numbers the client still holds |
| flow_deadlock | "Multiple TCP connections don't block each other" | both programs wait in a write to a full tunnel that neither reads |

The models show more of this kind, without a run of their own. The server removes an outside
connection when its TCP_DATA cannot be sent (`tunnel_server_dispatch.cc:297`), where `README.md:232` says "preserved on both
sides"; it reads and drops data while it has no tunnel (line 286), where `README.md:233` says "OS buffers hold
data". `tcp.cc:240` calls EWOULDBLOCK unexpected "in blocking mode", but connections are non-blocking, and a
peer that reads slowly loses its connection (`HandleData`). UDP is delayed by a slow tunnel write like all else (`README.md:460`
says "never delayed by slow TCP connections"). With `Faults = {"break"}` Gapless
fails: a preserved connection goes on behind a hole in its stream, where `README.md:10` says
"transparently"; and so do SpliceExclusive and InOrder without their condition `~misread`, by the defect that
framing_reconnect shows. The client gives up after max_attempts (phase "gaveup"), where `README.md:219` says
"Repeats indefinitely". No outside connection outlives the server process, where `README.md:395` expects a
download to. After 2^32 connections allocateConnId
may return a number in use (UniqueConnId stops short of that), where `tcp_connection_manager.h:10` says "unique".

NoOrphans, Gapless, EndsTogether and Drained are properties of one tunnel (`OneTunnel`): with a tunnel that
takes the place of another a TCP_CLOSE can be lost, and one half of a connection then stays open, or data, and the
stream goes on behind the hole. A program may end at any time, killed, or by SIGPIPE without any fault of the network (a
peer that closes while data is on its way to it). Gapless holds then too; EndsTogether and Drained leave that case out by
name (`Dead`), and NoOrphans says nothing when one of the two tables is gone.

## Proofs

`TunnelFramingProofs` proves for every set of messages of the declared types, any segment
size and any number of messages and reconnections: the header round trip; TypeOK;
FramingFaithful; QuiescentComplete; and that the byte-level pair implements `MessageChannel`.
The invariants are not inductive: they speak of messages, the steps of bytes. The
strengthening says where the bytes are. StreamInv: the stream is the concatenation of the encoded messages
(less the payload being written), `offsets` giving where each starts. LoopInv: what
the pc says about the buffer and the queue. ReaderInv, as long as no
connection was torn: the reconstructed messages are the first k sent, and the buffer is exactly
the read bytes of the stream from the end of message k (or of the header of message k+1, whose
fields are then in current_conn_id, current_type, wait_for_payload). One lemma per action preserves it. The only
assumptions are those on the constants.

`TCPConnectionManagerProofs` proves TypeOK, MappingConsistent, SocketsOwned and UniqueConnId for any
descriptors and id space, assuming that fewer connections are allocated than there are ids; the
strengthening bounds the ids in the table by next_conn_id.

`SelectLoopProofs` proves for any number of descriptors, in either program, TypeOK, SelectSetExact, OwnedOnce and
NeverHangs. What makes them inductive: the list is the open descriptors that are no connection (Listed), and the table
those that are; until the section that may first open a descriptor, all bits belong to open ones
(FreshBits); and the bit of a listener or of the tunnel is true until that socket is read (TrueBits), because a number reused
in the iteration belongs to a connection, except the new tunnel's, which is opened before anything is closed, so that it has
no old bit. Connections are non-blocking (Nonblocking), so their old bits do no harm. That the tunnel is accepted first in an
iteration, and before the old one is closed, is what this argument needs of the code.

`TunnelFlowProofs` proves for any connections, hosts, items, buffer sizes and numbers of datagrams: TypeOK, StreamWhole and
RightHost. StreamWhole alone is not inductive: it says nothing of what is still to come. `Flow(side)` is all that is in
flight to a side, the rest of its batch, then the tunnel, then the write of the other side. FlowSound: it carries only what
was read, the items of one connection in increasing order. AllSplit: of each open connection the first k items are wholly with the
peer, and each later one that was read is in flight. So data that comes first in flight for an open connection is its item
k+1 (NextItem). If the write takes only a part of it the connection leaves the table and nothing is written to it
again; without that step AllSplit fails. For RightHost, last_udp_sender is the sender of the last datagram (LastSender) and a
response answers a request already read (FlowSound).

`TunnelSystemProofs` proves for any sessions, bounds and faults TypeOK; and, assuming that the server is not started
again (`"startServer" \notin Faults`), IdAgreement and SpliceExclusive, both until `misread`. TypeOK needs two counts: IdsOK, that the numbers
left are enough for the connections that wait; TunnelsOK, that the client's tunnel is the newest, those in the listen queue are
newer than the one the server holds, and each but the first has its fault. For the other two, `Known(id, s)` says that a
table or a message on the way has the number id for the connection s. KnownOnce: a number is known for one connection
at most, and is below next_conn_id. Every step keeps or forgets what is known, except AcceptOutside, which gives the
number next_conn_id (NewsStep has this action by action). All this is proved of the steps in step with the stream
(InStep); MisreadKept says that `misread` is never taken back, so that a step after which it is false is one of them (InStepBefore), and
HalvesOK that only tunnels that were made leave parts. Data is delivered to s when the message and the table
know its number, hence to the connection it came from. A server that is started again counts from 1 while the client still has its
old entries: the assumption is needed, and the run `system_reuse` shows the violation without it.

`TunnelOrderProofs` proves InOrder under the same assumption, until `misread`. InOrder speaks of what has arrived; the strengthening is about
what is on the way. The items of one connection increase along each queue and from an older tunnel to a newer
one (Rising, InTurn), they come after all that was received (Ahead), and none is above the number read. The client sends only on its
newest tunnel, so its new item comes last; the server reads only the tunnel it holds, so it must be the oldest that carries
anything (HeldOK: what carries something is held, or waits in the listen queue after the one that is held). Each step loses
messages, adds one that is no data, reads an item and perhaps sends it, or delivers the first (Moves), and each of
these keeps the order.

`TunnelLosslessProofs` proves NoOrphans and Gapless for any sessions and bounds, from `OneTunnel` alone: data and messages may be
sent, refused and crossed in any order, peers may end and programs be killed at any point. NothingMisread comes first: a part that is
misread was left by an older tunnel than the present one, and there is no older one, so `misread` stays FALSE and all that
is proved until `misread` holds for ever. Five more invariants are needed.
OpenInv: a connection that waits for its number has no connection to the destination; at most one TCP_OPEN is on the way for the
others, as the first message of its connection, and none once the destination was connected to. LinkInv: nothing was read
of a connection that waits, and an entry of the client's table has been connected. CalmInv: there is at most one tunnel,
and while both programs run it leads from one to the other (BothFacts), or the server has not accepted it yet and
has no connection. NoOrphans is not inductive, because it does not say which messages exclude each other. The strengthening
is ToldInv, for each number: what one table lacks is on the way as a TCP_OPEN or TCP_CLOSE, a TCP_CLOSE to the client means that the
server's entry is gone, and a TCP_CLOSE to the server and a TCP_OPEN are never under way at once. Gapless follows from FlowInv:
for a connection that will still take data, the items received, on the way and read join on without a gap (Flows): up to each item
on the way, and up to the last item read as long as both programs run. When a program ends, what is left of a queue is a beginning of
it, and FlowsShorter says that a beginning is still without a gap. A connection whose write failed, or whose peer is gone,
takes no more (ServerDataGoes, ClientDataGoes): its number is not used again. The first item that is taken for one
that does is therefore the next (FirstNext).

`TunnelRelayProofs` proves that the two programs implement `RelayService` if the server is not started again, for any faults: items may
be missing where a tunnel takes the place of another, and none are with one tunnel. The first misreading maps to Misread, and what
comes after it to Garbled, of which nothing is asked; with one tunnel there is neither. Delivery maps to Deliver by what the order
proofs say of the first message in flight, and by Gapless before and after the step; the connect to the destination
maps to Connect by OpenInv. Everything else is a stutter of the service.

Every invariant and refinement that a run checks is proved for all values of the constants, under the assumptions named here.
Only model-checked: liveness (EndsTogether, Drained, TunnelRestored, Served, TunnelAdmitted, FlowsOn), which rests on fairness and
ENABLED and is out of the prover's reach. Nothing is proved by induction over data.

## Not modelled

- Time: connect to the destination takes one step, in the code it may hold the only thread for minutes; the delay between attempts.
- Descriptors of FD_SETSIZE and more, and the exhaustion of memory (the reconstructor's queue is bounded by
  one read; the kernel's queues by configuration).
- A network that loses packets without an error at either end, and TCP itself: segments, acknowledgements, keepalive.
- The tunnel lost in the middle of a blocking write: `TunnelSystem` has the loss, `TunnelFlow` the blocking.
- UDPPacket, which neither program uses; argument parsing, SockAddr, logging, the OutsideUDP tool, test.cc and the scripts: no state
  of the tunnel is in them.
