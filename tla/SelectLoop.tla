----------------------------- MODULE SelectLoop -----------------------------
(***************************************************************************)
(* One thread, select and descriptors: the two dispatch_loops seen from the*)
(* descriptors they own. TunnelServer and TunnelClient treat a handler as a*)
(* step that happens when its socket is ready; this module is about what   *)
(* makes that true. An iteration asks select once and then runs its        *)
(* handlers in a fixed order on the answer, while they open and close      *)
(* descriptors, whose numbers the kernel gives out again at once. The      *)
(* descriptors to ask about are kept apart from the objects that own them. *)
(*                                                                         *)
(* Descriptor 0 is stdin: it is always open, and may be readable at any    *)
(* time (the user types, or it is at its end and stays readable). pc is the*)
(* next section of the iteration. What is read or written is left out,     *)
(* unless it opens or closes a descriptor.                                 *)
(***************************************************************************)
EXTENDS Naturals, Sequences

CONSTANTS
  ServerLimit,  \* descriptors the server may open besides stdin
  ClientLimit   \* the same for the client (below FD_SETSIZE both)

ASSUME LimitAssumption == ServerLimit \in Nat /\ ClientLimit \in Nat

VARIABLES
  role,         \* which program this is
  pc,
  owner,        \* kernel: what an open descriptor is, or "free"
  nonblocking,  \* kernel: descriptors with O_NONBLOCK
  ready,        \* kernel: what a read or accept would find
  listed,       \* the vector sockets (read_sockets), without stdin
  tunnel,       \* the descriptor of the tunnel object, 0 when there is none
  table,        \* the descriptors in tcp_connections
  bits,         \* the answer of the last select, as far as it is yet to be used
  todo,         \* connections of the table this iteration has still to read
  leaving,      \* why cont_loop is false: "quit", "lost", or "no"
  blocked       \* the descriptor on which a read or accept waits, 0 when none

kernelVars == <<owner, nonblocking, ready>>
ownVars == <<listed, tunnel, table>>
vars == <<role, pc, kernelVars, ownVars, bits, todo, leaving, blocked>>

FDs == 1 .. ServerLimit \cup 1 .. ClientLimit
Kinds == {"tunnel_listener", "udp", "outside_listener", "tunnel", "conn"}
\* "bad": a datagram that the read discards, because its checksum is wrong.
Readiness == {"no", "data", "end", "bad"}

\* The sockets main opens before the loop, in this order.
Fixed == IF role = "server" THEN <<"tunnel_listener", "udp", "outside_listener">>
         ELSE <<"udp">>

\* The sections of an iteration in the order of the code. batch is the loop over
\* the messages that one read of the tunnel completed.
After ==
  IF role = "server"
  THEN [stdin |-> "accept_tunnel", accept_tunnel |-> "accept_outside",
        accept_outside |-> "udp", udp |-> "conns", conns |-> "tunnel",
        tunnel |-> "end", batch |-> "end"]
  ELSE [stdin |-> "tunnel", tunnel |-> "udp", batch |-> "udp", udp |-> "conns",
        conns |-> "end"]

Init ==
  /\ role \in {"server", "client"}
  /\ pc = "start"
  /\ owner = [f \in FDs |-> "free"] /\ nonblocking = {}
  /\ ready = [f \in FDs |-> "no"]
  /\ listed = {} /\ tunnel = 0 /\ table = {}
  /\ bits = {} /\ todo = {} /\ leaving = "no" /\ blocked = 0

-----------------------------------------------------------------------------
(* The kernel's descriptor table.                                          *)

Open == {f \in FDs : owner[f] # "free"}
Free == 1 .. (IF role = "server" THEN ServerLimit ELSE ClientLimit) \ Open

\* socket and accept return the lowest number that is free.
Lowest(f) == f \in Free /\ \A g \in Free : f <= g

\* The descriptors in read are read, those in drop are closed, and new (a set of at
\* most one) is opened. Nothing is ready on any of them.
Kernel(read, drop, new, kind) ==
  /\ owner' = [g \in FDs |-> IF g \in new THEN kind
                             ELSE IF g \in drop THEN "free" ELSE owner[g]]
  /\ ready' = [g \in FDs |-> IF g \in read \cup drop \cup new THEN "no"
                             ELSE ready[g]]

Close(read, drop) ==
  Kernel(read, drop, {}, "free") /\ nonblocking' = nonblocking \ drop

-----------------------------------------------------------------------------
(* Before and after the loop.                                              *)

\* The process ends: every object that owns a descriptor closes it.
Exit ==
  /\ pc' = "done"
  /\ Close({}, FDs)
  /\ listed' = {} /\ tunnel' = 0 /\ table' = {}
  /\ bits' = {} /\ todo' = {}
  /\ UNCHANGED <<role, leaving, blocked>>

\* main opens its sockets one after the other. createServer and create close the
\* socket they could not bind; main then returns, and what it had opened is closed.
OpenFixed ==
  /\ pc = "start"
  /\ \E f \in Free :
       /\ Lowest(f)
       /\ Kernel({}, {}, {f}, Fixed[f])
       /\ nonblocking' = IF role = "client" THEN {f} ELSE {}
       /\ listed' = listed \cup {f}
       /\ pc' = IF f < Len(Fixed) THEN "start"
                ELSE IF role = "server" THEN "select" ELSE "connect"
  /\ UNCHANGED <<role, tunnel, table, bits, todo, leaving, blocked>>

\* connectWithRetry: attempts that fail close their socket again, one succeeds.
\* dispatch_loop starts with the tunnel in its vector.
Connect ==
  /\ pc = "connect"
  /\ \E f \in Free :
       /\ Lowest(f)
       /\ Kernel({}, {}, {f}, "tunnel")
       /\ tunnel' = f
       /\ listed' = listed \cup {f}
  /\ pc' = "select"
  /\ UNCHANGED <<role, nonblocking, table, bits, todo, leaving, blocked>>

\* A socket of main cannot be opened, or the last attempt to connect fails.
GiveUp == pc \in {"start", "connect"} /\ Exit

\* The end of an iteration. The server leaves its loop to end; so does the client
\* when the user quits, else it destroys the tunnel and connects again.
EndIteration ==
  /\ pc = "end"
  /\ IF leaving = "no"
     THEN /\ pc' = "select"
          /\ UNCHANGED <<role, kernelVars, ownVars, bits, todo, leaving,
                         blocked>>
     ELSE IF role = "server" \/ leaving = "quit" THEN Exit
     ELSE /\ pc' = "connect"
          /\ Close({}, {tunnel})
          /\ listed' = listed \ {tunnel} /\ tunnel' = 0
          /\ leaving' = "no"
          /\ UNCHANGED <<role, table, bits, todo, blocked>>

-----------------------------------------------------------------------------
(* select, and what the sections have in common.                           *)

Asked == listed \cup table

\* select returns when something is ready, which stdin may be alone. A descriptor
\* that is not open makes it fail (EBADF), which ends the loop.
Select ==
  /\ pc = "select"
  /\ bits' = {f \in Asked : Asked \subseteq Open /\ ready[f] # "no"}
  /\ IF Asked \subseteq Open
     THEN pc' = "stdin" /\ UNCHANGED leaving
     ELSE pc' = "end" /\ leaving' = "lost"
  /\ UNCHANGED <<role, kernelVars, ownVars, todo, blocked>>

KindOf == [accept_tunnel |-> "tunnel_listener", udp |-> "udp",
           accept_outside |-> "outside_listener"]

\* What the section reads, or accepts from: the descriptors whose bit is set.
Targets ==
  IF pc = "conns" THEN todo
  ELSE IF pc = "tunnel" THEN {tunnel} \cap bits
  ELSE IF pc \in DOMAIN KindOf THEN {f \in bits : owner[f] = KindOf[pc]}
  ELSE {}

\* Mutant: every connection is read, whether its bit is set or not.
AdvanceAll ==
  /\ pc' = After[pc]
  /\ bits' = IF pc' = "end" THEN {} ELSE bits \ Targets
  /\ todo' = IF pc' = "conns" THEN table' ELSE {}

\* On to the next section. The connections are read by a list of them that is
\* made when their section begins.
Advance ==
  /\ pc' = After[pc]
  /\ bits' = IF pc' = "end" THEN {} ELSE bits \ Targets
  /\ todo' = IF pc' = "conns" THEN table' \cap bits ELSE {}

\* The section has nothing (more) to do, or cannot do it: accept fails when no
\* descriptor is free, and leaves the connection in the queue.
Skip ==
  /\ pc \in {"accept_tunnel", "accept_outside", "udp", "conns", "tunnel"}
  /\ blocked = 0
  /\ \/ Targets = {}
     \/ pc \in {"accept_tunnel", "accept_outside"} /\ Free = {}
  /\ UNCHANGED <<role, kernelVars, ownVars, leaving, blocked>>
  /\ Advance

\* Nothing is there to read although the bit is set. A blocking socket makes the
\* thread wait; on others the section goes on.
ReadNothing(f) ==
  /\ blocked = 0
  /\ f \in Targets /\ ready[f] \in {"no", "bad"}
  /\ Close({f}, {})
  /\ UNCHANGED <<role, ownVars, leaving>>
  /\ IF f \notin nonblocking
     THEN blocked' = f /\ UNCHANGED <<pc, bits, todo>>
     ELSE /\ UNCHANGED blocked
          /\ IF pc = "conns" THEN todo' = todo \ {f} /\ UNCHANGED <<pc, bits>>
             ELSE Advance

\* The read that waited has something.
Wake ==
  /\ blocked # 0 /\ ready[blocked] \notin {"no", "bad"}
  /\ blocked' = 0
  /\ UNCHANGED <<role, pc, kernelVars, ownVars, bits, todo, leaving>>

-----------------------------------------------------------------------------
(* The sections.                                                           *)

\* stdin is readable or not. getchar returns Q, which ends the loop at the end of
\* the iteration, another character, or the end of file.
Stdin(typed) ==
  /\ pc = "stdin"
  /\ leaving' = IF typed = "q" THEN "quit" ELSE leaving
  /\ UNCHANGED <<role, kernelVars, ownVars, blocked>>
  /\ Advance

Accepting(l, f) ==
  blocked = 0 /\ l \in Targets /\ ready[l] = "data" /\ Lowest(f)

\* Mutant: the old tunnel stays in the vector.
AcceptTunnelListed(l, f) ==
  /\ pc = "accept_tunnel" /\ Accepting(l, f)
  /\ Kernel({l}, {tunnel}, {f}, "tunnel") /\ UNCHANGED nonblocking
  /\ tunnel' = f
  /\ listed' = listed \cup {f}
  /\ UNCHANGED <<role, table, leaving, blocked>>
  /\ Advance

\* Mutant: the new tunnel is not put into the vector.
AcceptTunnelUnlisted(l, f) ==
  /\ pc = "accept_tunnel" /\ Accepting(l, f)
  /\ Kernel({l}, {tunnel}, {f}, "tunnel") /\ UNCHANGED nonblocking
  /\ tunnel' = f
  /\ listed' = listed \ {tunnel}
  /\ UNCHANGED <<role, table, leaving, blocked>>
  /\ Advance

\* The new tunnel is accepted before the old one is closed.
AcceptTunnel(l, f) ==
  /\ pc = "accept_tunnel" /\ Accepting(l, f)
  /\ Kernel({l}, {tunnel}, {f}, "tunnel") /\ UNCHANGED nonblocking
  /\ tunnel' = f
  /\ listed' = (listed \ {tunnel}) \cup {f}
  /\ UNCHANGED <<role, table, leaving, blocked>>
  /\ Advance

\* Mutant: the connection is kept until there is a tunnel.
AcceptOutsideKeeps(l, f, kept) ==
  /\ pc = "accept_outside" /\ Accepting(l, f)
  /\ Kernel({l}, {}, {f}, "conn")
  /\ nonblocking' = nonblocking \cup {f}
  /\ table' = table \cup {f}
  /\ UNCHANGED <<role, listed, tunnel, leaving, blocked>>
  /\ Advance

\* Mutant: setNoBlock is forgotten.
AcceptOutsideBlocking(l, f, kept) ==
  /\ pc = "accept_outside" /\ Accepting(l, f)
  /\ kept => tunnel # 0
  /\ IF kept THEN Kernel({l}, {}, {f}, "conn") /\ table' = table \cup {f}
     ELSE Kernel({l}, {}, {}, "free") /\ UNCHANGED table
  /\ UNCHANGED <<role, nonblocking, listed, tunnel, leaving, blocked>>
  /\ Advance

\* The connection is closed again when there is no tunnel, or when TCP_OPEN
\* cannot be sent.
AcceptOutside(l, f, kept) ==
  /\ pc = "accept_outside" /\ Accepting(l, f)
  /\ kept => tunnel # 0
  /\ IF kept
     THEN /\ Kernel({l}, {}, {f}, "conn")
          /\ nonblocking' = nonblocking \cup {f}
          /\ table' = table \cup {f}
     ELSE Close({l}, {}) /\ UNCHANGED table
  /\ UNCHANGED <<role, listed, tunnel, leaving, blocked>>
  /\ Advance

Lost == IF leaving = "no" THEN "lost" ELSE leaving

\* A datagram is read. When it cannot be sent the server closes the tunnel, and the
\* client ends its loop.
ReadUdp(f, sent) ==
  /\ pc = "udp" /\ blocked = 0
  /\ f \in Targets /\ ready[f] = "data"
  /\ sent \/ tunnel # 0
  /\ IF sent \/ role = "client"
     THEN Close({f}, {}) /\ UNCHANGED <<listed, tunnel>>
     ELSE /\ Close({f}, {tunnel})
          /\ listed' = listed \ {tunnel} /\ tunnel' = 0
  /\ leaving' = IF sent \/ role = "server" THEN leaving ELSE Lost
  /\ UNCHANGED <<role, table, blocked>>
  /\ Advance

\* A connection has data or has ended. At the end, and in the server when the
\* data cannot be sent, it is removed. In the client that ends the loop at once.
ReadConn(f, sent) ==
  /\ pc = "conns" /\ blocked = 0
  /\ f \in Targets /\ ready[f] \in {"data", "end"}
  /\ sent \/ (ready[f] = "data" /\ tunnel # 0)
  /\ IF ready[f] = "end" \/ (~sent /\ role = "server")
     THEN Close({}, {f}) /\ table' = table \ {f}
     ELSE Close({f}, {}) /\ UNCHANGED table
  /\ UNCHANGED <<role, listed, tunnel, blocked>>
  /\ IF sent \/ role = "server"
     THEN todo' = todo \ {f} /\ UNCHANGED <<pc, bits, leaving>>
     ELSE leaving' = Lost /\ Advance

ReadTunnel(f) ==
  /\ pc = "tunnel" /\ blocked = 0
  /\ f \in Targets /\ ready[f] = "data"
  /\ Close({f}, {})
  /\ pc' = "batch"
  /\ UNCHANGED <<role, ownVars, bits, todo, leaving, blocked>>

\* The server resets the tunnel; the client destroys it after the loop.
ReadTunnelEnd(f) ==
  /\ pc = "tunnel" /\ blocked = 0
  /\ f \in Targets /\ ready[f] = "end"
  /\ IF role = "server"
     THEN /\ Close({}, {f})
          /\ listed' = listed \ {f} /\ tunnel' = 0
          /\ UNCHANGED leaving
     ELSE Close({f}, {}) /\ leaving' = Lost /\ UNCHANGED <<listed, tunnel>>
  /\ UNCHANGED <<role, table, blocked>>
  /\ Advance

\* Mutant: the socket is closed, the entry stays.
RemoveConnStays(f) ==
  /\ pc = "batch" /\ f \in table
  /\ Close({}, {f})
  /\ UNCHANGED <<role, pc, ownVars, bits, todo, leaving, blocked>>

\* A message of the batch: TCP_CLOSE, or TCP_DATA whose write fails.
RemoveConn(f) ==
  /\ pc = "batch" /\ f \in table
  /\ Close({}, {f})
  /\ table' = table \ {f}
  /\ UNCHANGED <<role, pc, listed, tunnel, bits, todo, leaving, blocked>>

\* TCP_OPEN in the client, when a descriptor is free and connect succeeds.
OpenDest(f) ==
  /\ pc = "batch" /\ role = "client" /\ Lowest(f)
  /\ Kernel({}, {}, {f}, "conn")
  /\ nonblocking' = nonblocking \cup {f}
  /\ table' = table \cup {f}
  /\ UNCHANGED <<role, pc, listed, tunnel, bits, todo, leaving, blocked>>

EndBatch ==
  /\ pc = "batch"
  /\ UNCHANGED <<role, kernelVars, ownVars, leaving, blocked>>
  /\ Advance

-----------------------------------------------------------------------------
(* The outside world.                                                      *)

Arrive(f, what) ==
  /\ f \in Open /\ ready[f] \in {"no", "bad"}
  /\ what = "end" => owner[f] \in {"tunnel", "conn"}
  /\ what = "bad" => owner[f] = "udp" /\ ready[f] = "no"
  /\ ready' = [ready EXCEPT ![f] = what]
  /\ UNCHANGED <<role, pc, owner, nonblocking, ownVars, bits, todo, leaving,
                 blocked>>

World == \E f \in FDs, what \in Readiness \ {"no"} : Arrive(f, what)

Program ==
  \/ GiveUp \/ Connect \/ EndIteration \/ Select \/ Skip \/ Wake
  \/ \E typed \in {"nothing", "q"} : Stdin(typed)
  \/ EndBatch \/ OpenFixed
  \/ \E f \in FDs :
       \/ ReadNothing(f) \/ ReadTunnel(f) \/ ReadTunnelEnd(f)
       \/ RemoveConn(f) \/ OpenDest(f)
       \/ \E l \in FDs : AcceptTunnel(l, f)
       \/ \E l \in FDs, kept \in BOOLEAN : AcceptOutside(l, f, kept)
       \/ \E sent \in BOOLEAN : ReadUdp(f, sent) \/ ReadConn(f, sent)

Next == World \/ Program

Spec == Init /\ [][Next]_vars

\* The thread runs; a batch has an end.
FairSpec == Spec /\ WF_vars(Program) /\ WF_vars(EndBatch)

-----------------------------------------------------------------------------
Sections == {"stdin", "accept_tunnel", "accept_outside", "udp", "conns",
             "tunnel", "batch", "end"}
InIteration == pc \in Sections

TypeOK ==
  /\ role \in {"server", "client"}
  /\ pc \in Sections \cup {"start", "connect", "select", "done"}
  /\ owner \in [FDs -> Kinds \cup {"free"}] /\ nonblocking \subseteq Open
  /\ ready \in [FDs -> Readiness] /\ \A f \in FDs \ Open : ready[f] = "no"
  /\ listed \subseteq FDs /\ tunnel \in FDs \cup {0} /\ table \subseteq FDs
  /\ bits \subseteq FDs /\ todo \subseteq bits
  /\ leaving \in {"no", "lost", "quit"} /\ blocked \in FDs \cup {0}

\* select is asked about exactly the descriptors the program has open: never about
\* one that is closed (it would fail and end the loop), and about all that are
\* open (one that is forgotten is never served, and leaks).
SelectSetExact == pc # "done" => Asked = Open

\* A descriptor has one owner: the destructor of one object never closes the
\* descriptor of another.
OwnedOnce ==
  /\ table = {f \in FDs : owner[f] = "conn"}
  /\ {tunnel} \ {0} = {f \in FDs : owner[f] = "tunnel"}

\* The thread never waits in a read or accept, although the bits of one select are
\* used while descriptors are closed and their numbers reused. The
\* exception is the server's UDP socket, which is a blocking one.
NeverHangs == blocked # 0 => role = "server" /\ owner[blocked] = "udp"

Stopped == pc = "done" \/ blocked # 0

\* Every open socket on which something is ready is served, also when stdin is at
\* its end. A listener may have to wait for a free descriptor, and a connection of
\* the client for as long as every tunnel is lost again.
Served ==
  \A f \in FDs :
    []<>(\/ ready[f] = "no" \/ Stopped \/ pc = "connect"
         \/ owner[f] \in {"tunnel_listener", "outside_listener"} /\ Free = {})

\* A tunnel that waits to be accepted is accepted, even when the connections use up
\* all descriptors: it can wait only as long as the old tunnel gives no sign of
\* its end.
TunnelAdmitted ==
  []<>(\/ \A f \in FDs : owner[f] = "tunnel_listener" => ready[f] = "no"
       \/ Stopped
       \/ Free = {} /\ tunnel # 0 /\ ready[tunnel] = "no")

=============================================================================
