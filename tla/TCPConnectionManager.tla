------------------------ MODULE TCPConnectionManager ------------------------
(***************************************************************************)
(* TCPConnectionManager (tcp_connection_manager.h, .cc) and the ways the   *)
(* two programs use it: the table of the TCP connections multiplexed over  *)
(* the tunnel. The server allocates a conn_id for each connection it       *)
(* accepts; the client takes the conn_id of a TCP_OPEN after checking that *)
(* it has none of that number. An entry owns its socket: erasing it, or    *)
(* failing to insert it, closes the descriptor.                            *)
(***************************************************************************)
EXTENDS Naturals

CONSTANTS
  Fds,         \* the file descriptors the kernel hands out
  IdSpace,     \* the number of values of a conn_id, 2^32 in the code
  MaxAllocs    \* bound: connections the server accepts in one run

ASSUME SizesAssumption == IdSpace \in Nat /\ IdSpace > 1 /\ MaxAllocs \in Nat

ConnIds == 0 .. IdSpace - 1

VARIABLES
  role,               \* which program this is, "server" or "client"
  connections,        \* conn_id -> the entry's socket and valid flag
  socket_to_conn_id,  \* descriptor -> conn_id
  next_conn_id,
  open,               \* descriptors of connections open in this process
  allocs              \* how often allocateConnId was called

vars == <<role, connections, socket_to_conn_id, next_conn_id, open, allocs>>

NoEntries == [i \in {} |-> 0]

\* A finite map with one entry set, or removed.
MapSet(f, k, v) == [i \in DOMAIN f \cup {k} |-> IF i = k THEN v ELSE f[i]]
MapErase(f, k)  == [i \in DOMAIN f \ {k} |-> f[i]]

Init ==
  /\ role \in {"server", "client"}
  /\ connections = NoEntries
  /\ socket_to_conn_id = NoEntries
  /\ next_conn_id = 1
  /\ open = {}
  /\ allocs = 0

hasConnection(id) == id \in DOMAIN connections

\* Mutant: numbering restarts when the table has become empty.
allocateConnIdReset ==
  /\ next_conn_id' = IF DOMAIN connections = {} THEN 1 ELSE (next_conn_id + 1) % IdSpace
  /\ allocs' = allocs + 1

\* Mutant: the counter is wider than a conn_id.
allocateConnIdWide ==
  /\ next_conn_id' = next_conn_id + 1
  /\ allocs' = allocs + 1

\* The return value is next_conn_id; the uint32_t then wraps around.
allocateConnId ==
  /\ next_conn_id' = (next_conn_id + 1) % IdSpace
  /\ allocs' = allocs + 1

\* Takes ownership of the open descriptor fd. The descriptor's entry is written
\* first; std::map::emplace does nothing when the id is present, and the
\* Connection built for it is destroyed, which closes fd.
addConnection(id, fd) ==
  /\ socket_to_conn_id' = MapSet(socket_to_conn_id, fd, id)
  /\ connections' = IF hasConnection(id) THEN connections
                    ELSE MapSet(connections, id, [socket |-> fd, valid |-> TRUE])
  /\ open' = IF hasConnection(id) THEN open ELSE open \cup {fd}

\* Mutant: only the entry is erased, the descriptor's is left.
removeConnectionHalf(id) ==
  IF hasConnection(id)
  THEN /\ connections' = MapErase(connections, id)
       /\ open' = open \ {connections[id].socket}
       /\ UNCHANGED socket_to_conn_id
  ELSE UNCHANGED <<socket_to_conn_id, connections, open>>

\* Nothing happens for an unknown id.
removeConnection(id) ==
  IF hasConnection(id)
  THEN /\ socket_to_conn_id' = MapErase(socket_to_conn_id, connections[id].socket)
       /\ connections' = MapErase(connections, id)
       /\ open' = open \ {connections[id].socket}
  ELSE UNCHANGED <<socket_to_conn_id, connections, open>>

-----------------------------------------------------------------------------
\* Server: accept on the outside listener, allocateConnId, addConnection. The
\* kernel never returns a descriptor that is open.
AcceptOutside(fd) ==
  /\ role = "server"
  /\ allocs < MaxAllocs
  /\ fd \notin open
  /\ allocateConnId
  /\ addConnection(next_conn_id, fd)
  /\ UNCHANGED role

\* Mutant: TCP_OPEN replaces the entry of an id the client has.
OpenDestinationOver(id, fd) ==
  /\ role = "client"
  /\ fd \notin open
  /\ connections' = MapSet(connections, id, [socket |-> fd, valid |-> TRUE])
  /\ socket_to_conn_id' = MapSet(socket_to_conn_id, fd, id)
  /\ open' = open \cup {fd}
  /\ UNCHANGED <<role, next_conn_id, allocs>>

\* Client: TCP_OPEN for an id it does not have, after a successful connect.
OpenDestination(id, fd) ==
  /\ role = "client"
  /\ ~hasConnection(id)
  /\ fd \notin open
  /\ addConnection(id, fd)
  /\ UNCHANGED <<role, next_conn_id, allocs>>

\* Both: the connection ends, or a TCP_CLOSE for any id arrives.
Remove(id) ==
  /\ removeConnection(id)
  /\ UNCHANGED <<role, next_conn_id, allocs>>

markInvalid(id) ==
  /\ hasConnection(id)
  /\ connections' = [connections EXCEPT ![id].valid = FALSE]
  /\ UNCHANGED <<role, socket_to_conn_id, next_conn_id, open, allocs>>

Next ==
  \/ \E fd \in Fds : AcceptOutside(fd)
  \/ \E id \in ConnIds, fd \in Fds : OpenDestination(id, fd)
  \/ \E id \in ConnIds : Remove(id) \/ markInvalid(id)

Spec == Init /\ [][Next]_vars

-----------------------------------------------------------------------------
TypeOK ==
  /\ role \in {"server", "client"}
  /\ DOMAIN connections \subseteq ConnIds
  /\ \A id \in DOMAIN connections :
       connections[id] \in [socket : Fds, valid : BOOLEAN]
  /\ DOMAIN socket_to_conn_id \subseteq Fds
  /\ \A fd \in DOMAIN socket_to_conn_id : socket_to_conn_id[fd] \in ConnIds
  /\ next_conn_id \in ConnIds
  /\ open \subseteq Fds
  /\ allocs \in Nat

\* The two maps are inverse to each other: routing by conn_id and routing by
\* descriptor agree, through any reuse of ids and descriptors.
MappingConsistent ==
  /\ \A id \in DOMAIN connections :
       /\ connections[id].socket \in DOMAIN socket_to_conn_id
       /\ socket_to_conn_id[connections[id].socket] = id
  /\ \A fd \in DOMAIN socket_to_conn_id :
       /\ socket_to_conn_id[fd] \in DOMAIN connections
       /\ connections[socket_to_conn_id[fd]].socket = fd

\* Descriptors are neither leaked nor used after close: the open ones are
\* exactly those some entry owns (select is never given a closed one).
SocketsOwned ==
  open = {connections[id].socket : id \in DOMAIN connections}

\* "Each connection has a unique conn_id": the id the server hands out next
\* belongs to no open connection, and is not the 0 of UDP, until the counter has
\* gone through the id space once. After that neither need hold.
UniqueConnId ==
  role = "server" /\ allocs < IdSpace - 1
    => ~hasConnection(next_conn_id) /\ next_conn_id # 0

=============================================================================
