--------------------- MODULE TCPConnectionManagerProofs ---------------------
(***************************************************************************)
(* The connection table is consistent, in the server as long as it has     *)
(* accepted fewer connections than there are conn_ids, in the client       *)
(* always: for every set of descriptors, every size of the id space and    *)
(* every sequence of operations.                                           *)
(***************************************************************************)
EXTENDS TCPConnectionManager, TLAPS

\* The ids in use are below the next one until the counter wraps.
ServerIds ==
  role = "server" =>
    /\ allocs <= MaxAllocs
    /\ allocs < IdSpace - 1 => next_conn_id = allocs + 1
    /\ \A id \in DOMAIN connections : id <= allocs

IInv == TypeOK /\ MappingConsistent /\ SocketsOwned /\ ServerIds

LEMMA InitInv == Init => IInv
BY SizesAssumption
   DEF Init, IInv, TypeOK, MappingConsistent, SocketsOwned, ServerIds, NoEntries, ConnIds

\* Adding a connection under an id not in use, on a descriptor not open, keeps
\* the table consistent.
LEMMA AddFresh ==
  ASSUME TypeOK, MappingConsistent, SocketsOwned,
         NEW id \in ConnIds, NEW fd \in Fds, ~hasConnection(id), fd \notin open,
         addConnection(id, fd), UNCHANGED role, next_conn_id' \in ConnIds, allocs' \in Nat
  PROVE  /\ TypeOK' /\ MappingConsistent' /\ SocketsOwned'
         /\ DOMAIN connections' = DOMAIN connections \cup {id}
<1>1. /\ DOMAIN connections' = DOMAIN connections \cup {id}
      /\ connections'[id] = [socket |-> fd, valid |-> TRUE]
      /\ \A i \in DOMAIN connections : i # id /\ connections'[i] = connections[i]
  BY DEF addConnection, hasConnection, MapSet
<1>2. /\ DOMAIN socket_to_conn_id' = DOMAIN socket_to_conn_id \cup {fd}
      /\ socket_to_conn_id'[fd] = id
      /\ \A f \in DOMAIN socket_to_conn_id :
           f # fd => socket_to_conn_id'[f] = socket_to_conn_id[f]
  BY DEF addConnection, MapSet
<1>3. open' = open \cup {fd}
  BY DEF addConnection
<1>4. fd \notin DOMAIN socket_to_conn_id
  BY DEF MappingConsistent, SocketsOwned
<1>5. TypeOK'
  <2>1. ASSUME NEW i \in DOMAIN connections'
        PROVE  connections'[i] \in [socket : Fds, valid : BOOLEAN]
    <3>1. CASE i \in DOMAIN connections
      BY <1>1, <3>1, Zenon DEF TypeOK
    <3>2. CASE i = id
      <4>1. [socket |-> fd, valid |-> TRUE] \in [socket : Fds, valid : BOOLEAN]
        OBVIOUS
      <4> QED BY <1>1, <3>2, <4>1, Zenon
    <3> QED BY <1>1, <3>1, <3>2
  <2>2. \A f \in DOMAIN socket_to_conn_id' : socket_to_conn_id'[f] \in ConnIds
    BY <1>2, <1>4 DEF TypeOK
  <2>3. /\ DOMAIN connections' \subseteq ConnIds /\ open' \subseteq Fds
        /\ DOMAIN socket_to_conn_id' \subseteq Fds
    BY <1>1, <1>2, <1>3 DEF TypeOK
  <2> QED BY <2>1, <2>2, <2>3 DEF TypeOK
<1>6. MappingConsistent'
  <2>1. \A i \in DOMAIN connections' :
          /\ connections'[i].socket \in DOMAIN socket_to_conn_id'
          /\ socket_to_conn_id'[connections'[i].socket] = i
    <3> TAKE i \in DOMAIN connections'
    <3>1. CASE i = id
      BY <1>1, <1>2, <3>1
    <3>2. CASE i \in DOMAIN connections
      BY <1>1, <1>2, <1>4, <3>2 DEF MappingConsistent
    <3> QED BY <1>1, <3>1, <3>2
  <2>2. \A f \in DOMAIN socket_to_conn_id' :
          /\ socket_to_conn_id'[f] \in DOMAIN connections'
          /\ connections'[socket_to_conn_id'[f]].socket = f
    <3> TAKE f \in DOMAIN socket_to_conn_id'
    <3>1. CASE f = fd
      BY <1>1, <1>2, <3>1
    <3>2. CASE f \in DOMAIN socket_to_conn_id
      BY <1>1, <1>2, <1>4, <3>2 DEF MappingConsistent
    <3> QED BY <1>2, <3>1, <3>2
  <2> QED BY <2>1, <2>2 DEF MappingConsistent
<1>7. SocketsOwned'
  BY <1>1, <1>3 DEF SocketsOwned
<1> QED BY <1>1, <1>5, <1>6, <1>7

\* Removing a connection keeps the table consistent.
LEMMA RemoveKeeps ==
  ASSUME TypeOK, MappingConsistent, SocketsOwned,
         NEW id \in ConnIds, removeConnection(id), UNCHANGED <<role, next_conn_id, allocs>>
  PROVE  /\ TypeOK' /\ MappingConsistent' /\ SocketsOwned'
         /\ DOMAIN connections' \subseteq DOMAIN connections
<1>1. CASE ~hasConnection(id)
  BY <1>1 DEF removeConnection, TypeOK, MappingConsistent, SocketsOwned
<1>2. CASE hasConnection(id)
  <2> DEFINE fd == connections[id].socket
  <2>1. /\ DOMAIN connections' = DOMAIN connections \ {id}
        /\ \A i \in DOMAIN connections' : connections'[i] = connections[i]
        /\ DOMAIN socket_to_conn_id' = DOMAIN socket_to_conn_id \ {fd}
        /\ \A f \in DOMAIN socket_to_conn_id' : socket_to_conn_id'[f] = socket_to_conn_id[f]
        /\ open' = open \ {fd}
    BY <1>2 DEF removeConnection, MapErase
  <2>2. \A i \in DOMAIN connections : connections[i].socket = fd => i = id
    BY <1>2 DEF MappingConsistent, hasConnection
  <2>3. \A f \in DOMAIN socket_to_conn_id : socket_to_conn_id[f] = id => f = fd
    BY DEF MappingConsistent
  <2> HIDE DEF fd
  <2>4. TypeOK'
    BY <2>1 DEF TypeOK
  <2>5. MappingConsistent'
    BY <2>1, <2>2, <2>3 DEF MappingConsistent
  <2>6. SocketsOwned'
    <3>1. ASSUME NEW f \in open' PROVE \E i \in DOMAIN connections' : connections'[i].socket = f
      BY <2>1, <3>1 DEF SocketsOwned, fd
    <3>2. ASSUME NEW i \in DOMAIN connections' PROVE connections'[i].socket \in open'
      BY <2>1, <2>2, <3>2 DEF SocketsOwned
    <3> QED BY <3>1, <3>2 DEF SocketsOwned
  <2> QED BY <2>1, <2>4, <2>5, <2>6
<1> QED BY <1>1, <1>2

LEMMA StepInv ==
  ASSUME MaxAllocs < IdSpace
  PROVE  IInv /\ [Next]_vars => IInv'
<1> SUFFICES ASSUME IInv, [Next]_vars PROVE IInv'
  OBVIOUS
<1> USE DEF IInv
<1>1. ASSUME NEW fd \in Fds, AcceptOutside(fd) PROVE IInv'
  <2>1. /\ role = "server" /\ allocs < MaxAllocs /\ fd \notin open
        /\ next_conn_id' = (next_conn_id + 1) % IdSpace /\ allocs' = allocs + 1
        /\ addConnection(next_conn_id, fd) /\ UNCHANGED role
    BY <1>1 DEF AcceptOutside, allocateConnId
  <2>2. /\ allocs \in Nat /\ next_conn_id = allocs + 1 /\ allocs < IdSpace - 1
        /\ \A id \in DOMAIN connections : id <= allocs
    BY <2>1, SizesAssumption DEF ServerIds, TypeOK
  <2>3. ~hasConnection(next_conn_id) /\ next_conn_id \in ConnIds
    BY <2>2 DEF hasConnection, TypeOK
  <2>4. next_conn_id' \in ConnIds /\ allocs' \in Nat
    BY <2>1, <2>2, SizesAssumption DEF ConnIds
  <2>5. /\ TypeOK' /\ MappingConsistent' /\ SocketsOwned'
        /\ DOMAIN connections' = DOMAIN connections \cup {next_conn_id}
    BY <2>1, <2>3, <2>4, AddFresh
  <2>6. ServerIds'
    <3>1. \A id \in DOMAIN connections' : id <= allocs'
      <4> TAKE id \in DOMAIN connections'
      <4>1. id \in DOMAIN connections \/ id = next_conn_id
        BY <2>5
      <4>2. ASSUME id \in DOMAIN connections PROVE id \in Nat
        BY <4>2, SizesAssumption DEF TypeOK, ConnIds
      <4> QED BY <2>1, <2>2, <4>1, <4>2
    <3>2. allocs' <= MaxAllocs
      BY <2>1, <2>2, SizesAssumption
    <3>3. allocs' < IdSpace - 1 => next_conn_id' = allocs' + 1
      BY <2>1, <2>2, SizesAssumption
    <3> QED BY <3>1, <3>2, <3>3 DEF ServerIds
  <2> QED BY <2>5, <2>6
<1>2. ASSUME NEW id \in ConnIds, NEW fd \in Fds, OpenDestination(id, fd) PROVE IInv'
  <2>1. TypeOK' /\ MappingConsistent' /\ SocketsOwned'
    BY <1>2, AddFresh DEF OpenDestination, TypeOK
  <2>2. ServerIds'
    BY <1>2 DEF OpenDestination, ServerIds
  <2> QED BY <2>1, <2>2
<1>3. ASSUME NEW id \in ConnIds, Remove(id) PROVE IInv'
  <2>1. /\ TypeOK' /\ MappingConsistent' /\ SocketsOwned'
        /\ DOMAIN connections' \subseteq DOMAIN connections
    BY <1>3, RemoveKeeps DEF Remove
  <2>2. ServerIds'
    BY <1>3, <2>1 DEF Remove, ServerIds
  <2> QED BY <2>1, <2>2
<1>4. ASSUME NEW id \in ConnIds, markInvalid(id) PROVE IInv'
  <2>1. /\ DOMAIN connections' = DOMAIN connections
        /\ \A i \in DOMAIN connections : connections'[i].socket = connections[i].socket
        /\ \A i \in DOMAIN connections : connections'[i] \in [socket : Fds, valid : BOOLEAN]
        /\ UNCHANGED <<role, socket_to_conn_id, next_conn_id, open, allocs>>
    BY <1>4 DEF markInvalid, TypeOK
  <2>2. TypeOK'
    BY <2>1 DEF TypeOK
  <2>3. MappingConsistent'
    BY <2>1 DEF MappingConsistent
  <2>4. SocketsOwned'
    BY <2>1 DEF SocketsOwned
  <2>5. ServerIds'
    BY <2>1 DEF ServerIds
  <2> QED BY <2>2, <2>3, <2>4, <2>5
<1>5. CASE UNCHANGED vars
  BY <1>5 DEF vars, TypeOK, MappingConsistent, SocketsOwned, ServerIds
<1> QED BY <1>1, <1>2, <1>3, <1>4, <1>5 DEF Next

\* The two maps stay inverse to each other, and the open descriptors are exactly
\* the owned ones, as long as conn_ids are not exhausted.
THEOREM TableConsistent ==
  ASSUME MaxAllocs < IdSpace
  PROVE  Spec => [](TypeOK /\ MappingConsistent /\ SocketsOwned)
<1>1. IInv => TypeOK /\ MappingConsistent /\ SocketsOwned
  BY DEF IInv
<1> QED BY <1>1, InitInv, StepInv, PTL DEF Spec

\* The maps, the counter and the set of open descriptors keep their types.
THEOREM TypeCorrect ==
  ASSUME MaxAllocs < IdSpace
  PROVE  Spec => []TypeOK
BY TableConsistent, PTL

\* No descriptor of the table is closed, and none outside it is open.
THEOREM SocketsCorrect ==
  ASSUME MaxAllocs < IdSpace
  PROVE  Spec => []SocketsOwned
BY TableConsistent, PTL

\* Until then allocateConnId returns the id of no open connection, and never 0.
THEOREM FreshIds ==
  ASSUME MaxAllocs < IdSpace
  PROVE  Spec => []UniqueConnId
<1>1. IInv => UniqueConnId
  <2> SUFFICES ASSUME IInv, role = "server", allocs < IdSpace - 1
               PROVE  ~hasConnection(next_conn_id) /\ next_conn_id # 0
    BY DEF UniqueConnId
  <2>1. /\ allocs \in Nat /\ next_conn_id = allocs + 1
        /\ \A id \in DOMAIN connections : id <= allocs
    BY DEF IInv, ServerIds, TypeOK
  <2> QED BY <2>1 DEF hasConnection
<1> QED BY <1>1, InitInv, StepInv, PTL DEF Spec

=============================================================================
