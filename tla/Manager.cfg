SPECIFICATION Spec
CONSTANTS
  Fds = {f1, f2, f3}
  IdSpace = 7
  MaxAllocs = 6
SYMMETRY Symmetry
INVARIANTS
  TypeOK
  MappingConsistent
  SocketsOwned
  UniqueConnId
