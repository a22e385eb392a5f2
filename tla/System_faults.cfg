SPECIFICATION Spec
CONSTANTS
  Sessions = {s1, s2}
  None = None
  Endings = {}
  MaxOut = 1
  MaxDest = 1
  MaxUdp = 0
  MaxAttempts = 2
  Faults = {"break", "killClient", "startClient"}
  MaxFaults = 3
SYMMETRY Symmetry
INVARIANTS
  TypeOK
  IdAgreement
  SpliceExclusive
PROPERTY
  ImplementsRelay
CHECK_DEADLOCK FALSE
