SPECIFICATION Spec
CONSTANTS
  Sessions = {s1, s2}
  None = None
  Endings = {}
  MaxOut = 1
  MaxDest = 1
  MaxUdp = 0
  MaxAttempts = 2
  Faults = {"killServer", "startServer"}
  MaxFaults = 2
INVARIANT
  SpliceExclusive
CHECK_DEADLOCK FALSE
