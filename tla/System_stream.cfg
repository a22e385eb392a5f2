SPECIFICATION FairSpec
CONSTANTS
  Sessions = {s1}
  None = None
  Endings = {"fin", "rst", "half"}
  MaxOut = 2
  MaxDest = 2
  MaxUdp = 0
  MaxAttempts = 2
  Faults = {"killServer", "killClient"}
  MaxFaults = 2
INVARIANTS
  Gapless
  NoOrphans
PROPERTIES
  ImplementsRelay
  EndsTogether
  Drained
CHECK_DEADLOCK FALSE
