SPECIFICATION Spec
CONSTANTS
  Sessions = {s1}
  None = None
  Endings = {"fin", "rst", "half"}
  MaxOut = 2
  MaxDest = 2
  MaxUdp = 0
  MaxAttempts = 2
  Faults = {"break", "killClient", "startClient", "killServer"}
  MaxFaults = 2
INVARIANT
  InOrder
CHECK_DEADLOCK FALSE
