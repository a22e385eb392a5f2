SPECIFICATION FairSpec
CONSTANTS
  Sessions = {s1}
  None = None
  Endings = {"fin", "rst"}
  MaxOut = 1
  MaxDest = 1
  MaxUdp = 1
  MaxAttempts = 2
  Faults = {"break", "killClient", "startClient", "killServer", "startServer"}
  MaxFaults = 2
PROPERTY
  TunnelRestored
CHECK_DEADLOCK FALSE
