SPECIFICATION FairSpec
CONSTANTS
  Sessions = {s1}
  None = None
  Endings = {}
  MaxOut = 1
  MaxDest = 1
  MaxUdp = 0
  MaxAttempts = 2
  Faults = {"break"}
  MaxFaults = 1
PROPERTY
  AutoReconnect
CHECK_DEADLOCK FALSE
