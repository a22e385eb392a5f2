SPECIFICATION Spec
CONSTANTS
  Messages <- MCMessages
  RecvMax = 12
  MaxSent = 3
  MaxReconnects = 1
INVARIANT
  OnlyInFlightLost
CHECK_DEADLOCK FALSE
