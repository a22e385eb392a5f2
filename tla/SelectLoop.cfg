SPECIFICATION FairSpec
CONSTANTS
  ServerLimit = 6
  ClientLimit = 4
INVARIANTS
  TypeOK
  SelectSetExact
  OwnedOnce
  NeverHangs
PROPERTIES
  Served
  TunnelAdmitted
CHECK_DEADLOCK FALSE
