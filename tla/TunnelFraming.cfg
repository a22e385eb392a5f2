SPECIFICATION Spec
CONSTANTS
  Messages <- MCMessages
  RecvMax = 12
  MaxSent = 3
  MaxReconnects = 1
INVARIANTS
  TypeOK
  FramingFaithful
  QuiescentComplete
PROPERTY
  ImplementsChannel
CHECK_DEADLOCK FALSE
