SPECIFICATION FairSpec
CONSTANTS
  Conns = {c1, c2}
  Hosts = {h1, h2}
  None = None
  Wide = c1
  TunnelSize = 2
  SocketSize = 3
  Items <- MCItems
  MaxUdp = 2
INVARIANTS
  TypeOK
  StreamWhole
  RightHost
PROPERTY
  FlowsOn
CHECK_DEADLOCK FALSE
