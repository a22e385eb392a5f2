SPECIFICATION FairSpec
CONSTANTS
  Conns = {c1, c2}
  Hosts = {h1, h2}
  None = None
  Wide = c1
  TunnelSize = 1
  SocketSize = 3
  Items <- MCItems
  MaxUdp = 0
PROPERTY
  NeverBlocked
CHECK_DEADLOCK FALSE
