SPECIFICATION FairSpec
CONSTANTS
  Conns = {c1, c2}
  MaxClients = 1
  Fds = {3, 4}
  MaxPorts = 1
  Callers = {k1}
  LatePorts = FALSE
  NoConn = NoConn
PROPERTIES ClosingEnds CloseClientCloses
CHECK_DEADLOCK FALSE
