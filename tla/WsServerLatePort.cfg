SPECIFICATION Spec
CONSTANTS
  Conns = {c1}
  MaxClients = 1
  Fds = {3}
  MaxPorts = 2
  Callers = {k1}
  LatePorts = TRUE
  NoConn = NoConn
PROPERTIES LaterPortKeepsClients
CHECK_DEADLOCK FALSE
