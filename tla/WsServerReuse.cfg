SPECIFICATION Spec
CONSTANTS
  Conns = {c1, c2}
  MaxClients = 1
  Fds = {3, 4}
  MaxPorts = 1
  Callers = {k1}
  LatePorts = FALSE
  NoConn = NoConn
INVARIANT EndedLeaveTable
CHECK_DEADLOCK FALSE
