SPECIFICATION Spec
CONSTANTS
  Conns = {c1, c2}
  MaxClients = 2
  Fds = {3, 4}
  MaxPorts = 2
  Callers = {k1, k2}
  LatePorts = FALSE
  NoConn = NoConn
SYMMETRY Symmetry
CONSTRAINT SomeUnmixed
INVARIANTS TypeOK SlotHoldsDescriptor MutexAlive 
PROPERTY ServedUndisturbed
CHECK_DEADLOCK FALSE
