SPECIFICATION Spec
CONSTANTS
  Threads = {t1, t2, t3}
  Values = {v1, v2}
  NoValue = NoValue
  Size = 4
  UMod = 8
  MaxCalls = 6
  Running = {}
INVARIANTS TypeOK CopiesInv
PROPERTY ImplementsRingQueue
CHECK_DEADLOCK FALSE
