SPECIFICATION FairSpec
CONSTANTS
  Threads = {t1, t2}
  Values = {v1}
  NoValue = NoValue
  Size = 4
  UMod = 8
  MaxCalls = 18
  Running = {t1}
INVARIANTS CountersInv
PROPERTIES DequeueNeverWaits EveryCallReturns
CHECK_DEADLOCK FALSE
