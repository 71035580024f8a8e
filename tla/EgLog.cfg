SPECIFICATION FairSpec
CONSTANTS
  Loggers = {t1, t2}
  NoText = NoText
  Torn = Torn
  Blocks = {b1, b2, b3, b4}
  NoBlock = NoBlock
  RingSlots = 4
  PoolCapacity = 3
INVARIANTS TypeOK NoBufferLeaks
PROPERTIES ImplementsAsyncLog LinesPrinted
CHECK_DEADLOCK FALSE
