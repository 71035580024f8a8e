CONSTANTS
  Conns = {c1, c2}
  CIRCULAR_BUF_SIZE = 3
  MaxBytes = 5
SPECIFICATION UvFairSpec
INVARIANTS UvTypeOK BufferHoldsLatest
PROPERTIES EverythingRead
CHECK_DEADLOCK FALSE
