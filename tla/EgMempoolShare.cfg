SPECIFICATION Spec
CONSTANTS
  Users = {u1, u2}
  Sizes = {63, 64, 127}
  Reclaims = {"reclaim", "reclaim_ex"}
  Blocks = {b1, b2, b3, b4}
  MaxGets = 5
  GridsCount = 2
  NoBlock = NoBlock
INVARIANTS TypeOK EveryBlockOnce BuffersFit
PROPERTY ImplementsBufferPool
CHECK_DEADLOCK FALSE
