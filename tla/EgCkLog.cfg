SPECIFICATION FairSpec
CONSTANTS
  Producers = {p1, p2}
  Consumers = {c1, c2}
  Messages = {m1, m2}
  NoMessage = NoMessage
  Torn = Torn
  Capacity = 4
  MaxMessages = 4
INVARIANTS TypeOK EverySlotOnce PutNeverFails
PROPERTIES ImplementsMsgLog LogDrains LogNeverWaitsForPrint
CHECK_DEADLOCK FALSE
