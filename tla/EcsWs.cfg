CONSTANTS
  MaxConns = 2
  MaxBytes = 3
SPECIFICATION FairSpec
INVARIANTS TypeOK AcceptsOnListener NeverReadsOlder
PROPERTIES NewestIsRead
CHECK_DEADLOCK FALSE
