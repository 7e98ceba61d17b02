SPECIFICATION FairSpec
CONSTANTS
  Requests = {r1, r2}
  Queue = 1
  Keep = 2
  MaxLines = 1
  Found = {0, 3}
INVARIANTS
  TypeOK
  LeavesInOrder
  NothingLostUntold
PROPERTIES
  StopEnds
CHECK_DEADLOCK FALSE
