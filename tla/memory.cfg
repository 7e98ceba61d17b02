SPECIFICATION Spec
CONSTANTS
  i1 = i1
  i2 = i2
  i3 = i3
  empty = empty
  w1 = w1
  w2 = w2
  Workers = {w1, w2}
  Deleters = {w1}
  Sweeper = Sweeper
  Sweeping = TRUE
  Ids = {i1, i2, i3}
  EmptyId = empty
  NumShards = 2
  ShardOf <- MCShardOf
  MaxRecords = 1
  MaxPuts = 4
INVARIANTS
  SettledExactly
  VictimIsOldest
  CountNeverOverstates
CHECK_DEADLOCK FALSE
