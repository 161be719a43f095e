SPECIFICATION FairSpec
CONSTANTS
  w1 = w1
  w2 = w2
  p1 = p1
  p2 = p2
  Workers <- TwoWorkers
  Partitions <- TwoPartitions
  LogLen = 2
  Backlogs <- GarbageBacklogs
  RetryInitial = 1
  RetryMax = 2
  MaxFaults = 0
  Nobody = Nobody
  NoMessage = NoMessage
CHECK_DEADLOCK FALSE
PROPERTIES
  PoisonSkipped
