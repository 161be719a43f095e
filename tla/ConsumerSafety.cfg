SPECIFICATION Spec
CONSTANTS
  w1 = w1
  w2 = w2
  p1 = p1
  p2 = p2
  Workers <- TwoWorkers
  Partitions <- TwoPartitions
  LogLen = 2
  Backlogs <- AllBacklogs
  RetryInitial = 1
  RetryMax = 3
  MaxFaults = 3
  Nobody = Nobody
  NoMessage = NoMessage
SYMMETRY Symmetry
CHECK_DEADLOCK FALSE
INVARIANTS
  TypeOK
  CommittedSettled
  InOrder
  LoopInv
  RepeatsCostFaults
  RequestOnce
  FaultFreeExactlyOnce
PROPERTIES
  WithdrawsAtMostOne
