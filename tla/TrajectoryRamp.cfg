SPECIFICATION Spec
CONSTANTS
  t1 = t1
  t2 = t2
  t3 = t3
  t4 = t4
  t5 = t5
  t6 = t6
  t7 = t7
  p1 = p1
  p2 = p2
  NoParent = NoParent
  Partitions = {p1, p2}
  Sessions <- LongSessions
  HistoryLimit = 19
  MaxDepth = 12
  MaxFaults = 0
INVARIANTS
  LateRampDetected
CHECK_DEADLOCK FALSE
