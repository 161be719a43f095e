\* The history holds five turns, fewer than the long session has, and a walk
\* two ancestors, fewer than a cycle goes on for.
SPECIFICATION Spec
CONSTANTS
  t1 = t1
  t2 = t2
  t3 = t3
  t4 = t4
  t5 = t5
  t6 = t6
  t7 = t7
  p1 = p1
  p2 = p2
  NoParent = NoParent
  Partitions = {p1, p2}
  Sessions <- MCSessions
  HistoryLimit = 5
  MaxDepth = 2
  MaxFaults = 1
INVARIANTS
  TypeOK
  HistoryIsThePast
  ChainIsAncestry
  EscalationCrossesAgents
  VerdictsAreTrends
  CrescendoOnlyEarly
CHECK_DEADLOCK FALSE
