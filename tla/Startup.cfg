SPECIFICATION FairSpec
CONSTANTS
  RetryInitial = 1
  RetryMax = 3
  MaxOutages = 3
CHECK_DEADLOCK FALSE
INVARIANTS
  TypeOK
  ReadyToConsume
PROPERTIES
  ComesUp
