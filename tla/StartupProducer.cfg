SPECIFICATION Spec
CONSTANTS
  RetryInitial = 1
  RetryMax = 3
  MaxOutages = 3
CHECK_DEADLOCK FALSE
INVARIANTS
  ProducerReady
