SPECIFICATION Spec
CONSTANTS
  p1 = p1
  p2 = p2
  scan1 = scan1
  scan2 = scan2
  check1 = check1
  check2 = check2
  None = None
  Partitions = {p1, p2}
  Checks = {check1}
  Backlog <- OneAndOne
  Albums <- SlowImage
  Forever = 99
  MaxImages = 2
  OcrBudget = 12
  RequesterTimeout = 8
  RetryInitial = 1
  RetryMax = 30
  Horizon = 20
  MaxOutages = 0
INVARIANTS
  GatesNotStarved

CHECK_DEADLOCK FALSE
