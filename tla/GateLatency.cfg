SPECIFICATION FairSpec
CONSTANTS
  p1 = p1
  p2 = p2
  scan1 = scan1
  scan2 = scan2
  check1 = check1
  check2 = check2
  None = None
  Partitions = {p1, p2}
  Checks = {check1}
  Backlog <- TwoAndOne
  Albums <- SomeAlbums
  Forever = 99
  MaxImages = 2
  OcrBudget = 3
  RequesterTimeout = 2
  RetryInitial = 1
  RetryMax = 3
  Horizon = 12
  MaxOutages = 2
INVARIANTS
  TypeOK
  WaitsAccounted
  TextsKept
  NoGhostJobs
PROPERTIES
  EverythingHandled
CHECK_DEADLOCK FALSE
