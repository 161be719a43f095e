SPECIFICATION Spec
CONSTANTS
  ThresholdInjection = 41
  ThresholdJailbreak = 46
  RagPoisonThreshold = 55
  ClassifierThreshold = 90
  ClassifierBlocks = FALSE
  SemanticBlocks = TRUE
  ReportThreshold = 34
  Jobs <- AllJobs
CHECK_DEADLOCK FALSE
INVARIANTS
  TypeOK
  PathsAgree
  HighBlocks
  PolicyMonotone
  WeakNeedsCorroboration
  ResponseGateWeighs
  TraceCoversGates
  BadgeNeverOverstates
  UntrustedContentFlags
