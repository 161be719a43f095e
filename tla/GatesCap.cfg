SPECIFICATION Spec
CONSTANTS
  ThresholdInjection = 41
  ThresholdJailbreak = 46
  RagPoisonThreshold = 55
  ClassifierThreshold = 90
  ClassifierBlocks = FALSE
  SemanticBlocks = TRUE
  ReportThreshold = 34
  Jobs <- PreCallJobs
CHECK_DEADLOCK FALSE
INVARIANT
  CapHidesNothing
