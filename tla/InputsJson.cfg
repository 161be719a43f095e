SPECIFICATION PartsSpec
CONSTANTS
  AtWork = {"inputs"}
  Texts <- ModelTexts
  MaxTexts = 3
  NumberTexts <- PiiTexts
  Ignores <- PiiIgnores
  MaxMatches = 2
  MinConfidence = 30
  Passages <- PatternTexts
  Detectors <- PatternDetectors
  Upper <- Capitals
  Lower <- Small
  Trees <- TraceTrees
  JsonLists <- JsonListTexts
  JsonObjects <- JsonObjectTexts
  SourceLimit = 1
  MaxFaults = 1
  WindowChars = 4
  StrideChars = 3
  MaxWindows = 8
  Densities = {1, 3, 4, 6}
  Lengths = {0, 1, 2, 3, 4, 5, 6, 7, 8, 9, 23, 24, 25, 26, 27, 28, 29, 30}
  Phrases = {1, 2, 3}
  ThresholdInjection = 41
  ThresholdJailbreak = 46
  RagPoisonThreshold = 55
  ClassifierThreshold = 90
  ClassifierBlocks = FALSE
  SemanticBlocks = TRUE
INVARIANTS
  TypedJsonReadsAsNative
CHECK_DEADLOCK FALSE
