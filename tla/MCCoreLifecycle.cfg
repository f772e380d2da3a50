SPECIFICATION FairSpec
CONSTANTS
  Split = TRUE
  TRIES = 3
  MayRefuse = TRUE
INVARIANTS
  TypeOK
PROPERTIES
  WildOnlyByRetry
  ReportedCoreBooted
  RedeploySparesTheR8s
  ScriptsBounded
  ScriptsEnd
  RefinesCoreBoxes
