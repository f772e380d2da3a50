SPECIFICATION Spec
CONSTANTS
  Task = {t1, t2}
  NoTask = NoTask
  IntId <- MCFewIds
  Prio <- MCFewPrio
  PrioLevels = 3
  InterruptableNum = 3
  VectorMax = 6
  CortexEntries = 2
  SpuriousId = 1023
  CFrameWords = {2}
  MaxCritical = 2
SYMMETRY TaskSymmetry
INVARIANTS
  TypeOK
  TaskContextIntact
  NothingLeftBehind
  YieldServedBeforeTask
  IsrContextIntact
  OnlyTasksSaved
  NestingBounded
  OnlyTableIndexed
PROPERTIES
  EndsInnermost
  ServiceBounded
  RefinesNesting
