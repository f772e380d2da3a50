SPECIFICATION Spec
CONSTANTS
  Task = {t1, t2}
  NoTask = NoTask
  IntId <- MCIntId
  Prio <- MCPrio
  PrioLevels = 3
  InterruptableNum = 3
  VectorMax = 6
  CortexEntries = 2
  SpuriousId = 1023
  CFrameWords = {2}
  MaxCritical = 0
INVARIANT
  EntryMeansDispatch
