SPECIFICATION FairSpec
CONSTANTS
  Task = {t1, t2}
  NoTask = NoTask
  IntId <- MCTwoIds
  Prio <- MCTwoPrio
  PrioLevels = 2
  InterruptableNum = 2
  VectorMax = 6
  CortexEntries = 2
  SpuriousId = 1023
  CFrameWords = {2}
  MaxCritical = 1
PROPERTIES
  PendingServed
  YieldApplied
