SPECIFICATION FairSpec
CONSTANTS
  Task = {t1, t2}
  Irq = {i1, i2}
  NoOne = NoOne
  Garbage = {7}
  Rubbish = Rubbish
  MaxStarts = 2
INVARIANTS
  TypeOK
  RecordComplete
  MaskedRecordIsWhole
  CauseIsOfThisStart
  BootCountHonest
  MaskedDeathIsSafe
  LastInterruptTold
PROPERTIES
  DeathGetsSafe
  RefinesCoreBox
