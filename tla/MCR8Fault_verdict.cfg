SPECIFICATION Spec
CONSTANTS
  Task = {t1, t2}
  Irq = {i1, i2}
  NoOne = NoOne
  Garbage = {0, 7}
  Rubbish = Rubbish
  MaxStarts = 1
INVARIANTS
  VerdictIsTrue
