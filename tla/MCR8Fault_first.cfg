SPECIFICATION Spec
CONSTANTS
  Task = {t1, t2}
  Irq = {i1}
  NoOne = NoOne
  Garbage = {0, 7}
  Rubbish = Rubbish
  MaxStarts = 1
PROPERTIES
  FirstFaultKept
