SPECIFICATION Spec
CONSTANTS
  Item = {i1, i2}
  NoItem = NoItem
  Thread = {t1, t2, t3, t4}
  Capacity = 2
SYMMETRY Symmetry
INVARIANTS
  TypeOK
  NoLostWakeup
PROPERTY IsFifo
\* With every thread in the same call the queue stays full or empty.
CHECK_DEADLOCK FALSE
