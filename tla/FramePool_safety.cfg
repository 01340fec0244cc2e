SPECIFICATION Spec
CONSTANTS
  Block = {b1, b2}
  Thread = {t1, t2, t3}
  NoBlock = NoBlock
SYMMETRY Symmetry
INVARIANTS
  TypeOK
  RefcountExact
  BlockAccounting
  NoLostWakeup
\* Threads that own every block and allocate one more wait for good.
CHECK_DEADLOCK FALSE
