SPECIFICATION Spec
CONSTANTS
  Task = {x1, x2}
  NoTask = NoTask
  Pusher = {t1, t2}
  Popper = {t3, t4}
  Capacity = 2
  PoolSize = 2
  Owner = {o1, o2, o3}
  SizeMax = 3
  Extents = {0, 1, 2}
  FileMax = 3
  Resolution = 2
  Padding = 2
  Coordinate = {0, 1, 2, 3, 5, 8}
  Width = 12
  Radius = 24
  Column = {0, 3}
  Letter = {2, 4}
  Screen = {10, 13, 14, 16, 17, 27, 28, 31, 40}
INVARIANTS
  TypeOK
  NoneStranded
  NullJustified
  FrameWhole
  TransferRight
  PixelsInside
  ScaleExact
  LineExact
  FiguresExact
PROPERTIES
  IsFifoWhileRunning
  BlocksExclusive
  LoopReturns
  MenuSettles
  TabEnds
\* The task queue and display stop for good.
CHECK_DEADLOCK FALSE
