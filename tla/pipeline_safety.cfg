SPECIFICATION Spec
CONSTANTS
  Block = {b1, b2, b3}
  NoBlock = NoBlock
  QueueSize = 3
  SeqMod = 4
  Faults = {}
  Keys = {"1", "2", "3"}
SYMMETRY Symmetry
INVARIANTS
  TypeOK
  SleepersJustified
  StopBound
  CaptureNeverWaitsOnQueue
  RewindNotLate
PROPERTIES
  PoolContract
  StreamContract
  FrameStable
