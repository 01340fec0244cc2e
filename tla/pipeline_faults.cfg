SPECIFICATION Spec
CONSTANTS
  Block = {b1, b2}
  NoBlock = NoBlock
  QueueSize = 1
  SeqMod = 3
  Faults = {"create", "open_capture", "open_record", "fb_init",
            "read", "draw", "lseek", "write"}
  Keys = {"1", "2", "3", "q"}
SYMMETRY Symmetry
INVARIANTS
  SleepersJustified
  StopBound
PROPERTIES
  PoolContract
  StreamContract
  FrameStable
\* After a failure or the exit the remaining threads may all be blocked.
CHECK_DEADLOCK FALSE
