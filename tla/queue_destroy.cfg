SPECIFICATION Spec
CONSTANTS
  Block = {b1}
  NoBlock = NoBlock
  QueueSize = 1
  SeqMod = 2
  Faults = {"open_capture", "open_record", "fb_init", "write", "draw", "read"}
  Keys = {"2", "q"}
INVARIANT CleanupCompletes
CHECK_DEADLOCK FALSE
