SPECIFICATION LuckySpec
CONSTANTS
  Block = {b1}
  NoBlock = NoBlock
  QueueSize = 1
  SeqMod = 2
  Faults = {}
  Keys = {"2", "q"}
PROPERTY ExitEndsThreads
CHECK_DEADLOCK FALSE
