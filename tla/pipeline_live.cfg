SPECIFICATION FairSpec
CONSTANTS
  Block = {b1, b2}
  NoBlock = NoBlock
  QueueSize = 1
  SeqMod = 3
  Faults = {"read", "draw", "write"}
  Keys = {"1", "2", "3"}
PROPERTIES
  PipelineProgress
  SurvivorServed
