SPECIFICATION FairSpec
CONSTANTS
  FrameSize = 2
  FileSizes = {1, 3, 4}
  PoolSize = 2
INVARIANTS
  TypeOK
  PlayedInOrder
  RecordingBounded
PROPERTY ReadReturns
