SPECIFICATION FairSpec
CONSTANTS
  FrameSize = 1
  FileSizes = {4}
  PoolSize = 2
PROPERTY ResumesFromBeginning
