SPECIFICATION FairSpec
CONSTANTS
  Block = {b1}
  Thread = {t1}
  NoBlock = NoBlock
PROPERTY ExhaustedAllocReturns
CHECK_DEADLOCK FALSE
