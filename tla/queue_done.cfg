SPECIFICATION ShutdownSpec
CONSTANTS
  Item = {i1}
  NoItem = NoItem
  Thread = {t1}
  Capacity = 1
PROPERTY DoneUnblocks
CHECK_DEADLOCK FALSE
