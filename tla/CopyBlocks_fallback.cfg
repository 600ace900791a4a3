SPECIFICATION FairSpec
CONSTANTS
  INT_MAX = 1000
  BUFFER_SIZE = 2
  MaxSize = 3
  Offsets = {0}
  Calls <- SkipUnusedCalls
PROPERTIES
  BadBlockIsPassed
