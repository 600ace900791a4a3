SPECIFICATION FairSpec
CONSTANTS
  INT_MAX = 1000
  BUFFER_SIZE = 3
  MaxSize = 5
  Offsets = {0, 2}
  Calls <- AllCalls
INVARIANTS
  Aligned
  SameSize
  AbortIsExact
  GapsAreUnreferenced
  DamageIsLocal
PROPERTIES
  ImplementsBlockCopy
  Terminates
