SPECIFICATION FairSpec
CONSTANTS
  BUFFER_SIZE = 2
  MAX_VOB_SIZE = 3
  PARTS = 3
  MaxRuns = 2
  ABSENT = ABSENT
  Requests <- AllRequests
INVARIANTS
  PrefixOnDisk
  OnlyTheCells
  PartsAreFull
  StreamsAreClosed
PROPERTIES
  EveryRunEnds
