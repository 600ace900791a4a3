SPECIFICATION Spec
CONSTANTS
  BUFFER_SIZE = 2
  MAX_VOB_SIZE = 3
  PARTS = 3
  MaxRuns = 1
  ABSENT = ABSENT
  Requests <- Titles
INVARIANTS
  EverySectorOfTheCells
