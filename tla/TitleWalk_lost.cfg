SPECIFICATION WalkSpec
CONSTANTS
  MaxSector = 6
  INT_MAX = 1000
  ListSectors = {0, 1, 2, 3, 4}
  TitleSets <- AllTitleSets
INVARIANTS
  EveryCellKnown
