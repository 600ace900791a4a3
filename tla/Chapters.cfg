SPECIFICATION Spec
CONSTANTS
  MaxChapter = 4
  Discs <- AllDiscs
INVARIANTS
  RightCells
  HandsOverInOrder
  RightSectors
