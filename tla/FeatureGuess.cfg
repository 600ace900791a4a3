SPECIFICATION FairGuessSpec
CONSTANTS
  MaxSize = 4
  Keys = {1, 2, 3}
  Tags = {1, 2}
  Discs <- AllDiscs
INVARIANTS
  Sorted
  Rearranged
  FoundMeansBest
  DominantIsGuessed
  AspectIsHonoured
  SmallerIsJustified
PROPERTIES
  GuessEnds
