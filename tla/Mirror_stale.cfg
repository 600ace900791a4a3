SPECIFICATION Spec
CONSTANTS
  DVD_VIDEO_LB_LEN = 2
  MaxSet = 1
  MaxPart = 2
  MaxRuns = 2
  Discs <- SameName
  Obstacles <- NoneTaken
INVARIANTS
  ExactDuplicate
