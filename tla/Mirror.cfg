SPECIFICATION Spec
CONSTANTS
  DVD_VIDEO_LB_LEN = 2
  MaxSet = 2
  MaxPart = 2
  MaxRuns = 2
  Discs <- AllDiscs
  Obstacles <- SomeTaken
INVARIANTS
  
  OneSetAtATime
  BackupComesSecond
  VobsFitTogether
  DescriptorsAreBounded
  TornFilesBelongTogether
PROPERTIES
  OnlyWhatIsAsked
