\* Both engines on the files of one destination, with every fault they answer.
CONSTANTS
  Rows = {1, 2}
  Size = 5
  Lanes = 2
  Scenes <- AllScenes
SPECIFICATION FairSpec
CHECK_DEADLOCK FALSE
INVARIANTS
  TypeOK
PROPERTIES
  PublishedIsWhole
  ResumableIsKept
  EveryRowArrives
