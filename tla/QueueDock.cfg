SPECIFICATION Spec
CONSTANTS
  Ids = {1, 2, 3}
  PendingCap = 2
  FailedCap = 1
  FinishedCap = 1
  Scenes <- AllScenes
  MaxReads = 2
  MaxCalls = 1
CHECK_DEADLOCK FALSE
INVARIANTS
  TypeOK
  QuietIsCurrent
  ViewsMatchQueue
PROPERTIES
  ListNeverRewinds
  AsksFirst
  MirrorSettles
