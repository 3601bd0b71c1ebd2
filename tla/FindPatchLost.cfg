\* A state received while a list is being read.
SPECIFICATION Spec
CONSTANTS
  Ids = {1, 2, 3}
  PendingCap = 2
  FailedCap = 1
  FinishedCap = 1
  Scenes <- MirrorScenes
  MaxReads = 2
  MaxCalls = 1
CHECK_DEADLOCK FALSE
PROPERTIES
  PatchOutlivesRead
