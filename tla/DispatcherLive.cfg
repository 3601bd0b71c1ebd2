\* The queue pause and the shutdown around a row the user may pause too, under
\* fairness, where state writes may fail: what is stopped lets go, and is not a
\* failure.
CONSTANTS
  f1 = f1
  Ids = {1}
  Files = {f1}
  FileOf <- OneFile
  DstOf <- OneFile
  Uploads = {}
  Queued = {1}
  Clickers = {u1}
  Togglers = {g1}
  Ops = {"pause"}
  MaxAttempts = 1
  StartPaused = FALSE
  DbErrors = TRUE
  DropsFail = FALSE
  MayStop = TRUE
  MaxLaunches = 1
SPECIFICATION FairSpec
CHECK_DEADLOCK FALSE
INVARIANTS
  StoppedMeansStopped
  PauseMirrored
PROPERTIES
  StopIsNotFailure
  HealSparesRunners
  StopFreesSlot
  ShutdownDrains
