\* One row from its enqueueing on, every button a row has, a crash and a relaunch.
CONSTANTS
  f1 = f1
  Ids = {1}
  Files = {f1}
  FileOf <- OneFile
  DstOf <- OneFile
  Uploads = {}
  Queued = {}
  Clickers = {u1}
  Togglers = {}
  Ops = {"enqueue", "pause", "resume", "cancel", "retryFailed"}
  MaxAttempts = 2
  StartPaused = FALSE
  DbErrors = FALSE
  DropsFail = TRUE
  MayStop = FALSE
  MaxLaunches = 2
SPECIFICATION Spec
CHECK_DEADLOCK FALSE
INVARIANTS TypeOK ActiveHasRunner LadderBounded
PROPERTIES IntentStands DiscardSparesRows LifecycleSpec
