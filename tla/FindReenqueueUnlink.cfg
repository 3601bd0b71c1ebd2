\* A cancelled upload is enqueued again while its discard is on its way.
CONSTANTS
  f1 = f1
  Ids = {1, 2}
  Files = {f1}
  FileOf <- OneFile
  DstOf <- OneFile
  Uploads = {1, 2}
  Queued = {1}
  Clickers = {u1}
  Togglers = {}
  Ops = {"cancel", "enqueue"}
  MaxAttempts = 1
  StartPaused = FALSE
  DbErrors = FALSE
  DropsFail = FALSE
  MayStop = FALSE
  MaxLaunches = 1
SPECIFICATION Spec
CHECK_DEADLOCK FALSE
PROPERTIES DiscardSparesWriters
