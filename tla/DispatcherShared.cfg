\* Two rows for one file, paused and cancelled singly and together, and a
\* shutdown; store writes may fail.
CONSTANTS
  f1 = f1
  Ids = {1, 2}
  Files = {f1}
  FileOf <- OneFile
  DstOf <- OneFile
  Uploads = {}
  Queued = {1, 2}
  Clickers = {u1}
  Togglers = {}
  Ops = {"pause", "cancel", "cancelQueued"}
  MaxAttempts = 1
  StartPaused = FALSE
  DbErrors = TRUE
  DropsFail = FALSE
  MayStop = TRUE
  MaxLaunches = 1
SPECIFICATION Spec
CHECK_DEADLOCK FALSE
INVARIANTS OneWriterPerFile NoForgottenData 
PROPERTIES DiscardSparesWriters
