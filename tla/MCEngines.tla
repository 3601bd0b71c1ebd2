----------------------------- MODULE MCEngines -----------------------------
(***************************************************************************)
(* The scenes of Engines that TLC runs.  A file of five cells on two lanes *)
(* has a range of two and one of three: a remainder, and a cell that the   *)
(* resume check does not read back.                                        *)
(***************************************************************************)
EXTENDS Engines

\* One row on as many streams and connections as asked for.
Scene(dir, streams, grants) ==
  [dir |-> dir, rows |-> {1}, streams |-> streams, grants |-> grants, edits |-> 0,
   faults |-> 2, lens |-> {Size}, times |-> {"new"}, slack |-> 0, crash |-> "none", loss |-> "any",
   fsync |-> TRUE, prealloc |-> TRUE, posix |-> TRUE, old |-> FALSE, statFails |-> FALSE]

AllScenes ==
  {\* a download's machine crashes, and loses any of what was not synced
   [Scene("download", {2}, {2}) EXCEPT !.crash = "host"],
   [Scene("download", {1}, {1}) EXCEPT !.crash = "host"],
   \* both engines take turns, by the setting or by what the server grants
   [Scene("download", {1, 2}, {1, 2}) EXCEPT !.crash = "app", !.statFails = TRUE],
   [Scene("upload", {1, 2}, {1, 2}) EXCEPT !.posix = FALSE, !.old = TRUE],
   \* the source is replaced: by a file of another mtime, of the same, of another size
   [Scene("download", {2}, {2}) EXCEPT !.edits = 2, !.times = {"new", "same"}, !.faults = 1],
   [Scene("upload", {2}, {2}) EXCEPT !.edits = 1, !.times = {"new", "same", "old"}],
   [Scene("download", {2}, {2}) EXCEPT !.edits = 1, !.lens = {Size - 2, Size + 1}],
   [Scene("upload", {1}, {1}) EXCEPT !.edits = 2, !.lens = {Size, Size - 2}],
   [Scene("download", {1}, {1}) EXCEPT !.edits = 1],
   \* an upload's part may seem newer than it is, or older, or the new source is old
   [Scene("upload", {1}, {1}) EXCEPT !.edits = 2, !.slack = 1, !.times = {"new", "same", "old"}],
   [Scene("upload", {1}, {1}) EXCEPT !.edits = 1, !.slack = 0 - 1],
   \* an upload's server crashes, and loses the last it was sent
   [Scene("upload", {2}, {2}) EXCEPT !.crash = "server", !.loss = "late", !.faults = 1],
   [Scene("upload", {2}, {2}) EXCEPT !.crash = "server", !.loss = "late", !.faults = 1,
                                     !.fsync = FALSE],
   [Scene("upload", {1}, {1}) EXCEPT !.crash = "server"],
   \* a server that cannot preallocate
   [Scene("upload", {2}, {2}) EXCEPT !.prealloc = FALSE, !.posix = FALSE],
   \* two rows for one file
   [Scene("download", {2}, {2}) EXCEPT !.rows = {1, 2}, !.faults = 1],
   [Scene("upload", {2}, {2}) EXCEPT !.rows = {1, 2}, !.faults = 1],
   [Scene("download", {1}, {1}) EXCEPT !.rows = {1, 2}],
   [Scene("upload", {1}, {1}) EXCEPT !.rows = {1, 2}, !.edits = 1, !.slack = 1]}

\* Two rows for one file, or a source that is replaced, on one connection.
LinearScenes ==
  {[Scene("download", {1}, {1}) EXCEPT !.rows = {1, 2}],
   [Scene("download", {1}, {1}) EXCEPT !.edits = 1]}
=============================================================================
