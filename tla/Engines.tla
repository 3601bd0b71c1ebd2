------------------------------ MODULE Engines ------------------------------
(***************************************************************************)
(* The two transfer engines (internal/engine/sftpfast) and the part of     *)
(* runTransfer that chooses between them, on the files of one destination: *)
(*                                                                         *)
(*   dst           the published file                                      *)
(*   dst.wspart    what the linear engine has so far, a growing prefix     *)
(*   dst.wschunk   what the chunk engine has so far, full size from the    *)
(*                 start and filled at absolute offsets                    *)
(*                                                                         *)
(* Rows of the queue that share the destination take turns: the dispatcher *)
(* runs one at a time (Dispatcher!OneWriterPerFile).  An attempt may end   *)
(* at any point, by an error, a pause, a crash of the app, of its machine  *)
(* or of the server, and the row is run again.  A file is a sequence of    *)
(* cells; a cell holds the tag of the source version it was copied from,   *)
(* or Hole.  A cell is as large as the window the resume check reads back. *)
(***************************************************************************)
EXTENDS Integers, Sequences, FiniteSets

CONSTANTS
  Rows,      \* rows of the queue aimed at the destination
  Size,      \* cells of a source when its row was enqueued
  Lanes,     \* connections the settings ask for
  Scenes     \* what is set up, what may go wrong, and how often

\* Rows are numbered from one, so that their tags are not those of later sources.
ASSUME EngineConstants ==
  /\ IsFiniteSet(Rows) /\ Rows \subseteq 1..Cardinality(Rows)
  /\ Size \in Nat \ {0} /\ Lanes \in Nat \ {0, 1} /\ Lanes <= Size

\* A scene: the direction and the rows there are, the streams the settings may
\* ask for and the connections the server may grant; how often sources are
\* replaced, by which lengths, and whether the new file's mtime is the time it
\* was put there, that of the old one, or older still; by how much a part may seem
\* older than the source an upload resumes it for (two seconds, and what the
\* server's clock is ahead of the app's); what crashes and what it loses; and what
\* the server can do.
ASSUME SceneAssumption ==
  \A s \in Scenes :
    /\ s.dir \in {"download", "upload"} /\ s.rows \subseteq Rows
    /\ s.streams \subseteq Nat \ {0} /\ s.grants \subseteq Nat \ {0}
    /\ s.edits \in Nat /\ s.lens \subseteq Nat
    /\ s.times \subseteq {"new", "same", "old"} /\ s.slack \in Int
    /\ s.faults \in Nat /\ s.crash \in {"none", "app", "host", "server"} /\ s.loss \in {"any", "late"}
    /\ {s.fsync, s.prealloc, s.posix, s.old, s.statFails} \subseteq BOOLEAN

VARIABLES
  scene,
  source,    \* the file each row reads: its tag, length and mtime
  row,       \* the row in the queue's database: open, src_mtime, chunk plan
  wspart,    \* dst.wspart
  wschunk,   \* dst.wschunk: what a reader sees, and what would survive a crash
  final,     \* dst, empty if there is none
  run,       \* the attempt under way
  faults, clock

fileVars == <<wspart, wschunk, final>>
vars == <<scene, source, row, fileVars, run, faults, clock>>

Hole == 0
Download == scene.dir = "download"
Content(r) == [c \in 1..source[r].len |-> source[r].tag]

NoPart == [here |-> FALSE, data |-> <<>>, stamp |-> 0]
NoChunk == [here |-> FALSE, data |-> <<>>, disk |-> <<>>]
Resized(s, n) == [c \in 1..n |-> IF c \in DOMAIN s THEN s[c] ELSE Hole]

NoRun == [row |-> 0, at |-> "none", asked |-> 0, got |-> 0, mtime |-> 0, chunked |-> FALSE,
          blind |-> FALSE, stop |-> FALSE, dead |-> FALSE, adopted |-> FALSE, lanes |-> <<>>]
At(a) == run.row # 0 /\ run.at = a
Goto(a) == run' = [run EXCEPT !.at = a]
Ends == run' = NoRun
Fault == faults < scene.faults /\ faults' = faults + 1
-----------------------------------------------------------------------------
(* The chunk plan.                                                         *)

\* Mutant: the remainder is forgotten.
PlanEqualRanges(size, n) ==
  IF n < 2 \/ size \div n = 0 THEN <<>>
  ELSE [i \in 1..n |-> [off |-> (i - 1) * (size \div n), done |-> 0, len |-> size \div n]]

\* Equal ranges, the last with the remainder; none for a file with fewer
\* cells than lanes.
PlanChunks(size, n) ==
  LET each == size \div n
  IN IF n < 2 \/ each = 0 THEN <<>>
     ELSE [i \in 1..n |-> [off |-> (i - 1) * each, done |-> 0,
                           len |-> IF i = n THEN size - (i - 1) * each ELSE each]]

\* The ranges tile the file and no checkpoint is beyond its range.
Usable(plan, size) ==
  /\ Len(plan) >= 2 /\ plan[1].off = 0
  /\ \A i \in DOMAIN plan : plan[i].done <= plan[i].len
  /\ \A i \in 2..Len(plan) : plan[i].off = plan[i - 1].off + plan[i - 1].len
  /\ plan[Len(plan)].off + plan[Len(plan)].len = size

HasChunkProgress(plan) == \E i \in DOMAIN plan : plan[i].done > 0
Complete(plan) == \A i \in DOMAIN plan : plan[i].done = plan[i].len
Claimed(g) == (g.off + 1)..(g.off + g.done)

\* What a resume reads back of a range: the tail of what is claimed and, when
\* the two windows are disjoint, the head.
Windows(g) == IF g.done = 0 THEN {} ELSE {g.off + g.done, g.off + 1}

\* Mutant: the part has the right size, so it is the right part.
VerifiedBySize(r, part) == part.here /\ Len(part.data) = Size

Verified(r, part) ==
  /\ part.here /\ Len(part.data) = Size
  /\ \A i \in DOMAIN row[r].plan :
       \A c \in Windows(row[r].plan[i]) : part.data[c] = Content(r)[c]

SetPlan(r, plan) == row' = [row EXCEPT ![r].plan = plan]
-----------------------------------------------------------------------------
(* runTransfer: connections, plan, leftovers.                              *)

\* A row is started with what the settings ask for, and the server grants as
\* many connections or fewer.
Start(r) ==
  /\ run = NoRun /\ row[r].open
  /\ \E asked \in scene.streams, got \in scene.grants :
       /\ got <= asked
       /\ got < asked => faults < scene.faults
       /\ faults' = faults + (IF got < asked THEN 1 ELSE 0)
       /\ run' = [NoRun EXCEPT !.row = r, !.at = "plan", !.asked = asked, !.got = got,
                               !.mtime = row[r].mtime]
  /\ UNCHANGED <<scene, source, row, fileVars, clock>>

Linear == Goto("clear")

\* A part-transferred file waits for its connections.
TooNarrow ==
  IF run.asked >= 2 /\ HasChunkProgress(row[run.row].plan) THEN Ends ELSE Linear

\* chunkPlan, up to the point where the source proves changed.
ChunkPlan ==
  LET r == run.row IN
  /\ At("plan")
  /\ IF run.got < 2 THEN TooNarrow /\ UNCHANGED <<row, faults>>
     ELSE \/ /\ scene.statFails /\ faults < scene.faults
             /\ faults' = faults + 1
             /\ run' = [run EXCEPT !.at = "clear", !.blind = TRUE] /\ row' = row
          \/ /\ faults' = faults
             /\ IF source[r].len # Size \/ run.mtime \notin {0, source[r].mtime}
                THEN Goto("changed") /\ SetPlan(r, <<>>)
                ELSE Goto("ranges") /\ row' = row
  /\ UNCHANGED <<scene, source, fileVars, clock>>

\* removeTransferPart: on a dead connection an upload's part stays.
RemoveChunkPart == wschunk' = IF run.dead THEN wschunk ELSE NoChunk
RemoveLinearPart == wspart' = IF run.dead THEN wspart ELSE NoPart

\* The part of the file that was; a file of another size is for the linear engine.
SourceChanged ==
  /\ At("changed")
  /\ RemoveChunkPart
  /\ IF source[run.row].len # Size THEN Linear ELSE Goto("ranges")
  /\ UNCHANGED <<scene, source, row, wspart, final, faults, clock>>

\* The plan is saved, then the mtime it was made for; that write may fail unheeded.
SavePlan(r, plan) ==
  \/ row' = [row EXCEPT ![r].plan = plan, ![r].mtime = source[r].mtime] /\ faults' = faults
  \/ SetPlan(r, plan) /\ Fault

\* The saved plan, or a new one for as many lanes as there are connections.
Ranges ==
  LET r == run.row
      saved == Len(row[r].plan) >= 2
      plan == IF saved THEN row[r].plan ELSE PlanChunks(Size, run.got)
  IN /\ At("ranges")
     /\ IF saved \/ Len(plan) < 2 THEN UNCHANGED <<row, faults>> ELSE SavePlan(r, plan)
     /\ run' = [run EXCEPT !.at = "clear", !.chunked = Usable(plan, Size)]
     /\ UNCHANGED <<scene, source, fileVars, clock>>

\* Whichever engine runs clears what the other left.
ClearLeftovers ==
  /\ At("clear")
  /\ IF run.chunked THEN RemoveLinearPart /\ wschunk' = wschunk /\ Goto("open")
     ELSE RemoveChunkPart /\ wspart' = wspart /\ Goto("unplan")
  /\ UNCHANGED <<scene, source, row, final, faults, clock>>

\* The linear engine needs no plan.
DropPlan ==
  /\ At("unplan")
  /\ SetPlan(run.row, <<>>) /\ Goto("open")
  /\ UNCHANGED <<scene, source, fileVars, faults, clock>>
-----------------------------------------------------------------------------
(* DownloadChunks and UploadChunks.                                        *)

StartLanes(plan) ==
  run' = [run EXCEPT !.at = "copy",
                     !.lanes = [i \in DOMAIN plan |->
                                  [at |-> IF plan[i].done = plan[i].len THEN "end" ELSE "copy",
                                   done |-> plan[i].done, last |-> FALSE, failed |-> FALSE]]]

\* The part on disk is trusted only as far as it is proved.
Resume(verified) ==
  LET r == run.row IN
  /\ HasChunkProgress(row[r].plan)
  /\ IF verified THEN StartLanes(row[r].plan) ELSE Goto("lost")
  /\ UNCHANGED <<row, fileVars>>

\* A fresh download keeps what is there and writes over all of it; a fresh
\* upload removes it first, and may find that the server cannot preallocate.
Prepare ==
  LET r == run.row IN
  /\ ~HasChunkProgress(row[r].plan)
  /\ \/ /\ Download
        /\ wschunk' = [here |-> TRUE, data |-> Resized(wschunk.data, Size),
                       disk |-> Resized(wschunk.disk, Size)]
        /\ StartLanes(row[r].plan) /\ row' = row
     \/ /\ ~Download /\ scene.prealloc
        /\ wschunk' = [here |-> TRUE, data |-> Resized(<<>>, Size), disk |-> Resized(<<>>, Size)]
        /\ StartLanes(row[r].plan) /\ row' = row
     \/ /\ ~Download /\ ~scene.prealloc
        /\ wschunk' = NoChunk /\ SetPlan(r, <<>>)
        /\ run' = [run EXCEPT !.chunked = FALSE]
  /\ UNCHANGED <<wspart, final>>

OpenChunked ==
  /\ At("open") /\ run.chunked /\ ~run.dead
  /\ Resume(Verified(run.row, wschunk)) \/ Prepare
  /\ UNCHANGED <<scene, source, faults, clock>>

\* Mutant: only the part goes.
LostKeepingPlan ==
  /\ At("lost")
  /\ Goto("lostpart")
  /\ UNCHANGED <<scene, source, row, fileVars, faults, clock>>

\* ErrChunkStateLost: the checkpoints go, then the part, and the row is
\* queued again.
ChunkStateLost ==
  /\ At("lost")
  /\ SetPlan(run.row, <<>>) /\ Goto("lostpart")
  /\ UNCHANGED <<scene, source, fileVars, faults, clock>>

RemoveLostPart ==
  /\ At("lostpart")
  /\ RemoveChunkPart /\ Ends
  /\ UNCHANGED <<scene, source, row, wspart, final, faults, clock>>

Lane(i, at) == run' = [run EXCEPT !.lanes[i].at = at]

\* A write is on disk once it is synced; it counts as synced where the scene has
\* no crash to tell the difference.
Written(c, tag) ==
  [wschunk EXCEPT !.data[c] = tag, !.disk[c] = IF scene.crash \in {"host", "server"} THEN @ ELSE tag]

\* fetchRange and sendRange: a cell is copied, and a checkpoint may be due.
CopyCell(i) ==
  LET g == row[run.row].plan[i]  l == run.lanes[i]  c == g.off + l.done + 1 IN
  /\ At("copy") /\ run.chunked /\ ~run.stop /\ ~run.dead
  /\ l.at = "copy" /\ l.done < g.len
  /\ wschunk' = Written(c, Content(run.row)[c])
  /\ \E due \in BOOLEAN :
       run' = [run EXCEPT !.lanes[i].done = @ + 1, !.lanes[i].at = IF due THEN "sync" ELSE "copy"]
  /\ UNCHANGED <<scene, source, row, wspart, final, faults, clock>>

\* The range is through, or the transfer was stopped: commit and return.
LastCommit(i) ==
  /\ At("copy") /\ run.chunked
  /\ run.lanes[i].at = "copy"
  /\ run.stop \/ run.lanes[i].done = row[run.row].plan[i].len
  /\ run' = [run EXCEPT !.lanes[i].at = "sync", !.lanes[i].last = TRUE]
  /\ UNCHANGED <<scene, source, row, fileVars, faults, clock>>

\* A read or a write fails: what arrived is committed before the lane returns.
CopyFails(i) ==
  /\ At("copy") /\ run.chunked /\ run.lanes[i].at = "copy"
  /\ run.dead \/ faults < scene.faults
  /\ faults' = faults + (IF run.dead THEN 0 ELSE 1)
  /\ run' = [run EXCEPT !.lanes[i].at = "sync", !.lanes[i].last = TRUE, !.lanes[i].failed = TRUE]
  /\ UNCHANGED <<scene, source, row, fileVars, clock>>

Synced(i) == Lane(i, "mark") /\ wschunk' = [wschunk EXCEPT !.disk = wschunk.data]
Unsynced(i) == Lane(i, "mark") /\ wschunk' = wschunk

\* A download's commit syncs every time.  An upload's does so where the server
\* can, when the range returns or half a minute has passed.
MaySkipSync(i) == ~Download /\ (~scene.fsync \/ ~run.lanes[i].last)
SyncBefore(i) == (~run.dead /\ (Download \/ scene.fsync) /\ Synced(i)) \/ (MaySkipSync(i) /\ Unsynced(i))

\* Mutant: the checkpoint rides the byte bound, the sync only ends a range.
SyncAtTheEnd(i) ==
  /\ At("copy") /\ run.lanes[i].at = "sync"
  /\ IF run.lanes[i].last THEN SyncBefore(i) ELSE Unsynced(i)
  /\ UNCHANGED <<scene, source, row, wspart, final, faults, clock>>

\* fsync, then the checkpoint.
Sync(i) ==
  /\ At("copy") /\ run.lanes[i].at = "sync"
  /\ SyncBefore(i)
  /\ UNCHANGED <<scene, source, row, wspart, final, faults, clock>>

\* Without its sync a checkpoint is not written.
SyncFails(i) ==
  /\ At("copy") /\ run.lanes[i].at = "sync"
  /\ run.dead \/ faults < scene.faults
  /\ faults' = faults + (IF run.dead THEN 0 ELSE 1)
  /\ run' = [run EXCEPT !.lanes[i].at = "end", !.stop = TRUE]
  /\ UNCHANGED <<scene, source, row, fileVars, clock>>

\* UpdateChunkProgress.  The first lane to fail stops the others.
Checkpoint(i) ==
  LET l == run.lanes[i] IN
  /\ At("copy") /\ l.at = "mark"
  /\ row' = [row EXCEPT ![run.row].plan[i].done = l.done]
  /\ run' = [run EXCEPT !.lanes[i].at = IF l.last THEN "end" ELSE "copy",
                        !.stop = @ \/ l.failed]
  /\ UNCHANGED <<scene, source, fileVars, faults, clock>>

\* All lanes are back: every range must have reported its full length.
LanesReturn ==
  /\ At("copy") /\ run.chunked
  /\ \A i \in DOMAIN run.lanes : run.lanes[i].at = "end"
  /\ IF run.stop \/ run.dead \/ ~Complete(row[run.row].plan) THEN Ends ELSE Goto("publish")
  /\ UNCHANGED <<scene, source, row, fileVars, faults, clock>>
-----------------------------------------------------------------------------
(* Download and Upload, on one connection.                                 *)

\* An upload's part does not seem older than the source.  The server stamps the
\* part; the source carries a time of the app's machine, or of wherever it comes from.
NotStale(r) == wspart.stamp + scene.slack >= source[r].mtime

\* Mutant: the part's time is not looked at.
ResumeAnyPart(r) ==
  IF wspart.here /\ Len(wspart.data) <= source[r].len THEN Len(wspart.data) ELSE 0

\* Where the linear engine takes up: at the length of the part, unless the
\* source is shorter or, for an upload, the part stale.
ResumeOffset(r) ==
  IF wspart.here /\ Len(wspart.data) <= source[r].len /\ (Download \/ NotStale(r))
  THEN Len(wspart.data) ELSE 0

\* For the properties: length and time cannot tell the part from one of this
\* source, though it was copied from another.
Passes(r) ==
  /\ wspart.here /\ Len(wspart.data) <= source[r].len
  /\ Download \/ source[r].mtime <= wspart.stamp + scene.slack
  /\ \E c \in DOMAIN wspart.data : wspart.data[c] # source[r].tag

OpenLinear ==
  LET from == ResumeOffset(run.row) IN
  /\ At("open") /\ ~run.chunked /\ ~run.dead
  /\ wspart' = [here |-> TRUE, data |-> SubSeq(wspart.data, 1, from),
                stamp |-> IF from = 0 THEN clock ELSE wspart.stamp]
  /\ run' = [run EXCEPT !.at = "copy", !.adopted = Passes(run.row)]
  /\ UNCHANGED <<scene, source, row, wschunk, final, faults, clock>>

CopyOn ==
  LET n == Len(wspart.data) IN
  /\ At("copy") /\ ~run.chunked /\ ~run.stop /\ ~run.dead
  /\ IF n = source[run.row].len THEN Goto("publish") /\ wspart' = wspart
     ELSE /\ wspart' = [wspart EXCEPT !.data = Append(@, Content(run.row)[n + 1]), !.stamp = clock]
          /\ run' = run
  /\ UNCHANGED <<scene, source, row, wschunk, final, faults, clock>>
-----------------------------------------------------------------------------
(* Publication.                                                            *)

Assembled == IF run.chunked THEN wschunk.data ELSE wspart.data

\* The part takes the name.
Rename ==
  /\ final' = Assembled
  /\ IF run.chunked THEN wschunk' = NoChunk /\ wspart' = wspart
     ELSE wspart' = NoPart /\ wschunk' = wschunk

\* A download is synced and renamed; so is an upload renamed, where the server
\* can replace a file.
Publish ==
  /\ At("publish") /\ ~run.dead
  /\ Download \/ scene.posix \/ final = <<>>
  /\ Rename /\ Goto("published")
  /\ UNCHANGED <<scene, source, row, faults, clock>>

\* Elsewhere the old file is removed first.
RemoveOld ==
  /\ At("publish") /\ ~run.dead /\ ~Download /\ ~scene.posix /\ final # <<>>
  /\ final' = <<>>
  /\ UNCHANGED <<scene, source, row, wspart, wschunk, run, faults, clock>>

\* The plan goes and the row is completed.
Finish ==
  /\ At("published")
  /\ row' = [row EXCEPT ![run.row].plan = <<>>, ![run.row].open = FALSE]
  /\ Ends
  /\ UNCHANGED <<scene, source, fileVars, faults, clock>>
-----------------------------------------------------------------------------
(* What goes wrong.                                                        *)

\* Pause, cancel or the watchdog; the lanes return in their own time.
Stopped ==
  /\ At("copy") /\ ~run.stop /\ Fault
  /\ run' = [run EXCEPT !.stop = TRUE]
  /\ UNCHANGED <<scene, source, row, fileVars, clock>>

\* Outside the lanes an error or a stop ends the attempt where it is: a failed
\* open, verification, copy or rename; after the rename only a download can
\* fail, to set the file's time.
MayFail ==
  /\ run.row # 0 /\ (run.at = "copy" => ~run.chunked)
  /\ run.at \notin {"lost", "lostpart"} /\ (run.at = "published" => Download)

GivesUp ==
  /\ MayFail /\ (run.dead \/ run.stop)
  /\ Ends
  /\ UNCHANGED <<scene, source, row, fileVars, faults, clock>>

AttemptFails ==
  /\ MayFail /\ Fault
  /\ Ends
  /\ UNCHANGED <<scene, source, row, fileVars, clock>>

\* The app is killed: the files stay as they are.
AppDies ==
  /\ scene.crash \in {"app", "host"} /\ run.row # 0 /\ Fault
  /\ Ends
  /\ UNCHANGED <<scene, source, row, fileVars, clock>>

\* What a crash may leave of the chunk part: unsynced cells read as before;
\* where only the latest writes are lost, those are the last of each range.
Survivors ==
  LET seen == wschunk.data  disk == wschunk.disk
      unsynced == {c \in DOMAIN seen : seen[c] # disk[c]}
      late(lost) == \A g \in {PlanChunks(Size, Lanes)[i] : i \in 1..Lanes} :
                      \A c \in lost, d \in unsynced :
                        {c, d} \subseteq (g.off + 1)..(g.off + g.len) /\ c < d => d \in lost
  IN {[c \in DOMAIN seen |-> IF c \in lost THEN disk[c] ELSE seen[c]] :
        lost \in {l \in SUBSET unsynced : scene.loss = "late" => late(l)}}

FilesCrash ==
  /\ \E s \in Survivors : wschunk' = [wschunk EXCEPT !.data = s, !.disk = s]
  /\ \E n \in 0..Len(wspart.data) : wspart' = [wspart EXCEPT !.data = SubSeq(@, 1, n)]
  /\ final' = final

\* A download's files are on the app's machine, an upload's on the server's;
\* then the run goes on to find its connections dead.
HostDies ==
  /\ scene.crash = "host" /\ Download /\ Fault
  /\ FilesCrash /\ Ends
  /\ UNCHANGED <<scene, source, row, clock>>

ServerDies ==
  /\ scene.crash = "server" /\ ~Download /\ run.row # 0 /\ ~run.dead /\ Fault
  /\ FilesCrash
  /\ run' = [run EXCEPT !.dead = TRUE]
  /\ UNCHANGED <<scene, source, row, clock>>

\* Somebody replaces a source between two attempts.  The clock counts from two,
\* so that there is an older time than that of the first sources.
Replace(r) ==
  /\ run = NoRun /\ row[r].open /\ clock <= scene.edits + 1
  /\ \E len \in scene.lens, time \in scene.times :
       source' = [source EXCEPT ![r] = [tag |-> Cardinality(Rows) + clock, len |-> len,
                                        mtime |-> CASE time = "new" -> clock + 1
                                                    [] time = "same" -> @.mtime
                                                    [] time = "old" -> 1]]
  /\ clock' = clock + 1
  /\ UNCHANGED <<scene, row, fileVars, run, faults>>
-----------------------------------------------------------------------------
Init ==
  /\ scene \in Scenes
  /\ source = [r \in Rows |-> [tag |-> r, len |-> Size, mtime |-> 2]]
  /\ row = [r \in Rows |-> [open |-> r \in scene.rows, mtime |-> 0, plan |-> <<>>]]
  /\ wspart = NoPart /\ wschunk = NoChunk
  /\ final = IF scene.old THEN <<Hole>> ELSE <<>>
  /\ run = NoRun /\ faults = 0 /\ clock = 2

LaneStep(i) ==
  \/ CopyCell(i) \/ LastCommit(i) \/ CopyFails(i) \/ Sync(i) \/ SyncFails(i) \/ Checkpoint(i)

RunTransfer ==
  \/ ChunkPlan \/ SourceChanged \/ Ranges \/ ClearLeftovers \/ DropPlan
  \/ OpenChunked \/ ChunkStateLost \/ RemoveLostPart
  \/ \E i \in DOMAIN run.lanes : LaneStep(i)
  \/ LanesReturn
  \/ OpenLinear \/ CopyOn
  \/ Publish \/ RemoveOld \/ Finish
  \/ GivesUp

Environment ==
  \/ Stopped \/ AttemptFails \/ AppDies \/ HostDies \/ ServerDies
  \/ \E r \in Rows : Replace(r)

Next == (\E r \in Rows : Start(r)) \/ RunTransfer \/ Environment

Spec == Init /\ [][Next]_vars

\* An attempt goes on as long as it can, and a row that keeps being eligible is
\* started in its turn.
FairSpec ==
  /\ Spec
  /\ WF_vars(RunTransfer)
  /\ \A r \in Rows : SF_vars(Start(r))
-----------------------------------------------------------------------------
Data == Seq(Nat)
LaneAt == {"copy", "sync", "mark", "end"}
RangeRec == [off : 0..Size, len : 0..Size, done : 0..Size]

\* The shapes of the state.  A lane is never beyond its range (chunked.go:367,
\* upload_chunked.go:445), so neither is a checkpoint.
TypeOK ==
  /\ scene \in Scenes
  /\ \A r \in Rows :
       /\ source[r].tag \in Nat /\ source[r].len \in Nat /\ source[r].mtime \in Nat
       /\ row[r].open \in BOOLEAN /\ row[r].mtime \in Nat
       /\ row[r].plan \in Seq(RangeRec)
       /\ row[r].plan # <<>> => Usable(row[r].plan, Size)
  /\ wspart.here \in BOOLEAN /\ wspart.data \in Data
  /\ wschunk.here \in BOOLEAN /\ wschunk.data \in Data /\ wschunk.disk \in Data
  /\ Len(wschunk.data) = IF wschunk.here THEN Size ELSE 0
  /\ Len(wschunk.disk) = Len(wschunk.data)
  /\ final \in Data
  /\ run.row \in Rows \cup {0}
  /\ \A i \in DOMAIN run.lanes :
       /\ run.lanes[i].at \in LaneAt
       /\ run.at = "copy" => run.lanes[i].done <= row[run.row].plan[i].len
  /\ faults \in 0..scene.faults

\* Whatever takes the name of the destination is the whole content of its
\* source and nothing else (download.go:12-14, chunked.go:225-227): not a part
\* of another row or of an older source, no hole a crash left, no range twice.
PublishedIsTheSource ==
  [][run'.at = "published" /\ run.at # "published" => final' = Content(run.row)]_vars

\* The same, of every attempt but those of the linear engine that set out from a
\* part of another source which length and time (download.go:54-60,
\* upload.go:48-62) could not tell from their own.  Those publish a splice; no
\* other attempt may, on either engine and in either direction.
PublishedIsWhole ==
  [][run'.at = "published" /\ run.at # "published" /\ ~run.adopted
       => final' = Content(run.row)]_vars

\* What a row has transferred and can take up again: the part is there, it
\* holds every cell the checkpoints claim, and the source is the planned one.
Resumable(r) ==
  /\ HasChunkProgress(row[r].plan) /\ wschunk.here
  /\ \A i \in DOMAIN row[r].plan : \A c \in Claimed(row[r].plan[i]) :
       wschunk.data[c] = source[r].tag
  /\ source[r].len = Size /\ row[r].mtime = source[r].mtime

\* Transferred bytes are not thrown away (dispatcher.go:783-790, chunked.go:100-102,
\* 364-367): as long as two streams are asked for, the source can be looked at
\* and the server stays up, no step of the row's attempts and no crash of the
\* app's machine costs it what it could resume, except publishing it.
ResumableIsKept ==
  [][\A r \in Rows :
       /\ Resumable(r) /\ source'[r] = source[r]
       /\ run.row # 0 => run.row = r /\ run.asked >= 2 /\ ~run.blind /\ ~run'.dead
       => Resumable(r)' \/ run'.at = "published"]_vars

\* Every row arrives, whatever a bounded number of faults and replaced sources
\* left on disk and in the plan: no leftover makes its attempts fail for ever
\* (chunked.go:30-34, dispatcher.go:866-893, upload.go:105-113).
EveryRowArrives == \A r \in Rows : <>(~row[r].open)
=============================================================================
