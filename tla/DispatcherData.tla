--------------------------- MODULE DispatcherData ---------------------------
(***************************************************************************)
(* NoForgottenData: data on disk always belongs to a row that will resume  *)
(* or discard it. The dispatcher does not keep that promise in every       *)
(* behaviour, and Orderly names the ways in which it is broken: a row is   *)
(* claimed again before the release of its last run has read it back; an   *)
(* unguarded resume lands on a row that is still winding down or being     *)
(* discarded; the process ends under its runners; a run starts from zero   *)
(* over a placeholder it failed to remove. The theorem is that there is no *)
(* other.                                                                  *)
(*                                                                         *)
(* The argument: while a row waits, is listed or is discarded, nobody      *)
(* writes its file (WaitingRests, TailsRest, DiscardsRest); so the count a *)
(* run starts from is never behind the row's (CountsKept), and a run gives *)
(* bytes up with the file gone (Emptied), or with its live count still     *)
(* there to be written. What a row knows of its file therefore outlives    *)
(* everything but a discard of that very file (DataKnown).                 *)
(***************************************************************************)
EXTENDS DispatcherRefinement

-----------------------------------------------------------------------------
(* The conditions. *)

\* A cancel call between its write and the start of the discards it owes.
Sweeps(k, i) == click[k].pc \in {"stop", "read", "check"} /\ i \in click[k].ids
Discards(i) == \E a \in Kinds \X Ids : a[2] = i /\ disc[a] # "idle"

Orderly ==
  /\ PumpClaim => cur \notin tail
  /\ \A k \in Clickers, i \in Ids :
       ResumeWrite(k, i) => Resting(i) /\ ~Discards(i) /\ \A l \in Clickers : ~Sweeps(l, i)
  /\ Relaunch => Running = {}
  /\ \A i \in Ids : Restart(i) => part[FileOf[i]] # "data"
  /\ \A i \in Ids : OpenPart(i) /\ part'[FileOf[i]] = "data" => done'[i]

-----------------------------------------------------------------------------
(* The invariant. *)

\* A row that waits to be claimed, or could be made to, has no run behind it.
WaitingRests == \A i \in Ids : state[i] \in {"none", "pending", "failed"} => Resting(i)

\* Nor has a row whose last release has not read it back.
TailsRest ==
  /\ \A i \in tail : Resting(i)
  /\ pumpPc = "tail" => Resting(cur)

\* A row that is discarded is settled, and its run past its last write.
Unwound(i) == Resting(i) \/ pc[i] = "discard"
DiscardsRest ==
  /\ \A k \in Clickers : click[k].pc = "pauseStop" => \E i \in Ids : click[k].left = {i}
  /\ \A k \in Clickers, i \in Ids : Sweeps(k, i) => state[i] \in Settled
  /\ \A a \in Kinds \X Ids : disc[a] # "idle" => state[a[2]] \in Settled /\ Unwound(a[2])

\* The live count of a run covers the row's, unless the placeholder was dropped;
\* a run whose chunk state is lost had something to resume, and still counts it.
Lost == {"lost", "lostReset", "restart"}
Covers(i) ==
  /\ pc[i] \in Lost => done[i]
  /\ pc[i] \in {"dial", "open"} => (hasBytes[i] => done[i])
  /\ pc[i] \in {"copy", "final"} /\ part[FileOf[i]] = "data" => (hasBytes[i] => done[i])
CountsKept ==
  /\ \A r \in todo : Resting(r.id) /\ (hasBytes[r.id] => r.hasBytes)
  /\ pumpPc \in {"claim", "spawn"} => (hasBytes[cur] => done[cur])
  /\ \A i \in Ids : Covers(i)

\* A run about to complete its row has left no placeholder.
Emptied ==
  \A i \in Ids : \/ pc[i] = "complete"
                 \/ pc[i] = "final" /\ err[i] = "none"
                 => part[FileOf[i]] # "data"

\* A row that will resume or discard what is in its file, and records as much.
Knows(i) ==
  /\ state[i] \notin {"none", "completed"}
  /\ hasBytes[i] \/ (pc[i] \in {"copy", "final", "restart"} /\ done[i])
  /\ \A a \in Kinds \X Ids : disc[a] = "reset" => a[2] # i
DataKnown == \A f \in Files : part[f] = "data" => \E i \in Ids : FileOf[i] = f /\ Knows(i)

-----------------------------------------------------------------------------
(* Who touches bytes. *)

DataFrame ==
  \/ UNCHANGED <<hasBytes, part, done>>
  \/ \E i \in Ids : Engine(i) \/ DropLostPart(i) \/ ResetLost(i) \/ FinalProgress(i) \/ Release(i)
  \/ PumpRegister \/ PumpRelease
  \/ \E a \in Kinds \X Ids : DiscardUnlink(a) \/ DiscardReset(a)
  \/ Relaunch

\* Engines, the two writes of progress, discards, and whoever takes or gives
\* back a registration.
LEMMA DataFrames == ASSUME [Next]_vars PROVE DataFrame
<1> DEFINE Stands == UNCHANGED <<hasBytes, part, done>>
<1>1. ASSUME NEW i \in Ids, BackoffElapses(i) PROVE Stands
  BY <1>1 DEF BackoffElapses, runVars
<1>2. ASSUME PumpEnter \/ PumpList \/ PumpReturn \/ PumpSkip \/ PumpLoseClaim \/ PumpTail
             \/ PumpSpawn \/ PumpClaim
      PROVE  Stands
  BY <1>2 DEF PumpEnter, PumpList, PumpReturn, PumpSkip, PumpLoseClaim, PumpTail, PumpSpawn,
     PumpClaim, rowVars, runVars
<1>3. ASSUME NEW i \in Ids, Restart(i) \/ Complete(i) \/ FinishFailed(i) \/ ReadMark(i)
                            \/ RequeueRow(i) \/ Ladder(i) \/ Discarded(i)
      PROVE  Stands
  BY <1>3 DEF Restart, ScheduleRetry, Complete, FinishFailed, ReadMark, RequeueRow, CleanSlate,
     Ladder, Discarded, rowVars
<1>4. ASSUME NEW i \in Ids, FinishStopped(i) \/ SettleAgain(i) \/ Settle(i) \/ Tail(i) PROVE Stands
  BY <1>4 DEF FinishStopped, SettleAgain, Settle, SettleStopped, Tail, rowVars
<1>5. ASSUME NEW a \in Kinds \X Ids, DiscardRead(a) \/ DiscardOwners(a) \/ DiscardFails(a) PROVE Stands
  BY <1>5 DEF DiscardRead, DiscardOwners, DiscardFails, rowVars, runVars
<1>6. ASSUME NEW k \in Clickers, Click(k) PROVE Stands
  BY <1>6 DEF Click, ClickPause, ClickResume, Cancel, CancelQueued, MarkCancelled, Enqueue,
     RetryFailed, CleanSlate, rowVars, runVars
<1>7. ASSUME NEW k \in Clickers, Follow(k) PROVE Stands
  BY <1>7 DEF Follow, PauseWrite, ResumeWrite, StopRow, SweepRead, SweepIdle, rowVars, runVars
<1>8. ASSUME NEW g \in Togglers, TogglePause(g) \/ SetPaused(g) PROVE Stands
  BY <1>8 DEF TogglePause, SetPaused, PersistPause, FlagPaused, StopAllForPause, SnapshotRunning,
     HealOrphans, CleanSlate, FlagResumed, rowVars, runVars
<1>9. ASSUME BeginStop \/ StopAllForExit \/ AwaitStop \/ GraceExpires PROVE Stands
  BY <1>9 DEF BeginStop, StopAllForExit, AwaitStop, GraceExpires, rowVars, runVars
<1>10. CASE UNCHANGED vars
  BY <1>10 DEF vars, rowVars, runVars, DataFrame
<1> HIDE DEF Stands
<1>11. CASE Next
  <2> SUFFICES ASSUME ~Stands PROVE DataFrame
    BY DEF Stands, DataFrame
  <2>1. QED BY <1>11, <1>1, <1>2, <1>3, <1>4, <1>5, <1>6, <1>7, <1>8, <1>9
        DEF Next, Pump, Unwind, Discard, DataFrame
<1>12. QED BY <1>10, <1>11

\* What one step may do to one row's recorded bytes and its run's live count,
\* and to the placeholder of one file.
BytesRecorded(i) == pc[i] \in {"copy", "final"} /\ done[i] /\ (PersistProgress(i) \/ FinalProgress(i))
BytesDropped(i) ==
  \/ ResetLost(i)
  \/ FinalProgress(i) /\ ~done[i]
  \/ \E a \in Kinds \X Ids : DiscardReset(a) /\ a[2] = i
CountMoves(i) ==
  \/ OpenPart(i) \/ WriteBytes(i) \/ Release(i)
  \/ PumpRegister /\ cur' = i
  \/ PumpRelease /\ cur = i
  \/ Relaunch

LEMMA RecordedBytes ==
  ASSUME TypeOK, [Next]_vars, NEW i \in Ids, hasBytes'[i] # hasBytes[i]
  PROVE  IF hasBytes[i] THEN BytesDropped(i) ELSE BytesRecorded(i)
<1> USE DEF TypeOK, RowsTypeOK, RunTypeOK
<1>1. ASSUME NEW j \in Ids, Engine(j)
      PROVE  ~hasBytes[i] /\ j = i /\ PersistProgress(i) /\ pc[i] = "copy" /\ done[i]
  BY <1>1 DEF Engine, DialOk, DialFails, OpenPart, WriteBytes, PersistProgress, EngineSucceeds,
     EngineFails, ChunkStateLost, rowVars
<1>2. ASSUME NEW j \in Ids, ResetLost(j) PROVE hasBytes[i] /\ ResetLost(i)
  BY <1>2 DEF ResetLost
<1>3. ASSUME NEW j \in Ids, FinalProgress(j)
      PROVE  FinalProgress(i) /\ pc[i] = "final" /\ done[i] = ~hasBytes[i]
  BY <1>3 DEF FinalProgress
<1>4. ASSUME NEW j \in Ids, DropLostPart(j) \/ Release(j) PROVE FALSE
  BY <1>4 DEF DropLostPart, Release, rowVars
<1>5. ~PumpRegister /\ ~PumpRelease /\ ~Relaunch
  BY DEF PumpRegister, PumpRelease, Relaunch, CleanSlate, rowVars
<1>6. ASSUME NEW a \in Kinds \X Ids, DiscardUnlink(a) PROVE FALSE
  BY <1>6 DEF DiscardUnlink, rowVars
<1>7. ASSUME NEW a \in Kinds \X Ids, DiscardReset(a) PROVE hasBytes[i] /\ a[2] = i
  BY <1>7 DEF DiscardReset
<1>8. CASE \E j \in Ids : Engine(j)
  BY <1>1, <1>8 DEF BytesRecorded
<1>9. CASE \E j \in Ids : ResetLost(j) \/ FinalProgress(j)
  BY <1>2, <1>3, <1>9 DEF BytesRecorded, BytesDropped
<1>10. CASE \E a \in Kinds \X Ids : DiscardReset(a)
  BY <1>7, <1>10 DEF BytesDropped
<1>11. QED BY <1>4, <1>5, <1>6, <1>8, <1>9, <1>10, DataFrames DEF DataFrame

LEMMA LiveCounts ==
  ASSUME TypeOK, [Next]_vars, NEW i \in Ids, done'[i] # done[i]
  PROVE  CountMoves(i)
<1> USE DEF TypeOK, RunTypeOK, CountMoves
<1>1. ASSUME NEW j \in Ids, Engine(j) PROVE CountMoves(i)
  BY <1>1 DEF Engine, DialOk, DialFails, OpenPart, WriteBytes, PersistProgress, EngineSucceeds,
     EngineFails, ChunkStateLost, runVars
<1>2. ASSUME NEW j \in Ids, DropLostPart(j) \/ ResetLost(j) \/ FinalProgress(j) PROVE FALSE
  BY <1>2 DEF DropLostPart, ResetLost, FinalProgress
<1>3. ASSUME NEW j \in Ids, Release(j) PROVE Release(i)
  BY <1>3 DEF Release, DropReservation
<1>4. PumpRegister \/ PumpRelease => CountMoves(i)
  BY DEF PumpRegister, PumpRelease, DropReservation
<1>5. ASSUME NEW a \in Kinds \X Ids, DiscardUnlink(a) \/ DiscardReset(a) PROVE FALSE
  BY <1>5 DEF DiscardUnlink, DiscardReset, runVars
<1>6. QED BY <1>1, <1>2, <1>3, <1>4, <1>5, DataFrames DEF DataFrame

\* Data appears in a file only by a write of a row that copies to it.
LEMMA DataAppears ==
  ASSUME TypeOK, [Next]_vars, NEW f \in Files, part[f] # "data", part'[f] = "data"
  PROVE  \E i \in Ids : FileOf[i] = f /\ WriteBytes(i)
<1> USE DEF TypeOK, WorldTypeOK
<1>1. ASSUME NEW i \in Ids, Engine(i) PROVE FileOf[i] = f /\ WriteBytes(i)
  BY <1>1 DEF Engine, DialOk, DialFails, OpenPart, WriteBytes, PersistProgress, EngineSucceeds,
     EngineFails, ChunkStateLost
<1>2. ASSUME NEW i \in Ids, DropLostPart(i) \/ ResetLost(i) \/ FinalProgress(i) \/ Release(i)
      PROVE  FALSE
  BY <1>2 DEF DropLostPart, ResetLost, FinalProgress, Release
<1>3. ~PumpRegister /\ ~PumpRelease /\ ~Relaunch
  BY DEF PumpRegister, PumpRelease, Relaunch
<1>4. ASSUME NEW a \in Kinds \X Ids, DiscardUnlink(a) \/ DiscardReset(a) PROVE FALSE
  BY <1>4 DEF DiscardUnlink, DiscardReset
<1>5. QED BY <1>1, <1>2, <1>3, <1>4, DataFrames DEF DataFrame

-----------------------------------------------------------------------------
(* Nobody writes behind a row that waits, is read back or is discarded. *)

\* A row goes back to waiting by its runner's last write, or once that is made:
\* a heal finds idle rows only, and an orderly resume a row at rest.
LEMMA WaitingRestsStep ==
  ASSUME RInv, WaitingRests, Orderly, [Next]_vars
  PROVE  WaitingRests'
<1> USE DEF RInv, IInv, TypeOK, RunTypeOK, PumpTypeOK
<1> SUFFICES ASSUME NEW i \in Ids, state'[i] \in {"none", "pending", "failed"}
             PROVE  Resting(i)'
  BY DEF WaitingRests
<1>1. ~(PumpClaim /\ cur = i)
  BY DEF PumpClaim, SetState, RowsTypeOK
<1>2. CASE Resting(i)
  BY <1>1, <1>2, RestingStays
<1>3. CASE ~Resting(i)
  <2>1. RowMove(i)
    BY <1>3, RowMoves DEF WaitingRests
  <2>2. ASSUME Restart(i) \/ RequeueRow(i) \/ Ladder(i), state[i] = "active", state'[i] # "active"
        PROVE  Resting(i)'
    <3>1. pc'[i] = "release" /\ UNCHANGED <<pumpPc, cur>>
      BY <2>2 DEF Restart, RequeueRow, Ladder, Goto, rowVars, pumpVars
    <3>2. ~(pumpPc = "spawn" /\ cur = i)
      BY <2>2 DEF Ownership, HeldByPump, Restart, RequeueRow, Ladder
    <3>3. QED BY <3>1, <3>2 DEF Resting
  <2>3. \A k \in Clickers : ~UserMove(k, i)
    BY <1>3 DEF Orderly, UserMove, Moves, WaitingRests
  <2>4. ASSUME NEW g \in Togglers, HealMove(g, i) PROVE FALSE
    BY <1>3, <2>4, HealedAreIdle DEF HealMove, HealOrphans, Moves, Resting
  <2>5. Relaunch => Resting(i)'
    BY DEF Relaunch, Resting
  <2>6. QED BY <2>1, <2>2, <2>3, <2>4, <2>5 DEF RowMove, EngineMove, Moves
<1>4. QED BY <1>2, <1>3

TailFrame ==
  \/ UNCHANGED tail
  \/ \E i \in Ids : Release(i) \/ Tail(i)
  \/ Relaunch

\* A release puts its row on the list of those it has not read back.
LEMMA TailFrames == ASSUME [Next]_vars PROVE TailFrame
<1> DEFINE Stands == UNCHANGED tail
<1>1. Pump => Stands
  BY DEF Pump, PumpEnter, PumpList, PumpReturn, PumpSkip, PumpRegister, PumpClaim,
     PumpLoseClaim, PumpRelease, PumpTail, PumpSpawn, runVars
<1>2. ASSUME NEW i \in Ids, BackoffElapses(i) \/ Engine(i) PROVE Stands
  BY <1>2 DEF BackoffElapses, Engine, DialOk, DialFails, OpenPart, WriteBytes, PersistProgress,
     EngineSucceeds, EngineFails, ChunkStateLost, runVars
<1>3. ASSUME NEW i \in Ids, Unwind(i), ~Release(i) PROVE Stands
  BY <1>3 DEF Unwind, DropLostPart, ResetLost, Restart, FinalProgress, Complete, FinishFailed,
     FinishStopped, SettleAgain, Settle, SettleStopped, ReadMark, RequeueRow, Ladder, Discarded
<1>4. ASSUME NEW a \in Kinds \X Ids, Discard(a) PROVE Stands
  BY <1>4 DEF Discard, DiscardRead, DiscardOwners, DiscardUnlink, DiscardFails, DiscardReset, runVars
<1>5. ASSUME NEW k \in Clickers, Click(k) \/ Follow(k) PROVE Stands
  BY <1>5 DEF Click, Follow, ClickPause, ClickResume, Cancel, CancelQueued, MarkCancelled, Enqueue,
     RetryFailed, PauseWrite, ResumeWrite, StopRow, SweepRead, SweepIdle, runVars
<1>6. ASSUME NEW g \in Togglers, TogglePause(g) \/ SetPaused(g) PROVE Stands
  BY <1>6 DEF TogglePause, SetPaused, PersistPause, FlagPaused, StopAllForPause, SnapshotRunning,
     HealOrphans, FlagResumed, runVars
<1>7. BeginStop \/ StopAllForExit \/ AwaitStop \/ GraceExpires => Stands
  BY DEF BeginStop, StopAllForExit, AwaitStop, GraceExpires, runVars
<1>8. UNCHANGED vars => Stands
  BY DEF vars, runVars
<1> HIDE DEF Stands
<1>9. QED BY <1>1, <1>2, <1>3, <1>4, <1>5, <1>6, <1>7, <1>8 DEF Next, TailFrame, Stands

\* A released row stays at rest until it is claimed, which in order happens only
\* once it has been read back.
LEMMA TailsRestStep ==
  ASSUME IInv, TailsRest, Orderly, [Next]_vars
  PROVE  TailsRest'
<1> USE DEF IInv, TypeOK, RunTypeOK, PumpTypeOK
<1>1. ASSUME NEW i \in tail' PROVE Resting(i)'
  <2>1. CASE i \in tail
    BY <2>1, RestingStays DEF TailsRest, Orderly
  <2>2. CASE i \notin tail
    <3>1. PICK j \in Ids : Release(j) /\ i = j
      BY <2>2, <1>1, TailFrames DEF TailFrame, Tail, Release, Relaunch
    <3>2. pc'[i] = "idle" /\ UNCHANGED <<pumpPc, cur>> /\ ~(pumpPc = "spawn" /\ cur = i)
      BY <3>1 DEF Release, Goto, Ownership, HeldByPump, pumpVars
    <3>3. QED BY <3>2 DEF Resting
  <2>3. QED BY <2>1, <2>2
<1>2. ASSUME pumpPc' = "tail" PROVE Resting(cur)'
  <2>1. pumpPc \in {"release", "tail"} /\ cur' = cur /\ cur \in Ids
    <3>1. Pump => pumpPc = "release" /\ cur' = cur
      BY <1>2 DEF Pump, PumpEnter, PumpList, PumpReturn, PumpSkip, PumpRegister, PumpClaim,
         PumpLoseClaim, PumpRelease, PumpTail, PumpSpawn
    <3>2. ~Relaunch
      BY <1>2 DEF Relaunch
    <3>3. QED BY <1>2, <3>1, <3>2, Frames DEF PumpFrame, pumpVars, Ownership
  <2>2. PICK i \in Ids : i = cur /\ i = cur'
    BY <2>1
  <2>3. Resting(i)
    BY <2>1, <2>2 DEF TailsRest, Ownership, HeldByPump, Resting
  <2>4. ~PumpClaim
    BY <2>1 DEF PumpClaim
  <2>5. Resting(i)'
    BY <2>3, <2>4, RestingStays
  <2>6. QED BY <2>2, <2>5 DEF Resting
<1>3. QED BY <1>1, <1>2 DEF TailsRest

\* A settled row that is past its last write does not go back to work.
LEMMA UnwoundStays ==
  ASSUME TypeOK, Ownership, [Next]_vars, NEW i \in Ids, state[i] \in Settled, Unwound(i)
  PROVE  Unwound(i)'
<1> USE DEF TypeOK, RunTypeOK, PumpTypeOK
<1>1. ~(PumpClaim /\ cur = i)
  BY DEF PumpClaim, Settled
<1>2. CASE Resting(i)
  BY <1>1, <1>2, RestingStays DEF Unwound
<1>3. CASE pc[i] = "discard"
  <2>1. pc'[i] \in {"discard", "release", "idle"}
    <3>1. ~Engine(i)
      BY <1>3 DEF Engine, DialOk, DialFails, OpenPart, WriteBytes, PersistProgress, EngineSucceeds,
         EngineFails, ChunkStateLost, Writing
    <3>2. Unwind(i) => Discarded(i)
      BY <1>3 DEF Unwind, DropLostPart, ResetLost, Restart, FinalProgress, Complete, FinishFailed,
         FinishStopped, SettleAgain, Settle, ReadMark, RequeueRow, Ladder, Release
    <3>3. ~(PumpSpawn /\ cur = i)
      BY <1>3 DEF PumpSpawn, Ownership, HeldByPump
    <3>4. QED BY <1>3, <3>1, <3>2, <3>3, RunnersMove DEF RunnerMoves, Discarded, Goto
  <2>2. ~(pumpPc' = "spawn" /\ cur' = i)
    <3>1. Pump => (pumpPc' = "spawn" => PumpClaim /\ cur' = cur)
      BY DEF Pump, PumpEnter, PumpList, PumpReturn, PumpSkip, PumpRegister, PumpClaim,
         PumpLoseClaim, PumpRelease, PumpTail, PumpSpawn
    <3>2. ~(pumpPc = "spawn" /\ cur = i)
      BY <1>3 DEF Ownership, HeldByPump
    <3>3. QED BY <1>1, <3>1, <3>2, Frames DEF PumpFrame, pumpVars, Relaunch
  <2>3. QED BY <2>1, <2>2 DEF Unwound, Resting
<1>4. QED BY <1>2, <1>3 DEF Unwound

\* Who starts a discard: a read-back, by the pump or by a runner's release; a
\* runner that finds its row cancelled; a cancel call, for the rows nobody runs.
Begins(a) ==
  \/ PumpTail /\ a[2] = cur /\ state[cur] = "cancelled"
  \/ a[2] \in tail /\ state[a[2]] = "cancelled"
  \/ pc'[a[2]] = "discard" /\ state[a[2]] = "cancelled"
  \/ a[2] \notin cancels /\ \E k \in Clickers : Sweeps(k, a[2])
LEMMA DiscardBegins ==
  ASSUME TypeOK, [Next]_vars, NEW a \in Kinds \X Ids, disc[a] = "idle", disc'[a] # "idle"
  PROVE  Begins(a) /\ UNCHANGED state
<1> USE DEF TypeOK, WorldTypeOK, RunTypeOK
<1>1. ASSUME NEW i \in Ids, FinishStopped(i) \/ SettleAgain(i) \/ Settle(i)
      PROVE  Begins(a) /\ UNCHANGED state
  BY <1>1 DEF FinishStopped, SettleAgain, Settle, SettleStopped, Goto, rowVars, Begins
<1>2. ASSUME NEW i \in Ids, Tail(i) PROVE Begins(a) /\ UNCHANGED state
  BY <1>2 DEF Tail, StartSweep, CancelledWithBytes, rowVars, Begins
<1>3. PumpTail => Begins(a) /\ UNCHANGED state
  BY DEF PumpTail, StartSweep, CancelledWithBytes, rowVars, Begins
<1>4. ASSUME NEW k \in Clickers, SweepIdle(k) PROVE Begins(a) /\ UNCHANGED state
  BY <1>4 DEF SweepIdle, StartSweep, rowVars, Begins, Sweeps
<1>5. ASSUME NEW b \in Kinds \X Ids, Discard(b) PROVE FALSE
  BY <1>5 DEF Discard, DiscardRead, DiscardOwners, DiscardUnlink, DiscardFails, DiscardReset,
     DiscardGoto
<1>6. ~Relaunch
  BY DEF Relaunch, IdleDiscards
<1>7. QED BY <1>1, <1>2, <1>3, <1>4, <1>5, <1>6, DiscardFrames DEF DiscardFrame, DiscardStarter

\* A cancel call keeps to the rows it marked.
LEMMA SweepsMarked ==
  ASSUME TypeOK, DiscardsRest, [Next]_vars, NEW k \in Clickers
  PROVE  /\ click'[k].pc = "pauseStop" => \E i \in Ids : click'[k].left = {i}
         /\ \A i \in Ids : Sweeps(k, i)' => Sweeps(k, i) \/ state'[i] \in Settled
<1> USE DEF TypeOK, UserTypeOK, RowsTypeOK, DiscardsRest, Sweeps
<1>1. CASE click'[k] = click[k]
  BY <1>1
<1>2. ASSUME NEW l \in Clickers, Click(l) \/ Follow(l), click'[k] # click[k]
      PROVE  /\ click'[k].pc = "pauseStop" => \E i \in Ids : click'[k].left = {i}
             /\ \A i \in Ids : Sweeps(k, i)' => Sweeps(k, i) \/ state'[i] \in Settled
  <2>1. ~RetryFailed(l) /\ \A i \in Ids : ~Enqueue(l, i)
    BY <1>2 DEF RetryFailed, Enqueue, userVars
  <2>2. ASSUME NEW i \in Ids, ClickPause(l, i) \/ ClickResume(l, i) \/ ResumeWrite(l, i)
        PROVE  click'[k].pc \in {"pause", "resume", "idle"}
    BY <1>2, <2>2 DEF ClickPause, ClickResume, ResumeWrite, ClickGoto, ClickDone, NoClick
  <2>3. ASSUME NEW i \in Ids, PauseWrite(l, i)
        PROVE  click'[k].pc = "pauseStop" /\ click'[k].left = {i}
    BY <1>2, <2>3 DEF PauseWrite, ClickGoto
  <2>4. ASSUME NEW marked \in SUBSET Ids, MarkCancelled(l, marked)
        PROVE  click'[k].pc = "stop" /\ \A j \in click'[k].ids : state'[j] = "cancelled"
    BY <1>2, <2>4 DEF MarkCancelled, ClickGoto
  <2>5. ASSUME NEW i \in Ids, StopRow(l, i)
        PROVE  /\ click'[k].pc \in {"stop", "read", "idle"}
               /\ click'[k].pc # "idle" => click[k].pc = "stop" /\ click'[k].ids = click[k].ids
    <3>1. l = k
      BY <1>2, <2>5 DEF StopRow, ClickGoto, ClickDone
    <3>2. click[k].pc = "pauseStop" => click[k].left \ {i} = {}
      BY <2>5, <3>1 DEF StopRow
    <3>3. QED BY <2>5, <3>1, <3>2 DEF StopRow, ClickGoto, ClickDone, NoClick
  <2>6. ASSUME SweepRead(l) \/ SweepIdle(l)
        PROVE  /\ click'[k].pc \in {"check", "idle"}
               /\ click'[k].pc # "idle" => click[k].pc = "read" /\ click'[k].ids \subseteq click[k].ids
    BY <1>2, <2>6 DEF SweepRead, SweepIdle, ClickGoto, ClickDone, NoClick
  <2>7. CASE \E S \in SUBSET Ids : Cancel(l, S)
    BY <2>4, <2>7 DEF Cancel, Settled
  <2>8. CASE CancelQueued(l)
    BY <2>4, <2>8 DEF CancelQueued, Settled
  <2>9. QED BY <1>2, <2>1, <2>2, <2>3, <2>5, <2>6, <2>7, <2>8 DEF Click, Follow
<1>3. CASE Relaunch
  BY <1>3 DEF Relaunch, NoClick
<1>4. QED BY <1>1, <1>2, <1>3, Frames DEF ClickFrame

\* A discard starts on a settled row nobody runs; an orderly resume leaves it alone.
LEMMA DiscardsRestStep ==
  ASSUME IInv, TailsRest, DiscardsRest, Orderly, [Next]_vars
  PROVE  DiscardsRest'
<1> USE DEF IInv
<1>1. ASSUME NEW k \in Clickers
      PROVE  /\ click'[k].pc = "pauseStop" => \E i \in Ids : click'[k].left = {i}
             /\ \A i \in Ids : Sweeps(k, i)' => state'[i] \in Settled
  <2>1. ASSUME NEW i \in Ids, Sweeps(k, i) PROVE state'[i] \in Settled
    BY <2>1, SettledOrResumed DEF DiscardsRest, Orderly
  <2>2. QED BY <2>1, SweepsMarked
<1>2. ASSUME NEW a \in Kinds \X Ids, disc'[a] # "idle"
      PROVE  state'[a[2]] \in Settled /\ Unwound(a[2])'
  <2> DEFINE i == a[2]
  <2>1. i \in Ids
    OBVIOUS
  <2>2. CASE disc[a] # "idle"
    <3>1. state[i] \in Settled /\ Unwound(i) /\ Discards(i)
      BY <2>2 DEF DiscardsRest, Discards
    <3> HIDE DEF i
    <3>2. state'[i] \in Settled
      BY <2>1, <3>1, SettledOrResumed DEF Orderly
    <3>3. Unwound(i)'
      BY <2>1, <3>1, UnwoundStays
    <3>4. QED BY <3>2, <3>3 DEF i
  <2>3. CASE disc[a] = "idle"
    <3>1. Begins(a) /\ UNCHANGED state
      BY <1>2, <2>3, DiscardBegins
    <3>2. state[i] \in Settled
      BY <2>1, <3>1 DEF Begins, DiscardsRest, Settled
    <3>3. Unwound(i) \/ pc'[i] = "discard"
      <4>1. i \notin cancels => Resting(i)
        BY <2>1 DEF Ownership, HeldByPump, Resting
      <4>2. QED BY <3>1, <4>1 DEF Begins, TailsRest, Unwound, PumpTail
    <3> HIDE DEF i
    <3>4. Unwound(i)'
      BY <2>1, <3>2, <3>3, UnwoundStays DEF Unwound
    <3>5. QED BY <3>1, <3>2, <3>4 DEF i
  <2>4. QED BY <2>2, <2>3
<1>3. QED BY <1>1, <1>2 DEF DiscardsRest

-----------------------------------------------------------------------------
(* Counts and placeholders. *)

\* While a runner runs, its engine alone moves its live count.
LEMMA RunningCounts ==
  ASSUME TypeOK, Ownership, [Next]_vars, NEW i \in Ids, pc[i] # "idle", pc'[i] # "idle"
  PROVE  done'[i] = done[i] \/ OpenPart(i) \/ WriteBytes(i)
<1> USE DEF TypeOK, RunTypeOK
<1>1. i \in cancels /\ ~(i = cur /\ i \in HeldByPump)
  BY DEF Ownership
<1>2. ~Relaunch
  BY DEF Relaunch
<1>3. ~Release(i)
  BY DEF Release, Goto
<1>4. ~(PumpRelease /\ cur = i)
  BY <1>1 DEF PumpRelease, HeldByPump
<1>5. ~(PumpRegister /\ cur' = i)
  BY <1>1 DEF PumpRegister, Free
<1>6. QED BY <1>2, <1>3, <1>4, <1>5, LiveCounts DEF CountMoves

\* What the pump was told of a row's bytes is still enough when it spawns the run.
LEMMA ListedCounts ==
  ASSUME IInv, WaitingRests, CountsKept, [Next]_vars
  PROVE  /\ \A r \in todo' : Resting(r.id)' /\ (hasBytes'[r.id] => r.hasBytes)
         /\ pumpPc' \in {"claim", "spawn"} => (hasBytes'[cur'] => done'[cur'])
<1> USE DEF IInv, TypeOK, RunTypeOK, PumpTypeOK, RowsTypeOK
<1>1. ASSUME NEW r \in todo'
      PROVE  Resting(r.id)' /\ (hasBytes'[r.id] => r.hasBytes)
  <2> DEFINE i == r.id
  <2>1. r \in todo \/ (PumpList /\ i \in Ids /\ state[i] = "pending" /\ r.hasBytes = hasBytes[i])
    <3>1. Pump => \/ r \in todo
                  \/ PumpList /\ i \in Ids /\ state[i] = "pending" /\ r.hasBytes = hasBytes[i]
      BY DEF Pump, PumpEnter, PumpList, PumpReturn, PumpSkip, PumpRegister, PumpClaim,
         PumpLoseClaim, PumpRelease, PumpTail, PumpSpawn
    <3>2. ~Relaunch
      BY DEF Relaunch
    <3>3. QED BY <3>1, <3>2, Frames DEF PumpFrame, pumpVars
  <2>2. i \in Ids /\ Resting(i) /\ (hasBytes[i] => r.hasBytes)
    BY <2>1 DEF CountsKept, WaitingRests, Snapshot
  <2>3. ~(PumpClaim /\ cur = i)
    BY <2>1 DEF PumpClaim, PumpList, Snapshots
  <2>4. ~BytesRecorded(i)
    BY <2>2 DEF BytesRecorded, Resting
  <2> HIDE DEF i
  <2>5. Resting(i)' /\ (hasBytes'[i] => r.hasBytes)
    BY <2>2, <2>3, <2>4, RestingStays, RecordedBytes
  <2>6. QED BY <2>5 DEF i
<1>2. ASSUME pumpPc' \in {"claim", "spawn"} PROVE hasBytes'[cur'] => done'[cur']
  <2>1. CASE PumpRegister
    <3>1. PICK r \in todo : cur' = r.id /\ done' = [done EXCEPT ![r.id] = r.hasBytes]
      BY <2>1 DEF PumpRegister
    <3>2. QED BY <2>1, <3>1 DEF PumpRegister, CountsKept, Snapshot, rowVars
  <2>2. CASE ~PumpRegister
    <3>1. pumpPc \in {"claim", "spawn"} /\ cur' = cur
      <4>1. Pump => pumpPc \in {"claim", "spawn"} /\ cur' = cur
        BY <1>2, <2>2 DEF Pump, PumpEnter, PumpList, PumpReturn, PumpSkip, PumpClaim,
           PumpLoseClaim, PumpRelease, PumpTail, PumpSpawn
      <4>2. ~Relaunch
        BY <1>2 DEF Relaunch
      <4>3. QED BY <1>2, <4>1, <4>2, Frames DEF PumpFrame, pumpVars
    <3>2. PICK i \in Ids : i = cur
      BY <3>1 DEF Ownership
    <3>3. pc[i] = "idle" /\ (hasBytes[i] => done[i])
      BY <3>1, <3>2 DEF Ownership, HeldByPump, CountsKept
    <3>4. ~BytesRecorded(i)
      BY <3>3 DEF BytesRecorded
    <3>5. ~CountMoves(i)
      BY <1>2, <2>2, <3>1, <3>3 DEF CountMoves, OpenPart, WriteBytes, Release, PumpRelease, Relaunch
    <3>6. hasBytes'[i] => done'[i]
      BY <3>3, <3>4, <3>5, RecordedBytes, LiveCounts
    <3>7. QED BY <3>1, <3>2, <3>6
  <2>3. QED BY <2>1, <2>2
<1>3. QED BY <1>1, <1>2

\* Two runs never write the same file, so what changes under a run is its own
\* doing or a discard's.
LEMMA CoversStep ==
  ASSUME IInv, CountsKept, Orderly, [Next]_vars, NEW i \in Ids
  PROVE  Covers(i)'
<1> USE DEF IInv, TypeOK, RunTypeOK, WorldTypeOK
<1>1. ASSUME pc'[i] \in {"dial", "open"} PROVE hasBytes'[i] => done'[i]
  <2>1. CASE PumpSpawn /\ cur = i
    BY <2>1 DEF PumpSpawn, CountsKept, rowVars
  <2>2. CASE ~(PumpSpawn /\ cur = i)
    <3>1. pc[i] \in {"dial", "open"}
      <4>1. Engine(i) => pc[i] = "dial"
        BY <1>1 DEF Engine, DialOk, DialFails, OpenPart, WriteBytes, PersistProgress, EngineSucceeds,
           EngineFails, ChunkStateLost, Goto, Fail, Writing, runVars
      <4>2. ~Unwind(i)
        <5>1. ~DropLostPart(i) /\ ~ResetLost(i) /\ ~Restart(i) /\ ~FinalProgress(i) /\ ~Complete(i)
              /\ ~FinishFailed(i) /\ ~ReadMark(i) /\ ~RequeueRow(i) /\ ~Ladder(i)
              /\ ~Discarded(i) /\ ~Release(i)
          BY <1>1 DEF DropLostPart, ResetLost, Restart, FinalProgress, Complete, FinishFailed,
             ReadMark, RequeueRow, Ladder, Discarded, Release, Goto, Fail
        <5>2. ~FinishStopped(i) /\ ~SettleAgain(i) /\ ~Settle(i)
          BY <1>1 DEF FinishStopped, SettleAgain, Settle, SettleStopped, Goto
        <5>3. QED BY <5>1, <5>2 DEF Unwind
      <4>3. QED BY <1>1, <2>2, <4>1, <4>2, RunnersMove DEF RunnerMoves
    <3>2. hasBytes[i] => done[i]
      BY <3>1 DEF CountsKept, Covers
    <3>3. ~BytesRecorded(i)
      BY <3>1 DEF BytesRecorded
    <3>4. ~OpenPart(i) /\ ~WriteBytes(i)
      BY <1>1, <3>1 DEF OpenPart, WriteBytes, Goto
    <3>5. QED BY <1>1, <3>1, <3>2, <3>3, <3>4, RunningCounts, RecordedBytes DEF RowsTypeOK
  <2>3. QED BY <2>1, <2>2
<1>2. ASSUME pc'[i] \in {"copy", "final"}, part'[FileOf[i]] = "data", hasBytes'[i] PROVE done'[i]
  <2>1. CASE OpenPart(i)
    BY <1>2, <2>1 DEF Orderly
  <2>2. CASE WriteBytes(i)
    BY <2>2 DEF WriteBytes
  <2>3. CASE ~OpenPart(i) /\ ~WriteBytes(i)
    <3>1. pc[i] \in {"open", "copy", "final"}
      <4>1. Engine(i) => pc[i] \in {"open", "copy"}
        BY <1>2 DEF Engine, DialOk, DialFails, OpenPart, WriteBytes, PersistProgress, EngineSucceeds,
           EngineFails, ChunkStateLost, Goto, Fail, Writing
      <4>2. ~Unwind(i)
        <5>1. ~DropLostPart(i) /\ ~ResetLost(i) /\ ~Restart(i) /\ ~FinalProgress(i) /\ ~Complete(i)
              /\ ~FinishFailed(i) /\ ~ReadMark(i) /\ ~RequeueRow(i) /\ ~Ladder(i)
              /\ ~Discarded(i) /\ ~Release(i)
          BY <1>2 DEF DropLostPart, ResetLost, Restart, FinalProgress, Complete, FinishFailed,
             ReadMark, RequeueRow, Ladder, Discarded, Release, Goto, Fail, RowsTypeOK
        <5>2. ~FinishStopped(i) /\ ~SettleAgain(i) /\ ~Settle(i)
          BY <1>2 DEF FinishStopped, SettleAgain, Settle, SettleStopped, Goto
        <5>3. QED BY <5>1, <5>2 DEF Unwind
      <4>3. ~(PumpSpawn /\ cur = i)
        BY <1>2 DEF PumpSpawn
      <4>4. QED BY <1>2, <4>1, <4>2, <4>3, RunnersMove DEF RunnerMoves
    <3>2. part[FileOf[i]] = "data"
      <4>1. ASSUME NEW j \in Ids, FileOf[j] = FileOf[i], WriteBytes(j) PROVE FALSE
        <5>1. i \in cancels /\ j \in cancels
          BY <3>1, <4>1 DEF Ownership, WriteBytes
        <5>2. QED BY <2>3, <4>1, <5>1 DEF FileLocks
      <4>2. FileOf[i] \in Files
        BY RowAssumption
      <4>3. QED BY <1>2, <4>1, <4>2, DataAppears
    <3>3. done[i]
      <4>1. CASE hasBytes[i]
        BY <3>1, <3>2, <4>1 DEF CountsKept, Covers
      <4>2. CASE ~hasBytes[i]
        BY <1>2, <4>2, RecordedBytes DEF BytesRecorded
      <4>3. QED BY <4>1, <4>2
    <3>4. QED BY <1>2, <2>3, <3>1, <3>3, RunningCounts
  <2>4. QED BY <2>1, <2>2, <2>3
<1>3. ASSUME pc'[i] \in Lost PROVE done'[i]
  <2>1. pc[i] \in Lost \/ (ChunkStateLost(i) /\ done[i])
    <3>1. Engine(i) => ChunkStateLost(i) /\ done[i]
      BY <1>3 DEF Lost, Engine, DialOk, DialFails, OpenPart, WriteBytes, PersistProgress,
         EngineSucceeds, EngineFails, ChunkStateLost, Goto, Fail, Writing, runVars
    <3>2. Unwind(i) => DropLostPart(i) \/ ResetLost(i)
      <4>1. ~Restart(i) /\ ~FinalProgress(i) /\ ~Complete(i) /\ ~FinishFailed(i) /\ ~ReadMark(i)
            /\ ~RequeueRow(i) /\ ~Ladder(i) /\ ~Discarded(i) /\ ~Release(i)
        BY <1>3 DEF Lost, Restart, FinalProgress, Complete, FinishFailed, ReadMark, RequeueRow,
           Ladder, Discarded, Release, Goto
      <4>2. ~FinishStopped(i) /\ ~SettleAgain(i) /\ ~Settle(i)
        BY <1>3 DEF Lost, FinishStopped, SettleAgain, Settle, SettleStopped, Goto
      <4>3. QED BY <4>1, <4>2 DEF Unwind
    <3>3. DropLostPart(i) \/ ResetLost(i) => pc[i] \in Lost
      BY DEF Lost, DropLostPart, ResetLost
    <3>4. ~(PumpSpawn /\ cur = i)
      BY <1>3 DEF Lost, PumpSpawn
    <3>5. QED BY <1>3, <3>1, <3>2, <3>3, <3>4, RunnersMove DEF RunnerMoves, Lost
  <2>2. done[i] /\ pc[i] \in Lost \cup {"open"}
    BY <2>1 DEF CountsKept, Covers, ChunkStateLost
  <2>3. ~OpenPart(i) /\ ~WriteBytes(i)
    BY <1>3, <2>2 DEF Lost, OpenPart, WriteBytes, Goto
  <2>4. QED BY <1>3, <2>2, <2>3, RunningCounts DEF Lost
<1>4. QED BY <1>1, <1>2, <1>3 DEF Covers

LEMMA CountsKeptStep ==
  ASSUME IInv, WaitingRests, CountsKept, Orderly, [Next]_vars
  PROVE  CountsKept'
BY ListedCounts, CoversStep DEF CountsKept

\* The placeholder of a run is dropped, or renamed into place, before the run
\* gives up its bytes; and nobody else writes there before it is released.
LEMMA EmptiedStep ==
  ASSUME IInv, Emptied, [Next]_vars
  PROVE  Emptied'
<1> USE DEF IInv, TypeOK, RunTypeOK, WorldTypeOK
<1> DEFINE Gone(i) == pc[i] = "complete" \/ (pc[i] = "final" /\ err[i] = "none")
<1> SUFFICES ASSUME NEW i \in Ids, Gone(i)' PROVE part'[FileOf[i]] # "data"
  BY DEF Emptied
<1>1. FileOf[i] \in Files
  BY RowAssumption
<1>2. CASE Engine(i)
  <2>1. EngineSucceeds(i)
    <3>1. ~DialOk(i) /\ ~DialFails(i) /\ ~OpenPart(i) /\ ~WriteBytes(i) /\ ~PersistProgress(i)
          /\ ~ChunkStateLost(i)
      BY DEF DialOk, DialFails, OpenPart, WriteBytes, PersistProgress, ChunkStateLost, Goto, Fail,
         runVars
    <3>2. ~EngineFails(i)
      BY DEF EngineFails, EngineErr, StopErr, Fail, Goto
    <3>3. QED BY <1>2, <3>1, <3>2 DEF Engine
  <2>2. QED BY <1>1, <2>1 DEF EngineSucceeds
<1>3. CASE ~Engine(i)
  <2>1. Gone(i)
    <3>1. Unwind(i) => FinalProgress(i)
      <4>1. ~DropLostPart(i) /\ ~ResetLost(i)
        BY DEF DropLostPart, ResetLost, Goto, Fail
      <4>2. ~Restart(i) /\ ~Complete(i) /\ ~FinishFailed(i) /\ ~ReadMark(i) /\ ~RequeueRow(i)
            /\ ~Ladder(i) /\ ~Discarded(i) /\ ~Release(i)
        BY DEF Restart, Complete, FinishFailed, ReadMark, RequeueRow, Ladder, Discarded, Release, Goto
      <4>3. ~FinishStopped(i) /\ ~SettleAgain(i) /\ ~Settle(i)
        BY DEF FinishStopped, SettleAgain, Settle, SettleStopped, Goto
      <4>4. QED BY <4>1, <4>2, <4>3 DEF Unwind
    <3>2. FinalProgress(i) => Gone(i)
      BY DEF FinalProgress, Goto
    <3>3. ~(PumpSpawn /\ cur = i)
      BY DEF PumpSpawn
    <3>4. QED BY <1>3, <3>1, <3>2, <3>3, RunnersMove DEF RunnerMoves
  <2>2. part[FileOf[i]] # "data"
    BY <2>1 DEF Emptied
  <2>3. ASSUME NEW j \in Ids, FileOf[j] = FileOf[i], WriteBytes(j) PROVE FALSE
    <3>1. i \in cancels /\ j \in cancels
      BY <2>1, <2>3 DEF Ownership, WriteBytes
    <3>2. pc[j] = "copy"
      BY <2>3 DEF WriteBytes
    <3>3. QED BY <2>1, <2>3, <3>1, <3>2 DEF FileLocks
  <2>4. QED BY <1>1, <2>2, <2>3, DataAppears
<1>4. QED BY <1>2, <1>3

-----------------------------------------------------------------------------
(* Data stays known. *)

\* What makes data is a row that will own up to it.
LEMMA WritersKnow ==
  ASSUME IInv, RunsOver, DiscardsRest, [Next]_vars, NEW i \in Ids, WriteBytes(i)
  PROVE  Knows(i)'
<1> USE DEF IInv, TypeOK, RunTypeOK
<1>1. pc[i] = "copy" /\ pc' = pc /\ done'[i] /\ UNCHANGED <<state, disc>>
  BY DEF WriteBytes, rowVars
<1>2. ~Resting(i) /\ i \in cancels
  BY <1>1 DEF Resting, Ownership
<1>3. state[i] \notin {"none", "completed"}
  BY <1>2 DEF RunsOver
<1>4. \A a \in Kinds \X Ids : disc[a] = "reset" => a[2] # i
  BY <1>1, <1>2 DEF DiscardsRest, Unwound
<1>5. QED BY <1>1, <1>3, <1>4 DEF Knows

\* A row keeps knowing of its data as long as there is any: completion comes
\* after the placeholder is gone, a lost chunk state zeroes the row's count but
\* not the run's, which is written before the run ends, and a discard unlinks
\* before it resets.
LEMMA KnowledgeStays ==
  ASSUME IInv, CountsKept, Emptied, Orderly, [Next]_vars,
         NEW i \in Ids, Knows(i), part[FileOf[i]] = "data", part'[FileOf[i]] = "data"
  PROVE  Knows(i)'
<1> USE DEF IInv, TypeOK, RunTypeOK, RowsTypeOK, WorldTypeOK
<1>1. FileOf[i] \in Files
  BY RowAssumption
<1>2. state'[i] \notin {"none", "completed"}
  <2>1. ~Complete(i)
    BY DEF Complete, Emptied
  <2>2. state'[i] = state[i] \/ RowMove(i)
    BY RowMoves
  <2>3. QED BY <2>1, <2>2 DEF Knows, RowMove, EngineMove, UserMove, HealMove, Moves
<1>3. ASSUME NEW a \in Kinds \X Ids, disc'[a] = "reset", a[2] = i PROVE FALSE
  <2>1. disc[a] # "reset"
    BY <1>3 DEF Knows
  <2>2. PICK b \in Kinds \X Ids : Discard(b)
    BY <1>3, <2>1, DiscardFrames DEF DiscardFrame
  <2>3. a = b /\ DiscardUnlink(a)
    BY <1>3, <2>1, <2>2 DEF Discard, DiscardRead, DiscardOwners, DiscardUnlink, DiscardFails, DiscardReset,
       DiscardGoto
  <2>4. QED BY <1>1, <1>3, <2>3 DEF DiscardUnlink
<1>4. hasBytes'[i] \/ (pc'[i] \in {"copy", "final", "restart"} /\ done'[i])
  <2>0. CASE ResetLost(i)
    <3>1. done[i] /\ done' = done /\ pc'[i] \in {"final", "restart"}
      BY <2>0 DEF ResetLost, Goto, Fail, CountsKept, Covers, Lost
    <3>2. QED BY <3>1
  <2>1. CASE hasBytes[i] /\ ~ResetLost(i)
    <3>1. ~ResetLost(i)
      BY <2>1
    <3>2. FinalProgress(i) => done[i]
      BY <2>1 DEF FinalProgress, CountsKept, Covers
    <3>3. \A a \in Kinds \X Ids : ~(DiscardReset(a) /\ a[2] = i)
      BY DEF Knows, DiscardReset
    <3>4. QED BY <2>1, <3>1, <3>2, <3>3, RecordedBytes DEF BytesDropped
  <2>2. CASE ~hasBytes[i]
    <3>1. pc[i] \in {"copy", "final", "restart"} /\ done[i] /\ ~Restart(i)
      BY <2>2 DEF Knows, Orderly
    <3>2. CASE FinalProgress(i)
      BY <3>1, <3>2 DEF FinalProgress
    <3>3. CASE ~FinalProgress(i)
      <4>1. ~Unwind(i)
        <5>1. ~DropLostPart(i) /\ ~ResetLost(i) /\ ~Restart(i) /\ ~Complete(i) /\ ~FinishFailed(i)
              /\ ~FinishStopped(i) /\ ~ReadMark(i) /\ ~RequeueRow(i) /\ ~SettleAgain(i)
              /\ ~Settle(i) /\ ~Ladder(i) /\ ~Discarded(i) /\ ~Release(i)
          BY <3>1 DEF DropLostPart, ResetLost, Restart, Complete, FinishFailed, FinishStopped,
             ReadMark, RequeueRow, SettleAgain, Settle, Ladder, Discarded, Release
        <5>2. QED BY <3>3, <5>1 DEF Unwind
      <4>2. ~Relaunch
        BY <3>1 DEF Orderly, Running
      <4>3. ~(PumpSpawn /\ cur = i)
        BY <3>1 DEF PumpSpawn, Ownership, HeldByPump
      <4>4. Engine(i) => pc'[i] \in {"copy", "final", "restart"}
        BY <3>1 DEF Engine, DialOk, DialFails, OpenPart, WriteBytes, PersistProgress, EngineSucceeds,
           EngineFails, ChunkStateLost, Goto, Fail, runVars
      <4>5. pc'[i] \in {"copy", "final", "restart"}
        BY <3>1, <4>1, <4>2, <4>3, <4>4, RunnersMove DEF RunnerMoves
      <4>6. ~OpenPart(i)
        BY <3>1 DEF OpenPart
      <4>7. WriteBytes(i) => done'[i]
        BY DEF WriteBytes
      <4>8. QED BY <3>1, <4>5, <4>6, <4>7, RunningCounts
    <3>4. QED BY <3>2, <3>3
  <2>3. QED BY <2>0, <2>1, <2>2
<1>5. QED BY <1>2, <1>3, <1>4 DEF Knows

LEMMA DataKnownStep ==
  ASSUME IInv, RunsOver, DiscardsRest, CountsKept, Emptied, DataKnown, Orderly, [Next]_vars
  PROVE  DataKnown'
<1> SUFFICES ASSUME NEW f \in Files, part'[f] = "data"
             PROVE  \E i \in Ids : FileOf[i] = f /\ Knows(i)'
  BY DEF DataKnown
<1>1. CASE part[f] = "data"
  BY <1>1, KnowledgeStays DEF DataKnown
<1>2. CASE part[f] # "data"
  BY <1>2, DataAppears, WritersKnow DEF IInv
<1>3. QED BY <1>1, <1>2

DataInv == RunsOver /\ WaitingRests /\ TailsRest /\ DiscardsRest /\ CountsKept /\ Emptied /\ DataKnown

\* At the first launch there is no data and no run.
LEMMA InitDataInv == Init => DataInv
<1> SUFFICES ASSUME Init PROVE DataInv OBVIOUS
<1>1. \A i \in Ids : Resting(i) /\ Covers(i) /\ hasBytes[i] = FALSE /\ state[i] \in {"pending", "none"}
  BY RowAssumption DEF Init, Resting, Covers, Lost
<1>2. RunsOver /\ WaitingRests /\ TailsRest /\ CountsKept
  BY <1>1 DEF Init, RunsOver, WaitingRests, TailsRest, CountsKept
<1>3. DiscardsRest
  BY DEF Init, DiscardsRest, Sweeps, NoClick, IdleDiscards
<1>4. Emptied /\ DataKnown
  BY RowAssumption DEF Init, Emptied, DataKnown
<1>5. QED BY <1>2, <1>3, <1>4 DEF DataInv

\* Every orderly behaviour keeps the invariant.
LEMMA DataInvariant ==
  ASSUME OneToggler
  PROVE  Spec /\ [][Orderly]_vars => []DataInv
<1>1. RInv /\ DataInv /\ [Next]_vars /\ [Orderly]_vars => DataInv'
  <2>1. RInv /\ UNCHANGED vars => Orderly
    <3> SUFFICES ASSUME TypeOK, UNCHANGED vars PROVE Orderly
      BY DEF RInv, IInv
    <3>1. ~PumpClaim
      BY DEF PumpClaim, vars, pumpVars
    <3>2. ~Relaunch
      BY LaunchAssumption DEF Relaunch, vars, lifeVars, TypeOK, WorldTypeOK
    <3>3. \A k \in Clickers, i \in Ids : ~ResumeWrite(k, i)
      BY DEF ResumeWrite, ClickDone, NoClick, vars, userVars, TypeOK, UserTypeOK
    <3>4. \A i \in Ids : ~Restart(i) /\ ~OpenPart(i)
      BY DEF Restart, OpenPart, Goto, vars, runVars, TypeOK, RunTypeOK
    <3>5. QED BY <3>1, <3>2, <3>3, <3>4 DEF Orderly
  <2>2. RInv /\ DataInv /\ [Next]_vars /\ Orderly => DataInv'
    BY RunsOverStep, WaitingRestsStep, TailsRestStep, DiscardsRestStep, CountsKeptStep,
       EmptiedStep, DataKnownStep DEF DataInv, RInv
  <2>3. QED BY <2>1, <2>2
<1>2. QED BY <1>1, InitDataInv, RefinementInvariant, PTL DEF Spec

-----------------------------------------------------------------------------
(* The theorems. *)

LEMMA KnownIsAccounted ==
  ASSUME TypeOK, DataKnown
  PROVE  NoForgottenData
BY DEF TypeOK, RowsTypeOK, State, DataKnown, Knows, NoForgottenData, Accounted, CancelledWithBytes,
   Owner, Unfinished

\* In an orderly behaviour data is never forgotten: whoever cancels, retries,
\* enqueues or resumes rows, on however many clicks, and whichever writes, discards
\* and removals of lost parts fail, what is on disk belongs to a row that may resume it, to a run that has not
\* ended, or to a cancelled row that still records bytes and so can be discarded.
THEOREM DataIsNeverForgotten ==
  ASSUME OneToggler
  PROVE  Spec /\ [][Orderly]_vars => []NoForgottenData
<1>1. IInv /\ DataInv => NoForgottenData
  BY KnownIsAccounted DEF IInv, DataInv
<1>2. QED BY <1>1, DataInvariant, Invariance, PTL

-----------------------------------------------------------------------------
(* Where every row runs at most once, every behaviour is orderly. *)

SingleRuns ==
  /\ NoResume /\ "retryFailed" \notin Ops /\ MaxAttempts = 1
  /\ Togglers = {} /\ ~MayStop /\ MaxLaunches = 1 /\ ~DropsFail

\* A row that has been claimed.
Claimed(i) == pc[i] # "idle" \/ i \in tail \/ (pumpPc = "spawn" /\ cur = i)
OneRun ==
  /\ requeue = {} /\ ~stopping
  /\ \A i \in Ids : /\ pc[i] # "requeue"
                    /\ Claimed(i) => state[i] \notin {"none", "pending"}

\* Without a queue-wide pause, a shutdown or a second attempt nothing makes a
\* row pending that has been claimed.
LEMMA OneRunStep ==
  ASSUME SingleRuns, IInv, NobodyResumes, OneRun, [Next]_vars
  PROVE  OneRun'
<1> USE DEF IInv, TypeOK, RunTypeOK, PumpTypeOK
<1>1. ~Relaunch
  BY DEF SingleRuns, Relaunch, WorldTypeOK
<1>2. requeue' = {} /\ ~stopping'
  <2>1. ASSUME NEW i \in Ids, Release(i) PROVE requeue' = {} /\ ~stopping'
    BY <2>1 DEF Release, DropReservation, OneRun
  <2>2. PumpRelease => requeue' = {} /\ ~stopping'
    BY DEF PumpRelease, DropReservation, OneRun
  <2>3. ASSUME NEW k \in Clickers, NEW i \in Ids, StopRow(k, i) PROVE requeue' = {} /\ ~stopping'
    BY <2>3 DEF StopRow, OneRun
  <2>4. ~BeginStop
    BY DEF BeginStop, SingleRuns
  <2>5. StopAllForExit \/ AwaitStop \/ GraceExpires => requeue' = {} /\ ~stopping'
    BY DEF StopAllForExit, AwaitStop, GraceExpires, memVars, OneRun
  <2>6. QED BY <1>1, <2>1, <2>2, <2>3, <2>4, <2>5, StopFrames DEF StopFrame, OneRun, SingleRuns
<1>3. ASSUME NEW i \in Ids PROVE pc'[i] # "requeue"
  <2>1. ~Engine(i) \/ pc'[i] # "requeue"
    BY DEF OneRun, Engine, DialOk, DialFails, OpenPart, WriteBytes, PersistProgress, EngineSucceeds,
       EngineFails, ChunkStateLost, Goto, Fail, runVars
  <2>2. ReadMark(i) => pc'[i] # "requeue"
    BY DEF ReadMark, Goto, OneRun
  <2>3. DropLostPart(i) \/ ResetLost(i) \/ Restart(i) \/ FinalProgress(i) \/ Complete(i)
        \/ FinishFailed(i) \/ RequeueRow(i) \/ Ladder(i) \/ Discarded(i) \/ Release(i)
        => pc'[i] # "requeue"
    BY DEF DropLostPart, ResetLost, Restart, FinalProgress, Complete, FinishFailed, RequeueRow,
       Ladder, Discarded, Release, Goto, Fail
  <2>4. FinishStopped(i) \/ SettleAgain(i) \/ Settle(i) => pc'[i] # "requeue"
    BY DEF FinishStopped, SettleAgain, Settle, SettleStopped, Goto
  <2>5. QED BY <2>1, <2>2, <2>3, <2>4, RunnersMove DEF RunnerMoves, Unwind, OneRun
<1>4. ASSUME NEW i \in Ids, Claimed(i)' PROVE state'[i] \notin {"none", "pending"}
  <2>1. CASE PumpClaim /\ cur = i
    BY <2>1 DEF PumpClaim, SetState, RowsTypeOK
  <2>2. CASE ~(PumpClaim /\ cur = i)
    <3>1. Claimed(i)
      <4>1. ~(pumpPc' = "spawn" /\ cur' = i) \/ (pumpPc = "spawn" /\ cur = i)
        <5>1. Pump => (pumpPc' = "spawn" => PumpClaim /\ cur' = cur)
          BY DEF Pump, PumpEnter, PumpList, PumpReturn, PumpSkip, PumpRegister, PumpClaim,
             PumpLoseClaim, PumpRelease, PumpTail, PumpSpawn
        <5>2. QED BY <1>1, <2>2, <5>1, Frames DEF PumpFrame, pumpVars
      <4>2. i \in tail' => i \in tail \/ pc[i] # "idle"
        BY <1>1, TailFrames DEF TailFrame, Release, Tail
      <4>3. pc'[i] # "idle" => Claimed(i)
        <5>1. Engine(i) \/ Unwind(i) => pc[i] # "idle"
          <6>1. Engine(i) => pc[i] # "idle"
            BY DEF Engine, DialOk, DialFails, OpenPart, WriteBytes, PersistProgress, EngineSucceeds,
               EngineFails, ChunkStateLost, Writing
          <6>2. Unwind(i) => pc[i] # "idle"
            BY DEF Unwind, DropLostPart, ResetLost, Restart, FinalProgress, Complete, FinishFailed,
               FinishStopped, SettleAgain, Settle, ReadMark, RequeueRow, Ladder, Discarded, Release
          <6>3. QED BY <6>1, <6>2
        <5>2. QED BY <5>1, RunnersMove DEF RunnerMoves, Claimed, PumpSpawn
      <4>4. QED BY <1>4, <4>1, <4>2, <4>3 DEF Claimed
    <3>2. state[i] \notin {"none", "pending"}
      BY <3>1 DEF OneRun
    <3>3. ~AttemptsLeft(i)
      BY DEF AttemptsLeft, SingleRuns
    <3>4. ~Restart(i) /\ ~RequeueRow(i)
      BY <3>3 DEF Restart, RequeueRow, Snapshots, OneRun
    <3>5. Ladder(i) => state'[i] # "pending"
      BY <3>2, <3>3 DEF Ladder, SetState, rowVars, RowsTypeOK
    <3>6. \A k \in Clickers : ~ResumeWrite(k, i) /\ ~RetryFailed(k)
      BY DEF NobodyResumes, ResumeWrite, RetryFailed, SingleRuns
    <3>7. state'[i] = state[i] \/ RowMove(i)
      BY RowMoves
    <3>8. QED BY <1>1, <3>2, <3>4, <3>5, <3>6, <3>7
          DEF RowMove, EngineMove, UserMove, HealMove, Moves, SingleRuns
  <2>3. QED BY <2>1, <2>2
<1>5. QED BY <1>2, <1>3, <1>4 DEF OneRun

\* So where the user neither resumes nor retries rows, nobody pauses the queue
\* or closes the app, the first failure is final and an engine clears the other's
\* leftovers, the promise needs no condition on the behaviour: a lost part that
\* could not be removed is still counted by the run that lost it.
THEOREM SingleRunsForgetNothing ==
  ASSUME SingleRuns
  PROVE  Spec => []NoForgottenData
<1>1. Init => OneRun
  BY DEF Init, OneRun, Claimed
<1>2. NoResume /\ OneToggler
  BY DEF SingleRuns, OneToggler
<1>3. IInv /\ NobodyResumes /\ OneRun /\ [Next]_vars => OneRun'
  BY OneRunStep
<1>4. IInv /\ NobodyResumes /\ OneRun /\ [Next]_vars => [Orderly]_vars
  <2>1. IInv /\ OneRun /\ PumpClaim => cur \notin tail
    BY DEF IInv, Ownership, PumpClaim, OneRun, Claimed
  <2>2. NobodyResumes => \A k \in Clickers, i \in Ids : ~ResumeWrite(k, i)
    BY DEF NobodyResumes, ResumeWrite
  <2>3. IInv => ~Relaunch
    BY DEF IInv, TypeOK, WorldTypeOK, SingleRuns, Relaunch
  <2>4. IInv => \A i \in Ids : ~Restart(i)
    <3> SUFFICES ASSUME TypeOK, Snapshots, NEW i \in Ids, pc[i] = "restart" PROVE FALSE
      BY DEF IInv, Restart
    <3>1. runAttempt[i] \in Nat /\ MaxAttempts = 1
      BY DEF TypeOK, RunTypeOK, SingleRuns
    <3>2. AttemptsLeft(i)
      BY DEF Snapshots
    <3>3. QED BY <3>1, <3>2 DEF AttemptsLeft
  <2>5. IInv => \A i \in Ids : OpenPart(i) /\ part'[FileOf[i]] = "data" => done'[i]
    BY RowAssumption DEF IInv, TypeOK, RunTypeOK, WorldTypeOK, OpenPart, SingleRuns
  <2>6. QED BY <2>1, <2>2, <2>3, <2>4, <2>5 DEF Orderly
<1>5. Spec => [][Orderly]_vars
  BY <1>1, <1>2, <1>3, <1>4, Invariance, NobodyResumesInvariant, PTL DEF Spec
<1>6. QED BY <1>2, <1>5, DataIsNeverForgotten

=============================================================================
