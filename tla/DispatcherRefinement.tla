------------------------ MODULE DispatcherRefinement ------------------------
(***************************************************************************)
(* What the goroutines of Dispatcher do to a row, seen from outside: the   *)
(* action properties, and the refinement of TransferLifecycle, for every   *)
(* set of rows and files.                                                  *)
(*                                                                         *)
(* Of the sixty steps of Dispatcher fifteen move a row, its attempts or a  *)
(* registration (RowSteps). Each argument below looks at those fifteen     *)
(* only. Some promises are broken by writes of the user that carry no      *)
(* guard and land at a bad moment: their theorems are about the behaviours *)
(* in which none does, and name the moment (ResumesInOrder,                *)
(* DiscardsUndisturbed, UnlinksUndisturbed; one SetPaused at a time is     *)
(* OneToggler). The corollaries say which instances have no such moment.   *)
(***************************************************************************)
EXTENDS DispatcherProofs

OneToggler == \A g, h \in Togglers : g = h
OneClicker == \A k, l \in Clickers : k = l

-----------------------------------------------------------------------------
(* The steps that move a row. *)

PumpRowStep == PumpRegister \/ PumpClaim \/ PumpRelease
RunnerRowStep(i) == Restart(i) \/ Complete(i) \/ RequeueRow(i) \/ Ladder(i) \/ Release(i)
ClickRowStep(k) ==
  \/ \E i \in Ids : PauseWrite(k, i) \/ ResumeWrite(k, i) \/ Enqueue(k, i)
  \/ \E S \in SUBSET Ids : Cancel(k, S)
  \/ CancelQueued(k) \/ RetryFailed(k)
RowStep ==
  \/ PumpRowStep
  \/ \E i \in Ids : RunnerRowStep(i)
  \/ \E k \in Clickers : ClickRowStep(k)
  \/ \E g \in Togglers : HealOrphans(g)
  \/ Relaunch
RowsStand == UNCHANGED <<state, attempt, cancels>>

\* Every other step leaves the rows, their attempts and the reservations alone.
LEMMA RowSteps == ASSUME [Next]_vars PROVE RowsStand \/ RowStep
<1> USE DEF RowsStand
<1>1. ASSUME NEW i \in Ids, BackoffElapses(i) PROVE RowsStand
  BY <1>1 DEF BackoffElapses, memVars
<1>2. ASSUME PumpEnter \/ PumpList \/ PumpReturn \/ PumpSkip \/ PumpLoseClaim \/ PumpTail \/ PumpSpawn
      PROVE  RowsStand
  BY <1>2 DEF PumpEnter, PumpList, PumpReturn, PumpSkip, PumpLoseClaim, PumpTail, PumpSpawn,
     rowVars, memVars
<1>3. ASSUME NEW i \in Ids, Engine(i) PROVE RowsStand
  BY <1>3 DEF Engine, DialOk, DialFails, OpenPart, WriteBytes, PersistProgress, EngineSucceeds,
     EngineFails, ChunkStateLost, rowVars, memVars
<1>4. ASSUME NEW i \in Ids, DropLostPart(i) \/ ResetLost(i) \/ FinalProgress(i)
      PROVE  RowsStand
  BY <1>4 DEF DropLostPart, ResetLost, FinalProgress, rowVars, memVars
<1>5. ASSUME NEW i \in Ids, FinishStopped(i) \/ FinishFailed(i) \/ ReadMark(i)
                            \/ SettleAgain(i) \/ Settle(i)
      PROVE  RowsStand
  BY <1>5 DEF FinishStopped, FinishFailed, ReadMark, SettleAgain, Settle, SettleStopped,
     rowVars, memVars
<1>6. ASSUME NEW i \in Ids, Discarded(i) \/ Tail(i) PROVE RowsStand
  BY <1>6 DEF Discarded, Tail, rowVars, memVars
<1>7. ASSUME NEW a \in Kinds \X Ids, Discard(a) PROVE RowsStand
  BY <1>7 DEF Discard, DiscardRead, DiscardOwners, DiscardUnlink, DiscardFails, DiscardReset,
     rowVars, memVars
<1>8. ASSUME NEW k \in Clickers, NEW i \in Ids, ClickPause(k, i) \/ ClickResume(k, i) \/ StopRow(k, i)
      PROVE  RowsStand
  BY <1>8 DEF ClickPause, ClickResume, StopRow, rowVars, memVars
<1>9. ASSUME NEW k \in Clickers, SweepRead(k) \/ SweepIdle(k) PROVE RowsStand
  BY <1>9 DEF SweepRead, SweepIdle, rowVars, memVars
<1>10. ASSUME NEW g \in Togglers,
              TogglePause(g) \/ PersistPause(g) \/ FlagPaused(g) \/ StopAllForPause(g)
              \/ SnapshotRunning(g) \/ FlagResumed(g)
       PROVE  RowsStand
  BY <1>10 DEF TogglePause, PersistPause, FlagPaused, StopAllForPause, SnapshotRunning,
     FlagResumed, rowVars, memVars
<1>11. ASSUME BeginStop \/ StopAllForExit \/ AwaitStop \/ GraceExpires PROVE RowsStand
  BY <1>11 DEF BeginStop, StopAllForExit, AwaitStop, GraceExpires, rowVars, memVars
<1>12. CASE UNCHANGED vars
  BY <1>12 DEF vars, rowVars, memVars
<1>13. QED
  BY <1>1, <1>2, <1>3, <1>4, <1>5, <1>6, <1>7, <1>8, <1>9, <1>10, <1>11, <1>12
  DEF Next, Pump, Unwind, Click, Follow, SetPaused, RowStep, PumpRowStep, RunnerRowStep,
      ClickRowStep

-----------------------------------------------------------------------------
(* The user's decisions. *)

\* Each writer but the user's own is guarded on a state the user did not choose,
\* except the one that records a finished file.
LEMMA IntentStep ==
  ASSUME TypeOK, RowStep, NEW i \in Ids,
         state[i] \in {"paused", "cancelled"}, state'[i] # state[i]
  PROVE  UserWrote \/ (pc[i] = "complete" /\ state'[i] = "completed")
<1> USE DEF TypeOK, RowsTypeOK, UserTypeOK, PumpTypeOK, InState, SetState
<1>1. CASE PumpRowStep
  BY <1>1 DEF PumpRowStep, PumpRegister, PumpClaim, PumpRelease, rowVars
<1>2. ASSUME NEW j \in Ids, RunnerRowStep(j)
      PROVE  pc[i] = "complete" /\ state'[i] = "completed"
  <2>1. ~Restart(j) /\ ~Release(j)
    BY DEF Restart, Release, ScheduleRetry, rowVars
  <2>2. ~RequeueRow(j) /\ ~Ladder(j)
    BY DEF RequeueRow, Ladder, ScheduleRetry, CleanSlate, rowVars
  <2>3. Complete(j) => pc[i] = "complete" /\ state'[i] = "completed"
    BY DEF Complete
  <2>4. QED BY <1>2, <2>1, <2>2, <2>3 DEF RunnerRowStep
<1>3. ASSUME NEW k \in Clickers, ClickRowStep(k) PROVE UserWrote
  <2>1. ASSUME NEW j \in Ids, PauseWrite(k, j) \/ ResumeWrite(k, j) PROVE UserWrote
    BY <2>1 DEF PauseWrite, ResumeWrite, ClickGoto, ClickDone, NoClick, UserWrote
  <2>2. ASSUME NEW marked, MarkCancelled(k, marked) PROVE UserWrote
    BY <2>2 DEF MarkCancelled, ClickGoto, Idle, UserWrote
  <2>3. ~RetryFailed(k) /\ \A j \in Ids : ~Enqueue(k, j)
    BY DEF RetryFailed, CleanSlate, Enqueue
  <2>4. QED BY <1>3, <2>1, <2>2, <2>3 DEF ClickRowStep, Cancel, CancelQueued
<1>4. ASSUME NEW S, CleanSlate(S), i \notin S PROVE FALSE
  BY <1>4 DEF CleanSlate
<1>5. ~Relaunch /\ \A g \in Togglers : ~HealOrphans(g)
  <2>1. i \notin InState("active")
    OBVIOUS
  <2>2. QED BY ONLY <1>4, <2>1 DEF HealOrphans, Relaunch
<1>6. QED BY <1>1, <1>2, <1>3, <1>5 DEF RowStep

\* A row the user paused or cancelled is moved by the user alone, or by the end
\* of a file that was already complete: the claim, the ladder, a requeue, a heal
\* and recovery lose the race.
THEOREM IntentIsKept == Spec => IntentStands
<1> DEFINE Stands == \A i \in Ids : state[i] \in {"paused", "cancelled"} /\ state'[i] # state[i]
                        => UserWrote \/ (pc[i] = "complete" /\ state'[i] = "completed")
<1>1. TypeOK /\ [Next]_vars => [Stands]_vars
  <2> SUFFICES ASSUME TypeOK, [Next]_vars PROVE Stands OBVIOUS
  <2>1. CASE RowsStand
    BY <2>1 DEF RowsStand
  <2>2. CASE RowStep
    BY <2>2, IntentStep
  <2>3. QED BY <2>1, <2>2, RowSteps
<1>2. QED BY TypeCorrect, <1>1, PTL DEF Spec, IntentStands

-----------------------------------------------------------------------------
(* Who changes what else. *)

PumpFrame == UNCHANGED pumpVars \/ Pump \/ Relaunch
RunnerFrame ==
  UNCHANGED <<pc, err>> \/ PumpSpawn \/ (\E i \in Ids : Engine(i) \/ Unwind(i)) \/ Relaunch
ClickFrame == UNCHANGED click \/ (\E k \in Clickers : Click(k) \/ Follow(k)) \/ Relaunch
ToggleFrame ==
  \/ UNCHANGED <<toggle, setting, paused>>
  \/ \E g \in Togglers : TogglePause(g) \/ SetPaused(g)
  \/ Relaunch

\* The pump alone moves its list and its row; runners alone move their program
\* counters, once the pump has spawned them; each call moves its own.
LEMMA Frames ==
  ASSUME [Next]_vars
  PROVE  PumpFrame /\ RunnerFrame /\ ClickFrame /\ ToggleFrame
<1> DEFINE Others == UNCHANGED <<click, toggle, setting, paused>>
<1>1. ASSUME NEW i \in Ids, BackoffElapses(i) PROVE Others /\ UNCHANGED <<pumpVars, pc, err>>
  BY <1>1 DEF BackoffElapses, memVars, userVars, runVars
<1>2. ASSUME PumpEnter \/ PumpList \/ PumpReturn \/ PumpSkip \/ PumpLoseClaim \/ PumpTail \/ PumpClaim
      PROVE  Others /\ UNCHANGED <<pc, err>>
  BY <1>2 DEF PumpEnter, PumpList, PumpReturn, PumpSkip, PumpLoseClaim, PumpTail, PumpClaim,
     memVars, userVars, runVars
<1>3. ASSUME PumpRegister \/ PumpRelease PROVE Others /\ UNCHANGED <<pc, err>>
  BY <1>3 DEF PumpRegister, PumpRelease, DropReservation, userVars
<1>4. ASSUME PumpSpawn PROVE Others
  BY <1>4 DEF PumpSpawn, memVars, userVars
<1>5. ASSUME NEW i \in Ids, Engine(i) PROVE Others /\ UNCHANGED pumpVars
  BY <1>5 DEF Engine, DialOk, DialFails, OpenPart, WriteBytes, PersistProgress, EngineSucceeds,
     EngineFails, ChunkStateLost, memVars, userVars
<1>6. ASSUME NEW i \in Ids, DropLostPart(i) \/ ResetLost(i) \/ Restart(i) \/ FinalProgress(i)
                            \/ Complete(i) \/ FinishFailed(i) \/ ReadMark(i) \/ RequeueRow(i)
                            \/ Ladder(i) \/ Discarded(i)
      PROVE  Others /\ UNCHANGED pumpVars
  BY <1>6 DEF DropLostPart, ResetLost, Restart, FinalProgress, Complete, FinishFailed, ReadMark,
     RequeueRow, Ladder, Discarded, memVars, userVars
<1>7. ASSUME NEW i \in Ids, FinishStopped(i) \/ SettleAgain(i) \/ Settle(i)
      PROVE  Others /\ UNCHANGED pumpVars
  BY <1>7 DEF FinishStopped, SettleAgain, Settle, SettleStopped, memVars, userVars
<1>8. ASSUME NEW i \in Ids, Release(i) PROVE Others /\ UNCHANGED pumpVars
  BY <1>8 DEF Release, DropReservation, userVars
<1>9. ASSUME NEW i \in Ids, Tail(i) PROVE Others /\ UNCHANGED <<pumpVars, pc, err>>
  BY <1>9 DEF Tail, memVars, userVars
<1>10. ASSUME NEW a \in Kinds \X Ids, Discard(a) PROVE Others /\ UNCHANGED <<pumpVars, pc, err>>
  BY <1>10 DEF Discard, DiscardRead, DiscardOwners, DiscardUnlink, DiscardFails, DiscardReset,
     memVars, userVars, runVars
<1>11. ASSUME NEW k \in Clickers, Click(k) \/ Follow(k)
       PROVE  UNCHANGED <<toggle, setting, paused>> /\ UNCHANGED <<pumpVars, pc, err>>
  BY <1>11 DEF Click, Follow, ClickPause, ClickResume, Cancel, CancelQueued, MarkCancelled, Enqueue,
     RetryFailed, PauseWrite, ResumeWrite, StopRow, SweepRead, SweepIdle, memVars, userVars, runVars
<1>12. ASSUME NEW g \in Togglers, TogglePause(g) \/ SetPaused(g)
       PROVE  UNCHANGED click /\ UNCHANGED <<pumpVars, pc, err>>
  BY <1>12 DEF TogglePause, SetPaused, PersistPause, FlagPaused, StopAllForPause, SnapshotRunning,
     HealOrphans, FlagResumed, runVars
<1>13. ASSUME BeginStop \/ StopAllForExit \/ AwaitStop \/ GraceExpires
       PROVE  Others /\ UNCHANGED <<pumpVars, pc, err>>
  BY <1>13 DEF BeginStop, StopAllForExit, AwaitStop, GraceExpires, memVars, userVars, runVars
<1>14. CASE UNCHANGED vars
  BY <1>14 DEF vars, userVars, runVars, memVars, PumpFrame, RunnerFrame, ClickFrame, ToggleFrame
<1> HIDE DEF Others
<1>15. CASE Next
  <2>1. PumpFrame
    BY <1>15, <1>1, <1>5, <1>6, <1>7, <1>8, <1>9, <1>10, <1>11, <1>12, <1>13
    DEF Next, Unwind, PumpFrame
  <2>2. RunnerFrame
    BY <1>15, <1>1, <1>2, <1>3, <1>9, <1>10, <1>11, <1>12, <1>13
    DEF Next, Pump, RunnerFrame
  <2>3. ClickFrame
    BY <1>15, <1>1, <1>2, <1>3, <1>4, <1>5, <1>6, <1>7, <1>8, <1>9, <1>10, <1>12, <1>13
    DEF Next, Pump, Unwind, ClickFrame, Others
  <2>4. ToggleFrame
    BY <1>15, <1>1, <1>2, <1>3, <1>4, <1>5, <1>6, <1>7, <1>8, <1>9, <1>10, <1>11, <1>13
    DEF Next, Pump, Unwind, ToggleFrame, Others
  <2>5. QED BY <2>1, <2>2, <2>3, <2>4
<1>16. QED BY <1>14, <1>15

-----------------------------------------------------------------------------
(* The moves of one row. *)

Moves(i, from, to) == state[i] \in from /\ state'[i] = to
EngineMove(i) ==
  \/ PumpClaim /\ i = cur /\ Moves(i, {"pending"}, "active")
  \/ (Restart(i) \/ RequeueRow(i) \/ Ladder(i)) /\ Moves(i, {"active"}, "pending")
  \/ Ladder(i) /\ Moves(i, {"active"}, "failed")
  \/ Complete(i) /\ state'[i] = "completed"
UserMove(k, i) ==
  \/ PauseWrite(k, i) /\ state'[i] = "paused"
  \/ ResumeWrite(k, i) /\ state'[i] = "pending"
  \/ ((\E S \in SUBSET Ids : Cancel(k, S)) \/ CancelQueued(k)) /\ Moves(i, Cancellable, "cancelled")
  \/ RetryFailed(k) /\ Moves(i, {"failed"}, "pending")
  \/ Enqueue(k, i) /\ Moves(i, {"none"}, "pending")
HealMove(g, i) == HealOrphans(g) /\ i \notin toggle[g].keep /\ Moves(i, {"active"}, "pending")
RowMove(i) ==
  \/ EngineMove(i)
  \/ \E k \in Clickers : UserMove(k, i)
  \/ \E g \in Togglers : HealMove(g, i)
  \/ Relaunch /\ Moves(i, {"active"}, "pending")

\* The state machine of a row: from which state each writer takes it, and where.
LEMMA RowMoves ==
  ASSUME TypeOK, [Next]_vars, NEW i \in Ids, state'[i] # state[i]
  PROVE  RowMove(i)
<1> USE DEF TypeOK, RowsTypeOK, InState, SetState, Moves
<1>1. CASE PumpRowStep
  BY <1>1 DEF PumpRowStep, PumpRegister, PumpClaim, PumpRelease, rowVars, RowMove, EngineMove
<1>2. ASSUME NEW j \in Ids, RunnerRowStep(j) PROVE EngineMove(i)
  <2>1. ~Release(j)
    BY DEF Release, rowVars
  <2>2. (Restart(j) \/ RequeueRow(j) \/ Ladder(j)) => EngineMove(i)
    BY DEF Restart, RequeueRow, Ladder, ScheduleRetry, CleanSlate, rowVars, EngineMove
  <2>3. Complete(j) => EngineMove(i)
    BY DEF Complete, EngineMove
  <2>4. QED BY <1>2, <2>1, <2>2, <2>3 DEF RunnerRowStep
<1>3. ASSUME NEW k \in Clickers, ClickRowStep(k) PROVE UserMove(k, i)
  <2>1. ASSUME NEW j \in Ids, PauseWrite(k, j) \/ ResumeWrite(k, j) \/ Enqueue(k, j)
        PROVE  UserMove(k, i)
    BY <2>1 DEF PauseWrite, ResumeWrite, Enqueue, UserMove
  <2>2. ASSUME NEW S \in SUBSET Ids, Cancel(k, S) PROVE UserMove(k, i)
    BY <2>2 DEF Cancel, MarkCancelled, UserMove
  <2>3. CancelQueued(k) => UserMove(k, i)
    BY DEF CancelQueued, MarkCancelled, UserMove, QueuedState, Cancellable, Unfinished
  <2>4. RetryFailed(k) => UserMove(k, i)
    BY DEF RetryFailed, CleanSlate, UserMove
  <2>5. QED BY <1>3, <2>1, <2>2, <2>3, <2>4 DEF ClickRowStep
<1>4. ASSUME NEW g \in Togglers, HealOrphans(g) PROVE HealMove(g, i)
  BY <1>4 DEF HealOrphans, CleanSlate, HealMove
<1>5. ASSUME Relaunch PROVE Moves(i, {"active"}, "pending")
  BY <1>5 DEF Relaunch, CleanSlate
<1>6. ~RowsStand
  BY DEF RowsStand
<1>7. QED BY <1>1, <1>2, <1>3, <1>4, <1>5, <1>6, RowSteps DEF RowStep, RowMove

-----------------------------------------------------------------------------
(* What the refinement needs beyond IInv. *)

\* A claim is lost only on a row that is not active, and the row stays so until
\* the pump has read it back.
LostClaim == pumpPc \in {"release", "tail"} => state[cur] # "active"

\* A click that is about to write was made on a row that exists.
ClicksOnRows ==
  \A k \in Clickers : click[k].pc \in {"pause", "resume"} =>
    \A i \in click[k].ids : state[i] # "none"

\* While the pump gives a registration back nobody else makes its row active.
LEMMA LostClaimStep ==
  ASSUME TypeOK, Ownership, Snapshots, LostClaim, [Next]_vars
  PROVE  LostClaim'
<1> USE DEF LostClaim, TypeOK, PumpTypeOK
<1> SUFFICES ASSUME pumpPc' \in {"release", "tail"} PROVE state'[cur'] # "active"
  OBVIOUS
<1>1. pumpPc = "claim" => cur \in Ids /\ state[cur] # "active"
  BY DEF Ownership, Snapshots, Listed
<1>2. cur' = cur /\ pumpPc \in {"claim", "release", "tail"}
  <2>1. CASE UNCHANGED pumpVars
    BY <2>1 DEF pumpVars
  <2>2. CASE Pump
    BY <2>2 DEF Pump, PumpEnter, PumpList, PumpReturn, PumpSkip, PumpRegister, PumpClaim,
       PumpLoseClaim, PumpRelease, PumpTail, PumpSpawn
  <2>3. ~Relaunch
    BY DEF Relaunch
  <2>4. QED BY <2>1, <2>2, <2>3, Frames DEF PumpFrame
<1>3. cur \in Ids /\ state[cur] # "active"
  BY <1>1, <1>2 DEF Ownership
<1>4. ~PumpClaim
  BY DEF PumpClaim
<1>5. state'[cur] = state[cur] \/ RowMove(cur)
  BY <1>3, RowMoves
<1>6. RowMove(cur) => state'[cur] # "active"
  BY <1>4 DEF RowMove, EngineMove, UserMove, HealMove, Moves
<1>7. QED BY <1>2, <1>3, <1>5, <1>6

\* Rows never cease to exist.
LEMMA ClicksOnRowsStep ==
  ASSUME TypeOK, ClicksOnRows, [Next]_vars
  PROVE  ClicksOnRows'
<1> USE DEF ClicksOnRows, TypeOK, UserTypeOK
<1>1. ASSUME NEW i \in Ids, state[i] # "none" PROVE state'[i] # "none"
  <2>1. state'[i] = state[i] \/ RowMove(i)
    BY RowMoves
  <2>2. QED BY <1>1, <2>1 DEF RowMove, EngineMove, UserMove, HealMove, Moves
<1>2. SUFFICES ASSUME NEW k \in Clickers, click'[k].pc \in {"pause", "resume"},
                      NEW i \in click'[k].ids
               PROVE  state'[i] # "none"
  OBVIOUS
<1>3. CASE click'[k] = click[k]
  BY <1>1, <1>2, <1>3
<1>4. ASSUME NEW l \in Clickers, Click(l) \/ Follow(l), click'[k] # click[k]
      PROVE  i \in Ids /\ state[i] # "none"
  <2>1. ~RetryFailed(l) /\ \A j \in Ids : ~Enqueue(l, j)
    BY <1>4 DEF RetryFailed, Enqueue, userVars
  <2>2. \A marked : ~MarkCancelled(l, marked)
    BY <1>2, <1>4 DEF MarkCancelled, ClickGoto
  <2>3. \A j \in Ids : ~PauseWrite(l, j) /\ ~ResumeWrite(l, j) /\ ~StopRow(l, j)
    BY <1>2, <1>4 DEF PauseWrite, ResumeWrite, StopRow, ClickGoto, ClickDone, NoClick
  <2>4. ~SweepRead(l) /\ ~SweepIdle(l)
    BY <1>2, <1>4 DEF SweepRead, SweepIdle, ClickGoto, ClickDone, NoClick
  <2>5. PICK j \in Ids : ClickPause(l, j) \/ ClickResume(l, j)
    BY <1>4, <2>1, <2>2, <2>3, <2>4 DEF Click, Follow, Cancel, CancelQueued
  <2>6. QED BY <1>2, <1>4, <2>5 DEF ClickPause, ClickResume, ClickGoto
<1>5. ~Relaunch
  BY <1>2 DEF Relaunch, NoClick
<1>6. QED BY <1>1, <1>3, <1>4, <1>5, Frames DEF ClickFrame

-----------------------------------------------------------------------------
(* One SetPaused at a time. *)

\* Nobody registers between the snapshot of the running rows and the heal,
\* because the queue is still paused.
LEMMA HealOnlyWhilePausedStep ==
  ASSUME OneToggler, TypeOK, HealOnlyWhilePaused, [Next]_vars
  PROVE  HealOnlyWhilePaused'
<1> USE DEF HealOnlyWhilePaused, TypeOK, UserTypeOK, TogglePc
<1> SUFFICES ASSUME NEW g \in Togglers
             PROVE  /\ toggle'[g].pc \in {"persistOff", "snapshot", "heal", "flagOff"} => paused'
                    /\ toggle'[g].pc = "heal" => cancels' \subseteq toggle'[g].keep
  OBVIOUS
<1>1. CASE Relaunch
  BY <1>1 DEF Relaunch, NoToggle
<1>2. ASSUME NEW h \in Togglers, TogglePause(h) \/ SetPaused(h) PROVE h = g
  BY DEF OneToggler
<1>3. TogglePause(g) => UNCHANGED <<paused, cancels>> /\ toggle'[g].pc # "heal"
                        /\ (toggle'[g].pc = "persistOff" => paused)
                        /\ toggle'[g].pc \in {"persistOff", "persistOn"}
  BY DEF TogglePause, ToggleGoto, memVars
<1>4. PersistPause(g) \/ SnapshotRunning(g) \/ HealOrphans(g) => UNCHANGED <<paused, cancels>>
  BY DEF PersistPause, SnapshotRunning, HealOrphans, memVars
<1>5. PersistPause(g) => toggle'[g].pc \in {"flagOn", "snapshot"}
                         /\ (toggle'[g].pc = "snapshot" => paused)
  BY DEF PersistPause, ToggleGoto
<1>6. SnapshotRunning(g) => paused /\ toggle'[g] = [pc |-> "heal", keep |-> cancels]
  BY DEF SnapshotRunning, ToggleGoto
<1>7. HealOrphans(g) => paused /\ toggle'[g].pc = "flagOff"
  BY DEF HealOrphans, ToggleGoto
<1>8. FlagPaused(g) \/ StopAllForPause(g) \/ FlagResumed(g) => toggle'[g].pc \in {"stopAll", "idle"}
  BY DEF FlagPaused, StopAllForPause, FlagResumed, ToggleGoto
<1>9. CASE UNCHANGED <<toggle, setting, paused>>
  <2>1. toggle[g].pc = "heal" => cancels' \subseteq cancels
    <3>1. ASSUME paused, PumpRowStep PROVE cancels' \subseteq cancels
      BY <3>1 DEF PumpRowStep, PumpRegister, PumpClaim, PumpRelease, DropReservation, Halted, memVars
    <3>2. ASSUME NEW i \in Ids, RunnerRowStep(i) PROVE cancels' \subseteq cancels
      BY <3>2 DEF RunnerRowStep, Restart, Complete, RequeueRow, Ladder, Release, DropReservation,
         memVars
    <3>3. ASSUME NEW k \in Clickers, ClickRowStep(k) PROVE cancels' = cancels
      BY <3>3 DEF ClickRowStep, PauseWrite, ResumeWrite, Cancel, CancelQueued, MarkCancelled, Enqueue,
         RetryFailed, memVars
    <3>4. ASSUME NEW h \in Togglers, HealOrphans(h) PROVE cancels' = cancels
      BY <3>4 DEF HealOrphans, memVars
    <3>5. Relaunch => cancels' = {}
      BY DEF Relaunch
    <3>6. RowsStand => cancels' = cancels
      BY DEF RowsStand
    <3>7. QED BY <3>1, <3>2, <3>3, <3>4, <3>5, <3>6, RowSteps DEF RowStep
  <2>2. QED BY <1>9, <2>1
<1>10. CASE TogglePause(g) \/ SetPaused(g)
  BY <1>10, <1>3, <1>4, <1>5, <1>6, <1>7, <1>8 DEF SetPaused
<1>11. QED BY <1>1, <1>2, <1>9, <1>10, Frames DEF ToggleFrame

\* The setting is written before the flag on the way in, and the flag last on
\* the way out: at each step of a SetPaused it is known what the setting holds.
SettingKnown ==
  \A g \in Togglers :
    /\ toggle[g].pc \in {"flagOn", "stopAll"} => setting
    /\ toggle[g].pc = "stopAll" => paused
    /\ toggle[g].pc \in {"snapshot", "heal", "flagOff"} => ~setting

\* With one SetPaused at a time nobody else overwrites what it has written.
LEMMA PauseMirroredStep ==
  ASSUME OneToggler, TypeOK, SettingKnown, PauseMirrored, [Next]_vars
  PROVE  SettingKnown' /\ PauseMirrored'
<1> USE DEF SettingKnown, PauseMirrored, Toggling, TypeOK, UserTypeOK, TogglePc, MemTypeOK, WorldTypeOK
<1> USE FlagAssumption
<1>1. CASE Relaunch
  BY <1>1 DEF Relaunch, NoToggle
<1>2. CASE UNCHANGED <<toggle, setting, paused>>
  BY <1>2
<1>3. ASSUME NEW g \in Togglers, TogglePause(g) \/ SetPaused(g)
      PROVE  SettingKnown' /\ PauseMirrored'
  <2>1. Togglers = {g}
    BY DEF OneToggler
  <2>2. CASE TogglePause(g)
    BY <2>1, <2>2 DEF TogglePause, ToggleGoto, memVars
  <2>3. CASE PersistPause(g)
    BY <2>1, <2>3 DEF PersistPause, ToggleGoto, memVars
  <2>4. CASE FlagPaused(g)
    BY <2>1, <2>4 DEF FlagPaused, ToggleGoto
  <2>5. CASE StopAllForPause(g)
    BY <2>1, <2>5 DEF StopAllForPause, ToggleGoto
  <2>6. CASE SnapshotRunning(g) \/ HealOrphans(g)
    BY <2>1, <2>6 DEF SnapshotRunning, HealOrphans, ToggleGoto, memVars
  <2>7. CASE FlagResumed(g)
    BY <2>1, <2>7 DEF FlagResumed, ToggleGoto
  <2>8. QED BY <1>3, <2>2, <2>3, <2>4, <2>5, <2>6, <2>7 DEF SetPaused
<1>4. QED BY <1>1, <1>2, <1>3, Frames DEF ToggleFrame

\* Whenever the app crashes, what it would read back from the store is what the
\* user last asked for: the flag in memory, or the SetPaused under way.
THEOREM PauseIsMirrored ==
  ASSUME OneToggler
  PROVE  Spec => []PauseMirrored
<1>1. Init => SettingKnown /\ PauseMirrored
  BY FlagAssumption DEF Init, SettingKnown, PauseMirrored, Toggling, NoToggle
<1>2. TypeOK /\ SettingKnown /\ PauseMirrored /\ [Next]_vars => SettingKnown' /\ PauseMirrored'
  BY PauseMirroredStep
<1>3. QED BY <1>1, <1>2, TypeCorrect, PTL DEF Spec

RInv == IInv /\ LostClaim /\ ClicksOnRows /\ HealOnlyWhilePaused

\* The invariant behind the heal and the refinement.
LEMMA RefinementInvariant ==
  ASSUME OneToggler
  PROVE  Spec => []RInv
<1>1. Init => LostClaim /\ ClicksOnRows /\ HealOnlyWhilePaused
  BY DEF Init, LostClaim, ClicksOnRows, HealOnlyWhilePaused, NoClick, NoToggle
<1>2. IInv /\ LostClaim /\ ClicksOnRows /\ HealOnlyWhilePaused /\ [Next]_vars
        => LostClaim' /\ ClicksOnRows' /\ HealOnlyWhilePaused'
  BY LostClaimStep, ClicksOnRowsStep, HealOnlyWhilePausedStep DEF IInv
<1>3. QED BY <1>1, <1>2, Invariance, PTL DEF Spec, RInv

\* A row that is active and not in the snapshot of the running rows has no
\* goroutine behind it: the snapshot still covers every registration, and every
\* runner holds one.
LEMMA HealedAreIdle ==
  ASSUME RInv, NEW g \in Togglers, toggle[g].pc = "heal",
         NEW i \in Ids, state[i] = "active", i \notin toggle[g].keep
  PROVE  i \notin cancels /\ pc[i] = "idle" /\ cur # i
<1> USE DEF RInv, IInv
<1>1. i \notin cancels
  BY DEF HealOnlyWhilePaused
<1>2. pc[i] = "idle" /\ i \notin HeldByPump
  BY <1>1 DEF Ownership
<1>3. cur # i
  <2>1. pumpPc \in {"idle", "list", "scan"} => cur # i
    BY IdsAssumption DEF Snapshots
  <2>2. pumpPc = "tail" => cur # i
    BY DEF LostClaim
  <2>3. QED BY <1>2, <2>1, <2>2 DEF HeldByPump, TypeOK, PumpTypeOK
<1>4. QED BY <1>1, <1>2, <1>3

\* Resuming the queue requeues orphans only: no row with a goroutine behind it
\* is wound back to pending underneath it.
THEOREM HealsSpareRunners ==
  ASSUME OneToggler
  PROVE  Spec => HealSparesRunners
<1> DEFINE Spared == \A i \in Ids : state[i] = "active" /\ state'[i] = "pending"
                        /\ toggle' # toggle /\ launches' = launches
                        => pc[i] = "idle" /\ cur # i
<1>1. RInv /\ [Next]_vars => [Spared]_vars
  <2> SUFFICES ASSUME RInv, [Next]_vars, NEW i \in Ids, state[i] = "active", state'[i] = "pending",
                      toggle' # toggle, launches' = launches
               PROVE  pc[i] = "idle" /\ cur # i
    OBVIOUS
  <2>1. RowMove(i)
    BY RowMoves DEF RInv, IInv
  <2>2. ~EngineMove(i)
    BY DEF EngineMove, Moves, Restart, RequeueRow, Ladder, Complete, userVars
  <2>3. ASSUME NEW k \in Clickers PROVE ~UserMove(k, i)
    BY DEF UserMove, Moves, ResumeWrite, RetryFailed, Enqueue, userVars
  <2>4. ~Relaunch
    <3>1. launches \in Nat
      BY LaunchAssumption DEF RInv, IInv, TypeOK, WorldTypeOK
    <3>2. QED BY <3>1 DEF Relaunch
  <2>5. PICK g \in Togglers : HealMove(g, i)
    BY <2>1, <2>2, <2>3, <2>4 DEF RowMove
  <2>6. QED BY <2>5, HealedAreIdle DEF HealMove, HealOrphans
<1>2. QED BY RefinementInvariant, <1>1, PTL DEF Spec, HealSparesRunners

-----------------------------------------------------------------------------
(* Dispatcher implements TransferLifecycle. *)

\* The first launch has pending and absent rows, and holds none.
LEMMA InitRefines == Init => Lifecycle!Init
  BY RowAssumption DEF Init, Lifecycle!Init

\* The pump takes a row, starts it, or lets it go unstarted.
LEMMA PumpRefines ==
  ASSUME RInv, PumpRowStep
  PROVE  Lifecycle!Next
<1> USE DEF RInv, IInv, TypeOK, RowsTypeOK, PumpTypeOK, Snapshot
<1>1. CASE PumpRegister
  <2>1. PICK r \in todo : Free(r.id) /\ cancels' = cancels \cup {r.id}
    BY <1>1 DEF PumpRegister
  <2>2. r.id \in Ids
    BY <2>1
  <2>3. \A j \in cancels : FileOf[j] # FileOf[r.id]
    BY <2>1 DEF Free, FileLocks
  <2>4. UNCHANGED <<state, attempt>>
    BY <1>1 DEF PumpRegister, rowVars
  <2>5. Lifecycle!Take(r.id)
    BY <2>1, <2>3, <2>4 DEF Lifecycle!Take
  <2>6. QED BY <2>2, <2>5 DEF Lifecycle!Next
<1>2. CASE PumpClaim
  <2>1. cur \in Ids /\ cur \in cancels
    BY <1>2 DEF PumpClaim, Ownership, HeldByPump
  <2>2. Lifecycle!Start(cur)
    BY <1>2, <2>1 DEF PumpClaim, SetState, memVars, Lifecycle!Start, Lifecycle!Move
  <2>3. QED BY <2>1, <2>2 DEF Lifecycle!Next
<1>3. CASE PumpRelease
  <2>1. cur \in Ids /\ cur \in cancels
    BY <1>3 DEF PumpRelease, Ownership, HeldByPump
  <2>2. state[cur] # "active"
    BY <1>3 DEF PumpRelease, LostClaim
  <2>3. Lifecycle!LetGo(cur)
    BY <1>3, <2>1, <2>2 DEF PumpRelease, DropReservation, rowVars, Lifecycle!LetGo
  <2>4. QED BY <2>1, <2>3 DEF Lifecycle!Next
<1>4. QED BY <1>1, <1>2, <1>3 DEF PumpRowStep

\* A runner ends its run at most once, from an active row, and then lets go.
LEMMA RunnerRefines ==
  ASSUME RInv, NEW i \in Ids, RunnerRowStep(i)
  PROVE  Lifecycle!Next \/ RowsStand
<1> USE DEF RInv, IInv, TypeOK, RowsTypeOK, RunTypeOK, Lifecycle!Move, SetState
<1>1. pc[i] # "idle"
  BY DEF RunnerRowStep, Restart, Complete, RequeueRow, Ladder, Release
<1>2. i \in cancels
  BY <1>1 DEF Ownership
<1>3. state[i] = "active" => runAttempt[i] = attempt[i]
  BY <1>2 DEF Snapshots
<1>4. ASSUME NEW later, ScheduleRetry(i, later), state[i] = "active", AttemptsLeft(i),
             UNCHANGED cancels
      PROVE  Lifecycle!Retry(i)
  BY <1>2, <1>3, <1>4 DEF ScheduleRetry, AttemptsLeft, Lifecycle!Retry
<1>5. Restart(i) => Lifecycle!Retry(i) \/ RowsStand
  <2> SUFFICES ASSUME Restart(i) PROVE Lifecycle!Retry(i) \/ RowsStand OBVIOUS
  <2>1. AttemptsLeft(i) /\ UNCHANGED cancels
    BY DEF Restart, Snapshots, memVars
  <2>2. QED BY <1>4, <2>1 DEF Restart, rowVars, RowsStand
<1>6. Complete(i) => Lifecycle!Complete(i) \/ RowsStand
  BY <1>2 DEF Complete, memVars, RowsStand, Lifecycle!Complete
<1>7. RequeueRow(i) => Lifecycle!RequeueOwn(i) \/ RowsStand
  BY <1>2 DEF RequeueRow, CleanSlate, rowVars, memVars, RowsStand, Lifecycle!RequeueOwn,
     Lifecycle!Requeue
<1>8. Ladder(i) => Lifecycle!Retry(i) \/ Lifecycle!Fail(i) \/ RowsStand
  <2> SUFFICES ASSUME Ladder(i) PROVE Lifecycle!Retry(i) \/ Lifecycle!Fail(i) \/ RowsStand OBVIOUS
  <2>1. UNCHANGED cancels
    BY DEF Ladder, memVars
  <2>2. SetState(i, "failed") /\ UNCHANGED attempt /\ state[i] = "active" => Lifecycle!Fail(i)
    BY <1>2, <2>1 DEF Lifecycle!Fail
  <2>3. QED BY <1>4, <2>1, <2>2 DEF Ladder, rowVars, RowsStand
<1>9. Release(i) => Lifecycle!LetGo(i)
  <2> SUFFICES ASSUME Release(i) PROVE Lifecycle!LetGo(i) OBVIOUS
  <2>1. state[i] = "active" => DbErrors
    BY <1>2 DEF Release, ActiveOwned, InState, Ownership, HeldByPump
  <2>2. QED BY <1>2, <2>1 DEF Release, DropReservation, rowVars, Lifecycle!LetGo
<1>10. QED BY <1>5, <1>6, <1>7, <1>8, <1>9 DEF RunnerRowStep, Lifecycle!Next

\* The user's writes are the lifecycle's, and a heal takes rows nobody holds.
LEMMA CallsRefine ==
  ASSUME RInv
  PROVE  /\ \A k \in Clickers : ClickRowStep(k) => Lifecycle!Next
         /\ \A g \in Togglers : HealOrphans(g) => Lifecycle!Next
         /\ Relaunch => Lifecycle!Next
<1> USE DEF RInv, IInv, TypeOK, RowsTypeOK, Lifecycle!Move, SetState, InState
<1>1. ASSUME NEW k \in Clickers, ClickRowStep(k) PROVE Lifecycle!Next
  <2>1. ASSUME NEW i \in Ids, PauseWrite(k, i) PROVE Lifecycle!Pause(i)
    <3>1. state[i] # "none"
      BY <2>1 DEF PauseWrite, ClickOn, ClicksOnRows
    <3>2. QED BY <2>1, <3>1 DEF PauseWrite, memVars, Lifecycle!Pause
  <2>2. ASSUME NEW i \in Ids, ResumeWrite(k, i) PROVE Lifecycle!Resume(i)
    <3>1. state[i] # "none"
      BY <2>2 DEF ResumeWrite, ClickOn, ClicksOnRows
    <3>2. QED BY <2>2, <3>1 DEF ResumeWrite, memVars, Lifecycle!Resume
  <2>3. ASSUME NEW i \in Ids, Enqueue(k, i) PROVE Lifecycle!Enqueue(i)
    BY <2>3 DEF Enqueue, memVars, Lifecycle!Enqueue
  <2>4. ASSUME NEW S \in SUBSET Ids, MarkCancelled(k, S), \A i \in S : state[i] \in Cancellable
        PROVE  Lifecycle!Cancel(S)
    BY <2>4 DEF MarkCancelled, memVars, Cancellable, Unfinished, Lifecycle!Cancel
  <2>5. ASSUME NEW M \in SUBSET Ids, Cancel(k, M) PROVE \E S \in SUBSET Ids : Lifecycle!Cancel(S)
    BY <2>4, <2>5 DEF Cancel
  <2>6. CancelQueued(k) => \E S \in SUBSET Ids : Lifecycle!Cancel(S)
    BY <2>4 DEF CancelQueued, QueuedState, Cancellable, Unfinished
  <2>7. RetryFailed(k) => \E S \in SUBSET Ids : Lifecycle!RetryFailed(S)
    <3>1. ASSUME RetryFailed(k) PROVE Lifecycle!RetryFailed(InState("failed"))
      BY <3>1 DEF RetryFailed, CleanSlate, memVars, Lifecycle!RetryFailed, Lifecycle!Requeue
    <3>2. QED BY <3>1
  <2>8. QED BY <1>1, <2>1, <2>2, <2>3, <2>5, <2>6, <2>7 DEF ClickRowStep, Lifecycle!Next
<1>2. ASSUME NEW g \in Togglers, HealOrphans(g) PROVE Lifecycle!Next
  <2> DEFINE S == InState("active") \ toggle[g].keep
  <2>1. \A i \in S : i \notin cancels /\ state[i] = "active"
    BY <1>2, HealedAreIdle DEF HealOrphans
  <2>2. Lifecycle!Heal(S)
    BY <1>2, <2>1 DEF HealOrphans, CleanSlate, memVars, Lifecycle!Heal, Lifecycle!Requeue
  <2>3. QED BY <2>2 DEF Lifecycle!Next
<1>3. Relaunch => Lifecycle!Relaunch
  BY DEF Relaunch, CleanSlate, Lifecycle!Relaunch, Lifecycle!Requeue
<1>4. QED BY <1>1, <1>2, <1>3 DEF Lifecycle!Next

\* The dispatcher keeps what the queue promises about a row: one holder per
\* file, and every move of a row from a state the mover may take it from.
THEOREM Refinement ==
  ASSUME OneToggler
  PROVE  Spec => LifecycleSpec
<1>1. RInv /\ [Next]_vars => [Lifecycle!Next]_(Lifecycle!vars)
  <2> SUFFICES ASSUME RInv, [Next]_vars PROVE Lifecycle!Next \/ UNCHANGED Lifecycle!vars
    OBVIOUS
  <2>1. RowsStand => UNCHANGED Lifecycle!vars
    BY DEF RowsStand, Lifecycle!vars
  <2>2. RowStep => Lifecycle!Next \/ RowsStand
    BY PumpRefines, RunnerRefines, CallsRefine DEF RowStep
  <2>3. QED BY <2>1, <2>2, RowSteps
<1>2. QED BY InitRefines, <1>1, RefinementInvariant, PTL DEF Spec, LifecycleSpec, Lifecycle!Spec

-----------------------------------------------------------------------------
(* Stopping a run. *)

NoResume == "resume" \notin Ops
Settled == {"paused", "cancelled", "completed"}

\* The pump has registered the row, and has yet to claim it.
AtClaim(i) == pumpPc = "claim" /\ cur = i

\* No resume overtakes a stop of its row: none lands between the write of a
\* pause or a cancel and the stop that follows it, nor on a row the pump is
\* about to claim for a run that was stopped already.
ResumesInOrder ==
  \A k \in Clickers, i \in Ids :
    ResumeWrite(k, i) => /\ \A l \in Clickers : i \notin click[l].left
                         /\ i \in ctxDone => ~AtClaim(i)

\* A row a click is about to stop was settled by its write.
ClicksSettled == \A k \in Clickers : \A i \in click[k].left : state[i] \in Settled

\* A context ends because of a queue-wide pause, of shutdown, or of its row,
\* which is then no longer active and cannot be claimed.
StopsExplained ==
  /\ stopPc # "up" => stopping
  /\ \A i \in ctxDone :
       \/ i \in requeue \/ stopping
       \/ state[i] # "active" /\ (AtClaim(i) => state[i] \in Settled)

\* A run that ended because its context did reaches the ladder only when the
\* row is no longer its own; and a row fails in the ladder only.
StopsSettled ==
  \A i \in Ids :
    /\ pc[i] = "idle" => err[i] = "none"
    /\ err[i] \in StopErr => i \in ctxDone
    /\ pc[i] = "settleAgain" => state[i] # "active"
    /\ pc[i] = "ladder" /\ err[i] \in StopErr => state[i] # "active"
    /\ state[i] = "failed" => pc[i] \in {"idle", "release"} /\ ~(pumpPc = "spawn" /\ cur = i)

StopInv == ClicksSettled /\ StopsExplained /\ StopsSettled

\* Only a resume takes a settled row back.
LEMMA SettledOrResumed ==
  ASSUME TypeOK, [Next]_vars, NEW i \in Ids, state[i] \in Settled, state'[i] \notin Settled
  PROVE  \E k \in Clickers : ResumeWrite(k, i)
<1>1. RowMove(i)
  BY RowMoves
<1>2. QED BY <1>1 DEF RowMove, EngineMove, UserMove, HealMove, Moves, Settled

\* Only a click that has just settled a row has it left to stop.
LEMMA ClicksSettledStep ==
  ASSUME TypeOK, ClicksSettled, ResumesInOrder, [Next]_vars
  PROVE  ClicksSettled'
<1> USE DEF TypeOK, UserTypeOK, RowsTypeOK
<1> SUFFICES ASSUME NEW k \in Clickers
             PROVE  \A i \in click'[k].left : state'[i] \in Settled
  BY DEF ClicksSettled
<1>1. \A i \in click[k].left : state'[i] \in Settled
  BY SettledOrResumed DEF ClicksSettled, ResumesInOrder
<1>2. CASE click'[k] = click[k]
  BY <1>1, <1>2
<1>3. ASSUME NEW l \in Clickers, Click(l) \/ Follow(l), click'[k] # click[k]
      PROVE  \A i \in click'[k].left : state'[i] \in Settled
  <2>1. ~RetryFailed(l) /\ \A i \in Ids : ~Enqueue(l, i)
    BY <1>3 DEF RetryFailed, Enqueue, userVars
  <2>2. ASSUME NEW i \in Ids, ClickPause(l, i) \/ ClickResume(l, i)
        PROVE  click'[k].left = {}
    BY <1>3, <2>2 DEF ClickPause, ClickResume, ClickGoto
  <2>3. ASSUME NEW i \in Ids, PauseWrite(l, i)
        PROVE  click'[k].left = {i} /\ state'[i] = "paused"
    BY <1>3, <2>3 DEF PauseWrite, ClickGoto, SetState
  <2>4. ASSUME NEW i \in Ids, ResumeWrite(l, i) PROVE click'[k].left = {}
    BY <1>3, <2>4 DEF ResumeWrite, ClickDone, NoClick
  <2>5. ASSUME NEW marked \in SUBSET Ids, MarkCancelled(l, marked)
        PROVE  click'[k].left = marked /\ \A i \in marked : state'[i] = "cancelled"
    BY <1>3, <2>5 DEF MarkCancelled, ClickGoto
  <2>6. ASSUME NEW S \in SUBSET Ids, Cancel(l, S)
        PROVE  \A j \in click'[k].left : state'[j] = "cancelled"
    BY <2>5, <2>6 DEF Cancel
  <2>7. ASSUME CancelQueued(l)
        PROVE  \A j \in click'[k].left : state'[j] = "cancelled"
    BY <2>5, <2>7 DEF CancelQueued
  <2>8. ASSUME NEW i \in Ids, StopRow(l, i)
        PROVE  click'[k].left \subseteq click[k].left
    BY <1>3, <2>8 DEF StopRow, ClickGoto, ClickDone, NoClick
  <2>9. ASSUME SweepRead(l) \/ SweepIdle(l)
        PROVE  click'[k].left = {}
    BY <1>3, <2>9 DEF SweepRead, SweepIdle, ClickGoto, ClickDone, NoClick
  <2>10. QED BY <1>1, <1>3, <2>1, <2>2, <2>3, <2>4, <2>6, <2>7, <2>8, <2>9
         DEF Click, Follow, Settled
<1>4. CASE Relaunch
  BY <1>4 DEF Relaunch, NoClick
<1>5. QED BY <1>2, <1>3, <1>4, Frames DEF ClickFrame

StopFrame ==
  \/ UNCHANGED <<ctxDone, requeue, stopping, stopPc>>
  \/ PumpRelease \/ \E i \in Ids : Release(i)
  \/ \E k \in Clickers, i \in Ids : StopRow(k, i)
  \/ \E g \in Togglers : StopAllForPause(g)
  \/ BeginStop \/ StopAllForExit \/ AwaitStop \/ GraceExpires \/ Relaunch

\* The steps that end a context, mark a row or stop the app.
LEMMA StopFrames == ASSUME [Next]_vars PROVE StopFrame
<1> DEFINE Stands == UNCHANGED <<ctxDone, requeue, stopping, stopPc>>
<1>1. ASSUME NEW i \in Ids, BackoffElapses(i) PROVE Stands
  BY <1>1 DEF BackoffElapses, memVars, lifeVars
<1>2. ASSUME PumpEnter \/ PumpList \/ PumpReturn \/ PumpSkip \/ PumpLoseClaim \/ PumpTail
             \/ PumpSpawn \/ PumpClaim \/ PumpRegister
      PROVE  Stands
  BY <1>2 DEF PumpEnter, PumpList, PumpReturn, PumpSkip, PumpLoseClaim, PumpTail, PumpSpawn,
     PumpClaim, PumpRegister, memVars, lifeVars
<1>3. ASSUME NEW i \in Ids, Engine(i) PROVE Stands
  BY <1>3 DEF Engine, DialOk, DialFails, OpenPart, WriteBytes, PersistProgress, EngineSucceeds,
     EngineFails, ChunkStateLost, memVars, lifeVars
<1>4. ASSUME NEW i \in Ids, DropLostPart(i) \/ ResetLost(i) \/ Restart(i) \/ FinalProgress(i)
                            \/ Complete(i) \/ FinishFailed(i) \/ ReadMark(i) \/ RequeueRow(i)
                            \/ Ladder(i) \/ Discarded(i)
      PROVE  Stands
  BY <1>4 DEF DropLostPart, ResetLost, Restart, FinalProgress, Complete, FinishFailed, ReadMark,
     RequeueRow, Ladder, Discarded, memVars, lifeVars
<1>5. ASSUME NEW i \in Ids, FinishStopped(i) \/ SettleAgain(i) \/ Settle(i) \/ Tail(i) PROVE Stands
  BY <1>5 DEF FinishStopped, SettleAgain, Settle, SettleStopped, Tail, memVars, lifeVars
<1>6. ASSUME NEW a \in Kinds \X Ids, Discard(a) PROVE Stands
  BY <1>6 DEF Discard, DiscardRead, DiscardOwners, DiscardUnlink, DiscardFails, DiscardReset,
     memVars, lifeVars
<1>7. ASSUME NEW k \in Clickers, Click(k) PROVE Stands
  BY <1>7 DEF Click, ClickPause, ClickResume, Cancel, CancelQueued, MarkCancelled, Enqueue,
     RetryFailed, memVars, lifeVars
<1>8. ASSUME NEW k \in Clickers, NEW i \in Ids,
             PauseWrite(k, i) \/ ResumeWrite(k, i)
      PROVE  Stands
  BY <1>8 DEF PauseWrite, ResumeWrite, memVars, lifeVars
<1>9. ASSUME NEW k \in Clickers, SweepRead(k) \/ SweepIdle(k) PROVE Stands
  BY <1>9 DEF SweepRead, SweepIdle, memVars, lifeVars
<1>10. ASSUME NEW g \in Togglers, TogglePause(g) \/ PersistPause(g) \/ FlagPaused(g)
              \/ SnapshotRunning(g) \/ HealOrphans(g) \/ FlagResumed(g)
       PROVE  Stands
  BY <1>10 DEF TogglePause, PersistPause, FlagPaused, SnapshotRunning, HealOrphans, FlagResumed,
     memVars, lifeVars
<1>11. CASE UNCHANGED vars
  BY <1>11 DEF vars, memVars, lifeVars, StopFrame
<1> HIDE DEF Stands
<1>12. CASE Next
  <2> SUFFICES ASSUME ~Stands PROVE StopFrame
    BY DEF Stands, StopFrame
  <2>1. QED BY <1>12, <1>1, <1>2, <1>3, <1>4, <1>5, <1>6, <1>7, <1>8, <1>9, <1>10
        DEF Next, Pump, Unwind, Follow, SetPaused, StopFrame
<1>13. QED BY <1>11, <1>12

\* A row given up is not claimed while its stopped run is still registered.
LEMMA GivenUpStays ==
  ASSUME TypeOK, Ownership, ResumesInOrder, [Next]_vars, NEW i \in ctxDone,
         state[i] # "active", AtClaim(i) => state[i] \in Settled
  PROVE  state'[i] # "active" /\ (AtClaim(i)' => state'[i] \in Settled)
<1> USE DEF TypeOK, RowsTypeOK, MemTypeOK
<1>1. i \in Ids /\ i \in cancels
  BY DEF Ownership
<1>2. state'[i] # "active"
  <2>1. state'[i] = state[i] \/ RowMove(i)
    BY <1>1, RowMoves
  <2>2. PumpClaim => cur # i
    BY DEF PumpClaim, AtClaim, Settled
  <2>3. QED BY <2>1, <2>2 DEF RowMove, EngineMove, UserMove, HealMove, Moves
<1>3. ASSUME AtClaim(i)' PROVE AtClaim(i)
  <2>1. ~PumpRegister \/ cur' # i
    BY <1>1 DEF PumpRegister, Free
  <2>2. ~Relaunch
    BY <1>3 DEF Relaunch, AtClaim
  <2>3. Pump => PumpRegister
    BY <1>3 DEF Pump, PumpEnter, PumpList, PumpReturn, PumpSkip, PumpClaim, PumpLoseClaim,
       PumpRelease, PumpTail, PumpSpawn, AtClaim
  <2>4. QED BY <1>3, <2>1, <2>2, <2>3, Frames DEF PumpFrame, pumpVars, AtClaim
<1>4. ASSUME AtClaim(i)' PROVE state'[i] \in Settled
  BY <1>1, <1>3, <1>4, SettledOrResumed DEF ResumesInOrder
<1>5. QED BY <1>2, <1>4

\* Whoever ends a context leaves the reason behind.
LEMMA StopsExplainedStep ==
  ASSUME TypeOK, Ownership, ClicksSettled, StopsExplained, ResumesInOrder, [Next]_vars
  PROVE  StopsExplained'
<1> DEFINE GivenUp(i) == state[i] # "active" /\ (AtClaim(i) => state[i] \in Settled)
<1> USE DEF StopsExplained
<1>1. ASSUME NEW i \in ctxDone, GivenUp(i) PROVE GivenUp(i)'
  BY <1>1, GivenUpStays
<1>2. ctxDone \subseteq Ids /\ \A i \in Ids : state[i] \in Settled => state[i] # "active"
  BY DEF TypeOK, MemTypeOK, Settled
<1>3. CASE UNCHANGED <<ctxDone, requeue, stopping, stopPc>>
  BY <1>1, <1>2, <1>3
<1>4. ASSUME PumpRelease \/ \E i \in Ids : Release(i) PROVE StopsExplained'
  <2>1. UNCHANGED <<stopping, stopPc>>
    BY <1>4 DEF PumpRelease, Release, DropReservation, lifeVars
  <2>2. \E x : ctxDone' = ctxDone \ {x} /\ requeue' = requeue \ {x}
    BY <1>4 DEF PumpRelease, Release, DropReservation
  <2>3. QED BY <1>1, <2>1, <2>2
<1>5. ASSUME NEW k \in Clickers, NEW i \in Ids, StopRow(k, i) PROVE StopsExplained'
  <2>1. state'[i] \in Settled /\ UNCHANGED <<requeue, stopping, stopPc>>
    BY <1>5 DEF StopRow, ClicksSettled, rowVars, lifeVars
  <2>2. ctxDone' \subseteq ctxDone \cup {i}
    BY <1>5 DEF StopRow
  <2>3. QED BY <1>1, <2>1, <2>2 DEF Settled
<1>6. ASSUME NEW g \in Togglers, StopAllForPause(g) PROVE StopsExplained'
  BY <1>6 DEF StopAllForPause, lifeVars
<1>7. ASSUME BeginStop \/ StopAllForExit \/ AwaitStop \/ GraceExpires PROVE StopsExplained'
  BY <1>7, <1>1, <1>2 DEF BeginStop, StopAllForExit, AwaitStop, GraceExpires, memVars
<1>8. CASE Relaunch
  BY <1>8 DEF Relaunch
<1>9. QED BY <1>3, <1>4, <1>5, <1>6, <1>7, <1>8, StopFrames DEF StopFrame

\* What may become of the program counter and the error of one runner.
RunnerMoves(i) ==
  \/ UNCHANGED <<pc[i], err[i]>>
  \/ PumpSpawn /\ cur = i /\ pc'[i] = "dial" /\ err'[i] = err[i]
  \/ Engine(i) \/ Unwind(i)
  \/ Relaunch /\ pc'[i] = "idle" /\ err'[i] = "none"

\* A runner is moved by its own steps, by its spawning and by the end of the
\* process.
LEMMA RunnersMove ==
  ASSUME TypeOK, [Next]_vars, NEW i \in Ids
  PROVE  RunnerMoves(i)
<1> USE DEF TypeOK, RunTypeOK, PumpTypeOK, RunnerMoves
<1>1. CASE UNCHANGED <<pc, err>>
  BY <1>1
<1>2. CASE PumpSpawn
  BY <1>2 DEF PumpSpawn
<1>3. CASE Relaunch
  BY <1>3 DEF Relaunch
<1>4. ASSUME NEW j \in Ids, j # i, Engine(j) PROVE UNCHANGED <<pc[i], err[i]>>
  BY <1>4 DEF Engine, DialOk, DialFails, OpenPart, WriteBytes, PersistProgress, EngineSucceeds,
     EngineFails, ChunkStateLost, Goto, Fail, runVars
<1>5. ASSUME NEW j \in Ids, j # i, DropLostPart(j) \/ ResetLost(j) \/ Restart(j) \/ FinalProgress(j)
                            \/ Complete(j) \/ FinishFailed(j) \/ ReadMark(j) \/ RequeueRow(j)
                            \/ Ladder(j) \/ Discarded(j)
      PROVE  UNCHANGED <<pc[i], err[i]>>
  BY <1>5 DEF DropLostPart, ResetLost, Restart, FinalProgress, Complete, FinishFailed, ReadMark,
     RequeueRow, Ladder, Discarded, Goto, Fail
<1>6. ASSUME NEW j \in Ids, j # i, FinishStopped(j) \/ SettleAgain(j) \/ Settle(j)
      PROVE  UNCHANGED <<pc[i], err[i]>>
  BY <1>6 DEF FinishStopped, SettleAgain, Settle, SettleStopped, Goto
<1>7. ASSUME NEW j \in Ids, j # i, Release(j) PROVE UNCHANGED <<pc[i], err[i]>>
  BY <1>7 DEF Release, Goto
<1>8. ASSUME NEW j \in Ids, Engine(j) \/ Unwind(j) PROVE RunnerMoves(i)
  BY <1>4, <1>5, <1>6, <1>7, <1>8 DEF Unwind
<1>9. QED BY <1>1, <1>2, <1>3, <1>8, Frames DEF RunnerFrame

\* A context that has ended stays ended until its runner releases the row.
LEMMA EndedStaysEnded ==
  ASSUME TypeOK, Ownership, [Next]_vars, NEW i \in Ids, i \in ctxDone, pc[i] # "idle", pc'[i] # "idle"
  PROVE  i \in ctxDone'
<1> USE DEF TypeOK, RunTypeOK
<1>1. i \in cancels
  BY DEF Ownership
<1>2. ~Relaunch
  BY DEF Relaunch
<1>3. PumpRelease => i \in ctxDone'
  BY DEF PumpRelease, DropReservation, Ownership, HeldByPump
<1>4. \A j \in Ids : Release(j) => i \in ctxDone'
  BY DEF Release, DropReservation, Goto
<1>5. \A k \in Clickers, j \in Ids : StopRow(k, j) => i \in ctxDone'
  BY DEF StopRow
<1>6. \A g \in Togglers : StopAllForPause(g) => i \in ctxDone'
  BY <1>1 DEF StopAllForPause
<1>7. BeginStop \/ StopAllForExit \/ AwaitStop \/ GraceExpires => i \in ctxDone'
  BY <1>1 DEF BeginStop, StopAllForExit, AwaitStop, GraceExpires, memVars
<1>8. QED BY <1>2, <1>3, <1>4, <1>5, <1>6, <1>7, StopFrames DEF StopFrame

\* What a runner does on the way to the ladder, whose errors it carries there,
\* and that nobody else fails its row.
LEMMA StopsSettledStep ==
  ASSUME TypeOK, Ownership, StopsExplained, StopsSettled, [Next]_vars
  PROVE  StopsSettled'
<1> USE DEF TypeOK, RunTypeOK, RowsTypeOK, PumpTypeOK
<1> SUFFICES ASSUME NEW i \in Ids
             PROVE  /\ pc'[i] = "idle" => err'[i] = "none"
                    /\ err'[i] \in StopErr => i \in ctxDone'
                    /\ pc'[i] = "settleAgain" => state'[i] # "active"
                    /\ pc'[i] = "ladder" /\ err'[i] \in StopErr => state'[i] # "active"
                    /\ state'[i] = "failed" => /\ pc'[i] \in {"idle", "release"}
                                               /\ ~(pumpPc' = "spawn" /\ cur' = i)
  BY DEF StopsSettled
<1>1. state'[i] = state[i] \/ RowMove(i)
  BY RowMoves
<1>2. pc[i] # "idle" /\ state[i] # "active" => state'[i] # "active"
  <2>1. PumpClaim => pc[cur] = "idle"
    BY DEF PumpClaim, Ownership, HeldByPump
  <2>2. QED BY <1>1, <2>1 DEF RowMove, EngineMove, UserMove, HealMove, Moves
<1>3. state'[i] = "failed" => state[i] = "failed" \/ (Ladder(i) /\ pc'[i] = "release" /\ pc[i] # "idle")
  <2>1. Ladder(i) /\ state'[i] = "failed" /\ state[i] = "active" => pc'[i] = "release" /\ pc[i] # "idle"
    BY DEF Ladder, Goto, rowVars
  <2>2. QED BY <1>1, <2>1 DEF RowMove, EngineMove, UserMove, HealMove, Moves
<1>4. pumpPc' = "spawn" /\ cur' = i => (pumpPc = "spawn" /\ cur = i) \/ (PumpClaim /\ cur = i)
  <2>1. Pump => (pumpPc' = "spawn" => PumpClaim)
    BY DEF Pump, PumpEnter, PumpList, PumpReturn, PumpSkip, PumpRegister, PumpClaim,
       PumpLoseClaim, PumpRelease, PumpTail, PumpSpawn
  <2>2. QED BY <2>1, Frames DEF PumpFrame, pumpVars, PumpClaim, Relaunch
<1>5. PumpClaim /\ cur = i => state'[i] = "active"
  BY DEF PumpClaim, SetState
<1>6. i \in ctxDone /\ pc[i] # "idle" /\ pc'[i] # "idle" => i \in ctxDone'
  BY EndedStaysEnded
<1>7. state'[i] = "failed" => ~(pumpPc' = "spawn" /\ cur' = i)
  BY <1>3, <1>4, <1>5 DEF StopsSettled, Ownership, HeldByPump
<1>8. CASE UNCHANGED <<pc[i], err[i]>>
  <2>1. err'[i] \in StopErr => i \in ctxDone'
    BY <1>6, <1>8 DEF StopsSettled, StopErr
  <2>2. pc[i] = "ladder" => ~(Ladder(i) /\ pc'[i] = "release")
    BY <1>8
  <2>3. QED BY <1>2, <1>3, <1>7, <1>8, <2>1, <2>2 DEF StopsSettled
<1>9. CASE PumpSpawn /\ cur = i /\ pc'[i] = "dial" /\ err'[i] = err[i]
  <2>1. pc[i] = "idle" /\ pumpPc = "spawn"
    BY <1>9 DEF PumpSpawn, Ownership, HeldByPump
  <2>2. state'[i] = state[i]
    BY <1>9 DEF PumpSpawn, rowVars
  <2>3. QED BY <1>9, <2>1, <2>2 DEF StopsSettled, StopErr
<1>10. CASE pc'[i] = "idle" /\ err'[i] = "none"
  BY <1>7, <1>10 DEF StopErr
<1>11. ASSUME Engine(i) PROVE state'[i] = state[i] /\ pc[i] \in EnginePc
                              /\ pc'[i] \notin {"idle", "settleAgain", "ladder"}
  BY <1>11 DEF Engine, DialOk, DialFails, OpenPart, WriteBytes, PersistProgress, EngineSucceeds,
     EngineFails, ChunkStateLost, Goto, Fail, Writing, EnginePc, rowVars, runVars
<1>12. ASSUME Engine(i) PROVE err'[i] = err[i] \/ err'[i] \in EngineErr(i)
  BY <1>12 DEF Engine, DialOk, DialFails, OpenPart, WriteBytes, PersistProgress, EngineSucceeds,
     EngineFails, ChunkStateLost, Fail, runVars
<1>13. CASE Engine(i)
  <2>1. err'[i] \in StopErr => i \in ctxDone
    BY <1>12, <1>13 DEF StopsSettled, EngineErr, StopErr
  <2>2. QED BY <1>6, <1>7, <1>11, <1>13, <2>1 DEF StopsSettled, EnginePc
<1>14. ASSUME Unwind(i), ~Release(i)
       PROVE  /\ pc[i] # "idle" /\ pc'[i] # "idle"
              /\ err'[i] = err[i] \/ err'[i] = "fatal"
  <2> DEFINE Ran == pc[i] # "idle" /\ pc'[i] # "idle" /\ err'[i] = err[i]
  <2>1. ASSUME DropLostPart(i) \/ ResetLost(i)
        PROVE  Ran \/ (pc[i] # "idle" /\ pc'[i] # "idle" /\ err'[i] = "fatal")
    BY <2>1 DEF DropLostPart, ResetLost, Goto, Fail
  <2>2. Restart(i) => Ran
    BY DEF Restart, Goto
  <2>3. FinalProgress(i) \/ Complete(i) \/ FinishFailed(i) \/ ReadMark(i) \/ Discarded(i) => Ran
    BY DEF FinalProgress, Complete, FinishFailed, ReadMark, Discarded, Goto
  <2>4. RequeueRow(i) \/ Ladder(i) => Ran
    BY DEF RequeueRow, Ladder, Goto
  <2>5. FinishStopped(i) \/ SettleAgain(i) \/ Settle(i) => Ran
    BY DEF FinishStopped, SettleAgain, Settle, SettleStopped, Goto
  <2>6. QED BY <1>14, <2>1, <2>2, <2>3, <2>4, <2>5 DEF Unwind
<1>15. ASSUME Unwind(i), pc'[i] = "settleAgain" PROVE state'[i] # "active"
  <2>1. RequeueRow(i) /\ state[i] # "active"
    <3>1. ~DropLostPart(i) /\ ~ResetLost(i) /\ ~Restart(i) /\ ~FinalProgress(i) /\ ~Complete(i)
          /\ ~FinishFailed(i) /\ ~ReadMark(i) /\ ~Ladder(i) /\ ~Discarded(i) /\ ~Release(i)
      BY <1>15 DEF DropLostPart, ResetLost, Restart, FinalProgress, Complete, FinishFailed, ReadMark,
         Ladder, Discarded, Release, Goto, Fail
    <3>2. ~FinishStopped(i) /\ ~SettleAgain(i) /\ ~Settle(i)
      BY <1>15 DEF FinishStopped, SettleAgain, Settle, SettleStopped, Goto
    <3>3. QED BY <1>15, <3>1, <3>2 DEF Unwind, RequeueRow, Goto
  <2>2. QED BY <1>2, <2>1 DEF RequeueRow
<1>16. ASSUME Unwind(i), pc'[i] = "ladder", err'[i] \in StopErr PROVE state'[i] # "active"
  <2>1. err[i] \in StopErr /\ i \in ctxDone
    <3>1. ~Release(i)
      BY <1>16 DEF Release, Goto
    <3>2. QED BY <1>14, <1>16, <3>1 DEF StopErr, StopsSettled
  <2>2. ReadMark(i) \/ SettleAgain(i)
    <3>1. ~DropLostPart(i) /\ ~ResetLost(i) /\ ~Restart(i) /\ ~FinalProgress(i) /\ ~Complete(i)
          /\ ~FinishFailed(i) /\ ~RequeueRow(i) /\ ~Ladder(i) /\ ~Discarded(i) /\ ~Release(i)
      BY <1>16, <2>1 DEF DropLostPart, ResetLost, Restart, FinalProgress, Complete, FinishFailed,
         RequeueRow, Ladder, Discarded, Release, Goto, Fail
    <3>2. ~FinishStopped(i) /\ ~Settle(i)
      BY <1>16 DEF FinishStopped, Settle, SettleStopped, Goto
    <3>3. QED BY <1>16, <3>1, <3>2 DEF Unwind
  <2>3. ReadMark(i) => state[i] # "active" /\ pc[i] # "idle"
    BY <1>16, <2>1 DEF ReadMark, Goto, StopsExplained
  <2>4. ~SettleAgain(i)
    BY <1>16 DEF SettleAgain, SettleStopped, Goto, StopsSettled
  <2>5. QED BY <1>2, <2>2, <2>3, <2>4
<1>17. CASE Unwind(i) /\ ~Release(i)
  <2>1. err'[i] \in StopErr => i \in ctxDone'
    BY <1>6, <1>14, <1>17 DEF StopsSettled, StopErr
  <2>2. state[i] = "failed" => FALSE
    <3>1. state[i] = "failed" => pc[i] = "release"
      BY <1>14, <1>17 DEF StopsSettled
    <3>2. pc[i] # "release"
      <4>1. \/ /\ ~DropLostPart(i) /\ ~ResetLost(i) /\ ~Restart(i) /\ ~FinalProgress(i) /\ ~Complete(i)
               /\ ~FinishFailed(i) /\ ~ReadMark(i) /\ ~RequeueRow(i) /\ ~Ladder(i) /\ ~Discarded(i)
            \/ pc[i] # "release"
        BY DEF DropLostPart, ResetLost, Restart, FinalProgress, Complete, FinishFailed, ReadMark,
           RequeueRow, Ladder, Discarded
      <4>2. (FinishStopped(i) \/ SettleAgain(i) \/ Settle(i)) => pc[i] # "release"
        BY DEF FinishStopped, SettleAgain, Settle
      <4>3. QED BY <1>17, <4>1, <4>2 DEF Unwind
    <3>3. QED BY <3>1, <3>2
  <2>3. state'[i] = "failed" => pc'[i] = "release"
    BY <1>3, <2>2
  <2>4. QED BY <1>7, <1>14, <1>15, <1>16, <1>17, <2>1, <2>3
<1>18. CASE Release(i)
  BY <1>7, <1>18 DEF Release, Goto, StopErr
<1>19. QED BY <1>8, <1>9, <1>10, <1>13, <1>17, <1>18, RunnersMove DEF RunnerMoves

\* A step that changes nothing is not a resume.
LEMMA StutterInOrder ==
  ASSUME TypeOK, UNCHANGED vars
  PROVE  ResumesInOrder
BY DEF ResumesInOrder, ResumeWrite, ClickDone, NoClick, vars, userVars, TypeOK, UserTypeOK

\* The invariant behind StopIsNotFailure.
LEMMA StopInvariant == Spec /\ [][ResumesInOrder]_vars => []StopInv
<1>1. Init => StopInv
  BY DEF Init, StopInv, ClicksSettled, StopsExplained, StopsSettled, NoClick, StopErr
<1>2. IInv /\ StopInv /\ [Next]_vars /\ [ResumesInOrder]_vars => StopInv'
  <2>1. IInv /\ StopInv /\ [Next]_vars /\ ResumesInOrder => StopInv'
    BY ClicksSettledStep, StopsExplainedStep, StopsSettledStep DEF StopInv, IInv
  <2>2. QED BY <2>1, StutterInOrder DEF IInv
<1>3. QED BY <1>1, <1>2, Invariance, PTL DEF Spec

\* A run that a pause, a cancel or a shutdown has ended neither fails its row
\* nor spends an attempt, unless a resume of that row overtakes the stop: then
\* the pump claims the row for the run that is being stopped, and the stop
\* counts as a failure.
THEOREM StopsAreNotFailures == Spec /\ [][ResumesInOrder]_vars => StopIsNotFailure
<1> DEFINE Unfailed == \A i \in Ids : err[i] \in StopErr /\ pc[i] = "ladder"
                          => state'[i] # "failed" /\ attempt'[i] <= attempt[i]
<1>1. IInv /\ StopInv /\ [Next]_vars => [Unfailed]_vars
  <2> SUFFICES ASSUME IInv, StopInv, [Next]_vars, NEW i \in Ids, err[i] \in StopErr, pc[i] = "ladder"
               PROVE  state'[i] # "failed" /\ attempt'[i] <= attempt[i]
    OBVIOUS
  <2> USE DEF IInv, StopInv, TypeOK, RowsTypeOK, PumpTypeOK
  <2>1. state[i] \notin {"active", "failed"}
    BY DEF StopsSettled
  <2>2. state'[i] # "failed"
    <3>1. state'[i] = state[i] \/ RowMove(i)
      BY RowMoves
    <3>2. QED BY <2>1, <3>1 DEF RowMove, EngineMove, UserMove, HealMove, Moves
  <2>3. attempt'[i] <= attempt[i]
    <3>1. attempt[i] \in Nat
      OBVIOUS
    <3>2. ASSUME NEW S, CleanSlate(S) PROVE attempt'[i] <= attempt[i]
      BY <3>1, <3>2 DEF CleanSlate
    <3>3. UNCHANGED attempt => attempt'[i] <= attempt[i]
      BY <3>1
    <3>4. RowsStand => attempt'[i] <= attempt[i]
      BY DEF RowsStand
    <3>5. PumpRowStep => attempt'[i] <= attempt[i]
      BY DEF PumpRowStep, PumpRegister, PumpClaim, PumpRelease, rowVars
    <3>6. ASSUME NEW j \in Ids, RunnerRowStep(j) PROVE attempt'[i] <= attempt[i]
      <4>1. CASE Restart(j)
        BY <2>1, <4>1 DEF Restart, ScheduleRetry, rowVars
      <4>2. CASE Complete(j) \/ Release(j)
        BY <4>2 DEF Complete, Release, rowVars
      <4>3. CASE RequeueRow(j)
        BY <3>2, <3>3, <4>3 DEF RequeueRow, rowVars
      <4>4. CASE Ladder(j)
        BY <2>1, <4>4 DEF Ladder, ScheduleRetry, rowVars
      <4>5. QED BY <3>6, <4>1, <4>2, <4>3, <4>4 DEF RunnerRowStep
    <3>7. ASSUME NEW k \in Clickers, ClickRowStep(k) PROVE attempt'[i] <= attempt[i]
      BY <3>2, <3>3, <3>7 DEF ClickRowStep, PauseWrite, ResumeWrite, Cancel, CancelQueued,
         MarkCancelled, Enqueue, RetryFailed
    <3>8. ASSUME NEW g \in Togglers, HealOrphans(g) PROVE attempt'[i] <= attempt[i]
      BY <3>8 DEF HealOrphans, CleanSlate
    <3>9. Relaunch => attempt'[i] <= attempt[i]
      BY DEF Relaunch, CleanSlate
    <3>10. QED BY <3>4, <3>5, <3>6, <3>7, <3>8, <3>9, RowSteps DEF RowStep
  <2>4. QED BY <2>2, <2>3
<1>2. QED BY Invariance, StopInvariant, <1>1, PTL DEF Spec, StopIsNotFailure

NobodyResumes == \A k \in Clickers : click[k].pc # "resume"

\* Where no button resumes a single row, no resume is ever under way.
LEMMA NobodyResumesInvariant ==
  ASSUME NoResume
  PROVE  Spec => []NobodyResumes
<1>1. Init => NobodyResumes
  BY DEF Init, NobodyResumes, NoClick
<1>2. TypeOK /\ NobodyResumes /\ [Next]_vars => NobodyResumes'
  <2> SUFFICES ASSUME TypeOK, NobodyResumes, [Next]_vars, NEW k \in Clickers
               PROVE  click'[k].pc # "resume"
    BY DEF NobodyResumes
  <2> USE DEF TypeOK, UserTypeOK
  <2>1. CASE UNCHANGED click
    BY <2>1 DEF NobodyResumes
  <2>2. ASSUME NEW l \in Clickers, Click(l) \/ Follow(l) PROVE click'[k].pc # "resume"
    <3>1. \A i \in Ids : ~ClickResume(l, i) /\ ~ResumeWrite(l, i)
      BY DEF ClickResume, ResumeWrite, NobodyResumes, NoResume
    <3>2. QED BY <2>2, <3>1 DEF NobodyResumes, Click, Follow, ClickPause, Cancel, CancelQueued,
          MarkCancelled, Enqueue, RetryFailed, PauseWrite, StopRow, SweepRead, SweepIdle, ClickGoto,
          ClickDone, NoClick, userVars
  <2>3. CASE Relaunch
    BY <2>3 DEF Relaunch, NoClick
  <2>4. QED BY <2>1, <2>2, <2>3, Frames DEF ClickFrame
<1>3. QED BY <1>1, <1>2, TypeCorrect, PTL DEF Spec

\* So the users of an instance without that button see no such failure.
COROLLARY StopsWithoutResumes ==
  ASSUME NoResume
  PROVE  Spec => StopIsNotFailure
<1>1. NobodyResumes => ResumesInOrder
  BY DEF NobodyResumes, ResumesInOrder, ResumeWrite
<1>2. Spec => [][ResumesInOrder]_vars
  BY <1>1, NobodyResumesInvariant, PTL
<1>3. QED BY <1>2, StopsAreNotFailures

-----------------------------------------------------------------------------
(* Discards. *)

\* A runner that has made its last write, or none at all.
Resting(i) == pc[i] \in {"idle", "release"} /\ ~(pumpPc = "spawn" /\ cur = i)

\* Nothing but a claim puts a resting row back to work.
LEMMA RestingStays ==
  ASSUME TypeOK, [Next]_vars, NEW i \in Ids, Resting(i), ~(PumpClaim /\ cur = i)
  PROVE  Resting(i)'
<1> USE DEF Resting, TypeOK, RunTypeOK, PumpTypeOK
<1>1. ~(pumpPc' = "spawn" /\ cur' = i)
  <2>1. Pump => (pumpPc' = "spawn" => PumpClaim /\ cur' = cur)
    BY DEF Pump, PumpEnter, PumpList, PumpReturn, PumpSkip, PumpRegister, PumpClaim,
       PumpLoseClaim, PumpRelease, PumpTail, PumpSpawn
  <2>2. QED BY <2>1, Frames DEF PumpFrame, pumpVars, Relaunch
<1>2. ~Engine(i)
  BY DEF Engine, DialOk, DialFails, OpenPart, WriteBytes, PersistProgress, EngineSucceeds,
     EngineFails, ChunkStateLost, Writing
<1>3. Unwind(i) => pc'[i] = "idle"
  <2>1. ~DropLostPart(i) /\ ~ResetLost(i) /\ ~Restart(i) /\ ~FinalProgress(i) /\ ~Complete(i)
        /\ ~FinishFailed(i) /\ ~ReadMark(i) /\ ~RequeueRow(i) /\ ~Ladder(i) /\ ~Discarded(i)
    BY DEF DropLostPart, ResetLost, Restart, FinalProgress, Complete, FinishFailed, ReadMark,
       RequeueRow, Ladder, Discarded
  <2>2. ~FinishStopped(i) /\ ~SettleAgain(i) /\ ~Settle(i)
    BY DEF FinishStopped, SettleAgain, Settle
  <2>3. QED BY <2>1, <2>2 DEF Unwind, Release, Goto
<1>4. ~(PumpSpawn /\ cur = i)
  BY DEF PumpSpawn
<1>5. QED BY <1>1, <1>2, <1>3, <1>4, RunnersMove DEF RunnerMoves

DiscardStarter ==
  \/ PumpTail \/ Relaunch
  \/ \E i \in Ids : FinishStopped(i) \/ SettleAgain(i) \/ Settle(i) \/ Tail(i)
  \/ \E k \in Clickers : SweepIdle(k)
DiscardFrame ==
  \/ UNCHANGED disc
  \/ \E a \in Kinds \X Ids : Discard(a)
  \/ /\ DiscardStarter
     /\ UNCHANGED <<hasBytes, part>>
     /\ \A a \in Kinds \X Ids : disc'[a] \in {disc[a], "idle", "read"}

\* A discard is started from its beginning; the rest of it is its own doing.
LEMMA DiscardFrames == ASSUME TypeOK, [Next]_vars PROVE DiscardFrame
<1> USE DEF TypeOK, WorldTypeOK
<1> DEFINE Started == /\ DiscardStarter
                     /\ UNCHANGED <<hasBytes, part>>
                     /\ \A a \in Kinds \X Ids : disc'[a] \in {disc[a], "idle", "read"}
<1>1. ASSUME NEW i \in Ids, BackoffElapses(i) PROVE UNCHANGED disc
  BY <1>1 DEF BackoffElapses
<1>2. ASSUME PumpEnter \/ PumpList \/ PumpReturn \/ PumpSkip \/ PumpLoseClaim \/ PumpSpawn
             \/ PumpClaim \/ PumpRegister \/ PumpRelease
      PROVE  UNCHANGED disc
  BY <1>2 DEF PumpEnter, PumpList, PumpReturn, PumpSkip, PumpLoseClaim, PumpSpawn,
     PumpClaim, PumpRegister, PumpRelease
<1>3. ASSUME PumpTail PROVE Started
  BY <1>3 DEF PumpTail, StartSweep, rowVars, DiscardStarter
<1>4. ASSUME NEW i \in Ids, Engine(i) PROVE UNCHANGED disc
  BY <1>4 DEF Engine, DialOk, DialFails, OpenPart, WriteBytes, PersistProgress, EngineSucceeds,
     EngineFails, ChunkStateLost
<1>5. ASSUME NEW i \in Ids, DropLostPart(i) \/ ResetLost(i) \/ Restart(i) \/ FinalProgress(i)
                            \/ Complete(i) \/ FinishFailed(i) \/ ReadMark(i) \/ RequeueRow(i)
                            \/ Ladder(i) \/ Discarded(i) \/ Release(i)
      PROVE  UNCHANGED disc
  BY <1>5 DEF DropLostPart, ResetLost, Restart, FinalProgress, Complete, FinishFailed, ReadMark,
     RequeueRow, Ladder, Discarded, Release
<1>6. ASSUME NEW i \in Ids, FinishStopped(i) \/ SettleAgain(i) \/ Settle(i) PROVE Started
  BY <1>6 DEF FinishStopped, SettleAgain, Settle, SettleStopped, rowVars, DiscardStarter
<1>7. ASSUME NEW i \in Ids, Tail(i) PROVE Started
  BY <1>7 DEF Tail, StartSweep, rowVars, DiscardStarter
<1>8. ASSUME NEW k \in Clickers, Click(k) PROVE UNCHANGED disc
  BY <1>8 DEF Click, ClickPause, ClickResume, Cancel, CancelQueued, MarkCancelled, Enqueue,
     RetryFailed
<1>9. ASSUME NEW k \in Clickers, NEW i \in Ids,
             PauseWrite(k, i) \/ ResumeWrite(k, i) \/ StopRow(k, i)
      PROVE  UNCHANGED disc
  BY <1>9 DEF PauseWrite, ResumeWrite, StopRow
<1>10. ASSUME NEW k \in Clickers, SweepRead(k) PROVE UNCHANGED disc
  BY <1>10 DEF SweepRead
<1>11. ASSUME NEW k \in Clickers, SweepIdle(k) PROVE Started
  BY <1>11 DEF SweepIdle, StartSweep, rowVars, DiscardStarter
<1>12. ASSUME NEW g \in Togglers, TogglePause(g) \/ SetPaused(g) PROVE UNCHANGED disc
  BY <1>12 DEF TogglePause, SetPaused, PersistPause, FlagPaused, StopAllForPause, SnapshotRunning,
     HealOrphans, FlagResumed
<1>13. ASSUME BeginStop \/ StopAllForExit \/ AwaitStop \/ GraceExpires PROVE UNCHANGED disc
  BY <1>13 DEF BeginStop, StopAllForExit, AwaitStop, GraceExpires
<1>14. ASSUME Relaunch PROVE Started
  BY <1>14 DEF Relaunch, CleanSlate, IdleDiscards, DiscardStarter
<1>15. UNCHANGED vars => UNCHANGED disc
  BY DEF vars
<1> HIDE DEF Started
<1>16. Started => DiscardFrame
  BY DEF Started, DiscardFrame
<1>17. UNCHANGED disc \/ Started \/ \E a \in Kinds \X Ids : Discard(a)
  BY <1>1, <1>2, <1>3, <1>4, <1>5, <1>6, <1>7, <1>8, <1>9, <1>10, <1>11, <1>12, <1>13, <1>14, <1>15
  DEF Next, Pump, Unwind, Follow
<1>18. QED BY <1>16, <1>17 DEF DiscardFrame

\* Once Stop has begun the discards it will wait for only grow fewer: whoever
\* would start another is refused.
LEMMA SweepsRefused ==
  ASSUME TypeOK, stopping, [Next]_vars, ~Relaunch
  PROVE  Sweeping' \subseteq Sweeping
<1> USE DEF TypeOK, WorldTypeOK, Sweeping, Kinds
<1>1. CASE UNCHANGED disc
  BY <1>1
<1>2. ASSUME NEW a \in Kinds \X Ids, Discard(a) PROVE Sweeping' \subseteq Sweeping
  BY <1>2 DEF Discard, DiscardRead, DiscardOwners, DiscardUnlink, DiscardFails, DiscardReset,
     DiscardGoto
<1>3. ASSUME NEW i \in Ids, FinishStopped(i) \/ SettleAgain(i) \/ Settle(i)
      PROVE  Sweeping' \subseteq Sweeping
  BY <1>3 DEF FinishStopped, SettleAgain, Settle, SettleStopped
<1>4. PumpTail => Sweeping' \subseteq Sweeping
  BY DEF PumpTail, StartSweep
<1>5. ASSUME NEW i \in Ids, Tail(i) PROVE Sweeping' \subseteq Sweeping
  BY <1>5 DEF Tail, StartSweep
<1>6. ASSUME NEW k \in Clickers, SweepIdle(k) PROVE Sweeping' \subseteq Sweeping
  BY <1>6 DEF SweepIdle, StartSweep
<1>7. QED BY <1>1, <1>2, <1>3, <1>4, <1>5, <1>6, DiscardFrames DEF DiscardFrame, DiscardStarter

\* When Stop has returned no discard is under way, on however many rows and
\* whoever owed one when it began.
THEOREM StopsOutliveDiscards == Spec => []StopOutlivesDiscards
<1> DEFINE Begun == stopPc # "up" => stopping
<1>1. Init => Begun /\ StopOutlivesDiscards
  BY DEF Init, StopOutlivesDiscards
<1>2. ASSUME TypeOK, Begun, StopOutlivesDiscards, [Next]_vars
      PROVE  Begun' /\ StopOutlivesDiscards'
  <2>1. CASE Relaunch
    BY <2>1 DEF Relaunch, StopOutlivesDiscards
  <2>2. CASE ~Relaunch
    <3>1. /\ Begun'
          /\ stopPc' = "stopped" => stopPc # "up" /\ (stopPc = "stopped" \/ Sweeping = {})
      <4>1. ASSUME NEW i \in Ids, Release(i) PROVE UNCHANGED <<stopping, stopPc>>
        BY <4>1 DEF Release, DropReservation, lifeVars
      <4>2. PumpRelease => UNCHANGED <<stopping, stopPc>>
        BY DEF PumpRelease, DropReservation, lifeVars
      <4>3. ASSUME NEW k \in Clickers, NEW i \in Ids, StopRow(k, i) PROVE UNCHANGED <<stopping, stopPc>>
        BY <4>3 DEF StopRow, lifeVars
      <4>4. ASSUME NEW g \in Togglers, StopAllForPause(g) PROVE UNCHANGED <<stopping, stopPc>>
        BY <4>4 DEF StopAllForPause, lifeVars
      <4>5. BeginStop => Begun' /\ stopPc' # "stopped"
        BY DEF BeginStop
      <4>6. StopAllForExit \/ GraceExpires => stopPc # "up" /\ stopPc' # "stopped" /\ UNCHANGED stopping
        BY DEF StopAllForExit, GraceExpires, memVars
      <4>7. AwaitStop => /\ stopPc # "up" /\ UNCHANGED stopping
                         /\ stopPc' = "stopped" => Sweeping = {}
        BY DEF AwaitStop, memVars
      <4>8. QED BY <1>2, <2>2, <4>1, <4>2, <4>3, <4>4, <4>5, <4>6, <4>7, StopFrames DEF StopFrame
    <3>2. ASSUME stopPc' = "stopped" PROVE Sweeping' = {}
      <4>1. Sweeping = {}
        BY <1>2, <3>1, <3>2 DEF StopOutlivesDiscards
      <4>2. stopping
        BY <1>2, <3>1, <3>2
      <4>3. QED BY <1>2, <2>2, <4>1, <4>2, SweepsRefused
    <3>3. QED BY <3>1, <3>2 DEF StopOutlivesDiscards
  <2>3. QED BY <2>1, <2>2
<1>3. QED BY <1>1, <1>2, TypeCorrect, PTL DEF Spec

\* Between its look at a row and its reset, no unguarded write lands on the row
\* of a discard.
DiscardsUndisturbed ==
  \A k \in Clickers, i \in Ids :
    PauseWrite(k, i) \/ ResumeWrite(k, i) => \A c \in Kinds : disc[<<c, i>>] \in {"idle", "read"}

\* A discard that has read its row finds it as it left it.
DiscardsSettled ==
  \A a \in Kinds \X Ids :
    disc[a] \notin {"idle", "read"} => state[a[2]] \in {"cancelled", "completed"}

\* A discard goes past its look at the row only if the row is cancelled.
LEMMA DiscardsLook ==
  ASSUME TypeOK, [Next]_vars, NEW a \in Kinds \X Ids,
         disc[a] \in {"idle", "read"}, disc'[a] \notin {"idle", "read"}
  PROVE  DiscardRead(a) /\ state[a[2]] = "cancelled"
<1> USE DEF TypeOK, WorldTypeOK
<1>1. PICK b \in Kinds \X Ids : Discard(b)
  BY DiscardFrames DEF DiscardFrame
<1>2. a = b /\ DiscardRead(a)
  BY <1>1 DEF Discard, DiscardRead, DiscardOwners, DiscardUnlink, DiscardFails, DiscardReset,
     DiscardGoto
<1>3. QED BY <1>2 DEF DiscardRead, DiscardGoto, CancelledWithBytes

\* Nothing but those writes revives a cancelled or a completed row.
LEMMA DiscardsSettledStep ==
  ASSUME TypeOK, DiscardsSettled, DiscardsUndisturbed, [Next]_vars
  PROVE  DiscardsSettled'
<1> USE DEF TypeOK, RowsTypeOK
<1> SUFFICES ASSUME NEW a \in Kinds \X Ids, disc'[a] \notin {"idle", "read"}
             PROVE  state'[a[2]] \in {"cancelled", "completed"}
  BY DEF DiscardsSettled
<1>1. CASE disc[a] \in {"idle", "read"}
  <2>1. DiscardRead(a) /\ state[a[2]] = "cancelled"
    BY <1>1, DiscardsLook
  <2>2. QED BY <2>1 DEF DiscardRead, rowVars
<1>2. CASE disc[a] \notin {"idle", "read"}
  <2>1. PICK c \in Kinds, i \in Ids : a = <<c, i>>
    OBVIOUS
  <2>2. state[i] \in {"cancelled", "completed"}
    BY <1>2, <2>1 DEF DiscardsSettled
  <2>3. \A k \in Clickers : ~PauseWrite(k, i) /\ ~ResumeWrite(k, i)
    BY <1>2, <2>1 DEF DiscardsUndisturbed
  <2>4. state'[i] = state[i] \/ RowMove(i)
    BY RowMoves
  <2>5. QED BY <2>1, <2>2, <2>3, <2>4 DEF RowMove, EngineMove, UserMove, HealMove, Moves,
        Cancellable, Unfinished
<1>3. QED BY <1>1, <1>2

\* A discard zeroes the count of a row only while nobody can resume it: the row
\* was cancelled when it was read, and claims, retries, the ladder, heals,
\* relaunches and the other discards leave it that way. The two writes without
\* a guard do not, and nothing else is assumed away.
THEOREM DiscardsSpareRows == Spec /\ [][DiscardsUndisturbed]_vars => DiscardSparesRows
<1> DEFINE Spared == \A i \in Ids : hasBytes[i] /\ ~hasBytes'[i] /\ disc' # disc => state[i] \notin Owner
<1>1. Init => DiscardsSettled
  BY DEF Init, DiscardsSettled, IdleDiscards
<1>2. TypeOK /\ DiscardsSettled /\ [Next]_vars /\ [DiscardsUndisturbed]_vars => DiscardsSettled'
  <2>1. DiscardsSettled /\ UNCHANGED vars => DiscardsSettled'
    BY DEF DiscardsSettled, vars, rowVars
  <2>2. QED BY <2>1, DiscardsSettledStep
<1>3. TypeOK /\ DiscardsSettled /\ [Next]_vars => [Spared]_vars
  <2> SUFFICES ASSUME TypeOK, DiscardsSettled, [Next]_vars,
                      NEW i \in Ids, hasBytes[i], ~hasBytes'[i], disc' # disc
               PROVE  state[i] \notin Owner
    OBVIOUS
  <2>1. PICK a \in Kinds \X Ids : Discard(a)
    BY DiscardFrames DEF DiscardFrame
  <2>2. DiscardReset(a) /\ a[2] = i
    BY <2>1 DEF Discard, DiscardRead, DiscardOwners, DiscardUnlink, DiscardFails, DiscardReset,
       rowVars, TypeOK, RowsTypeOK
  <2>3. state[i] \in {"cancelled", "completed"}
    BY <2>2 DEF DiscardReset, DiscardsSettled
  <2>4. QED BY <2>3 DEF Owner, Unfinished
<1>4. QED BY <1>1, <1>2, <1>3, TypeCorrect, PTL DEF Spec, DiscardSparesRows

\* A row a click is about to pause or resume.
Aims(k, i) == click[k].pc \in {"pause", "resume"} /\ i \in click[k].ids

\* With one call at a time, a row is not cancelled between a click and its write.
AimsUncancelled ==
  \A k \in Clickers, i \in Ids : Aims(k, i) => state[i] \notin {"none", "cancelled"}

\* And no click is aimed at a row that a discard has read.
DiscardsUnaimed ==
  \A a \in Kinds \X Ids :
    disc[a] \notin {"idle", "read"} => \A k \in Clickers : ~Aims(k, a[2])

\* The call that aims at a row is the only one, so it is not a cancel.
LEMMA AimsUncancelledStep ==
  ASSUME OneClicker, TypeOK, AimsUncancelled, [Next]_vars
  PROVE  AimsUncancelled'
<1> USE DEF TypeOK, UserTypeOK, RowsTypeOK
<1> SUFFICES ASSUME NEW k \in Clickers, NEW i \in Ids, Aims(k, i)'
             PROVE  state'[i] \notin {"none", "cancelled"}
  BY DEF AimsUncancelled
<1>1. ~Relaunch
  BY DEF Relaunch, Aims, NoClick
<1>2. \A l \in Clickers : \A marked : ~MarkCancelled(l, marked)
  BY DEF OneClicker, MarkCancelled, ClickGoto, Aims
<1>3. \A l \in Clickers, j \in Ids : ~PauseWrite(l, j) /\ ~ResumeWrite(l, j)
  BY DEF OneClicker, PauseWrite, ResumeWrite, ClickGoto, ClickDone, NoClick, Aims
<1>4. state[i] \notin {"none", "cancelled"}
  <2>1. CASE UNCHANGED click
    BY <2>1 DEF Aims, AimsUncancelled
  <2>2. ASSUME NEW l \in Clickers, Click(l) \/ Follow(l)
        PROVE  Aims(k, i) \/ state[i] \notin {"none", "cancelled"}
    <3>1. l = k
      BY DEF OneClicker
    <3>2. \A j \in Ids : ~StopRow(l, j)
      BY <3>1 DEF StopRow, ClickGoto, ClickDone, NoClick, Aims
    <3>3. ~SweepRead(l) /\ ~SweepIdle(l)
      BY <3>1 DEF SweepRead, SweepIdle, ClickGoto, ClickDone, NoClick, Aims
    <3>4. RetryFailed(l) \/ (\E j \in Ids : Enqueue(l, j)) => Aims(k, i)
      BY DEF RetryFailed, Enqueue, userVars, Aims
    <3>5. \A j \in Ids : ClickPause(l, j) \/ ClickResume(l, j) => state[i] \notin {"none", "cancelled"}
      BY <3>1 DEF ClickPause, ClickResume, ClickGoto, Aims
    <3>6. QED BY <2>2, <1>2, <1>3, <3>2, <3>3, <3>4, <3>5 DEF Click, Follow, Cancel, CancelQueued
  <2>3. QED BY <1>1, <2>1, <2>2, Frames DEF ClickFrame, AimsUncancelled
<1>5. state'[i] = state[i] \/ RowMove(i)
  BY RowMoves
<1>6. QED BY <1>1, <1>2, <1>4, <1>5 DEF RowMove, EngineMove, UserMove, HealMove, Moves, Cancel,
      CancelQueued

\* A click is made on rows that are neither cancelled nor completed.
LEMMA DiscardsUnaimedStep ==
  ASSUME TypeOK, AimsUncancelled, DiscardsSettled, DiscardsUnaimed, [Next]_vars
  PROVE  DiscardsUnaimed'
<1> USE DEF TypeOK, UserTypeOK, RowsTypeOK, WorldTypeOK
<1> SUFFICES ASSUME NEW a \in Kinds \X Ids, disc'[a] \notin {"idle", "read"},
                    NEW k \in Clickers, Aims(k, a[2])'
             PROVE  FALSE
  BY DEF DiscardsUnaimed
<1> DEFINE i == a[2]
<1>1. i \in Ids
  OBVIOUS
<1>2. state[i] \in {"cancelled", "completed"} /\ ~Aims(k, i)
  <2>1. CASE disc[a] \notin {"idle", "read"}
    BY <2>1 DEF DiscardsSettled, DiscardsUnaimed
  <2>2. CASE disc[a] \in {"idle", "read"}
    BY <1>1, <2>2, DiscardsLook DEF AimsUncancelled
  <2>3. QED BY <2>1, <2>2
<1>3. Aims(k, i)'
  OBVIOUS
<1> HIDE DEF i
<1>4. ~Relaunch /\ ~UNCHANGED click
  BY <1>2, <1>3 DEF Relaunch, Aims, NoClick
<1>5. PICK l \in Clickers : Click(l) \/ Follow(l)
  BY <1>4, Frames DEF ClickFrame
<1>6. l = k
  BY <1>2, <1>3, <1>5 DEF Aims, Click, Follow, ClickPause, ClickResume, Cancel, CancelQueued,
     MarkCancelled, Enqueue, RetryFailed, PauseWrite, ResumeWrite, StopRow, SweepRead, SweepIdle,
     ClickGoto, ClickDone, NoClick, userVars
<1>7. \A j \in Ids : ~PauseWrite(k, j) /\ ~ResumeWrite(k, j) /\ ~StopRow(k, j)
  BY <1>3 DEF PauseWrite, ResumeWrite, StopRow, ClickGoto, ClickDone, NoClick, Aims
<1>8. ~SweepRead(k) /\ ~SweepIdle(k) /\ \A marked : ~MarkCancelled(k, marked)
  BY <1>3 DEF SweepRead, SweepIdle, MarkCancelled, ClickGoto, ClickDone, NoClick, Aims
<1>9. \A j \in Ids : ~ClickPause(k, j) /\ ~ClickResume(k, j)
  BY <1>2, <1>3 DEF ClickPause, ClickResume, ClickGoto, Aims
<1>10. ~RetryFailed(k) /\ \A j \in Ids : ~Enqueue(k, j)
  BY <1>4 DEF RetryFailed, Enqueue, userVars
<1>11. QED BY <1>5, <1>6, <1>7, <1>8, <1>9, <1>10 DEF Click, Follow, Cancel, CancelQueued

\* So where calls on rows come one at a time, nothing need be assumed: what the
\* user does next does not revive the row before the discard has ended.
COROLLARY SingleCallsSpareRows ==
  ASSUME OneClicker
  PROVE  Spec => DiscardSparesRows
<1>1. Init => AimsUncancelled /\ DiscardsUnaimed /\ DiscardsSettled
  BY DEF Init, AimsUncancelled, DiscardsUnaimed, DiscardsSettled, Aims, NoClick, IdleDiscards
<1>2. DiscardsUnaimed => DiscardsUndisturbed
  BY DEF DiscardsUnaimed, DiscardsUndisturbed, Aims, PauseWrite, ResumeWrite, ClickOn
<1>3. TypeOK /\ AimsUncancelled /\ DiscardsUnaimed /\ DiscardsSettled /\ [Next]_vars
        => AimsUncancelled' /\ DiscardsUnaimed' /\ DiscardsSettled'
  BY <1>2, AimsUncancelledStep, DiscardsUnaimedStep, DiscardsSettledStep
<1>4. Spec => [][DiscardsUndisturbed]_vars
  BY <1>1, <1>2, <1>3, TypeCorrect, PTL DEF Spec
<1>5. QED BY <1>4, DiscardsSpareRows

\* A completed row's runner is done writing; a registered row exists.
RunsOver ==
  \A i \in Ids : /\ state[i] = "completed" => Resting(i)
                 /\ i \in cancels => state[i] # "none"

\* Completion is the last thing a runner writes.
LEMMA RunsOverStep ==
  ASSUME IInv, RunsOver, [Next]_vars
  PROVE  RunsOver'
<1> USE DEF IInv, TypeOK, RowsTypeOK, RunTypeOK, PumpTypeOK
<1> SUFFICES ASSUME NEW i \in Ids
             PROVE  /\ state'[i] = "completed" => Resting(i)'
                    /\ i \in cancels' => state'[i] # "none"
  BY DEF RunsOver
<1>1. state'[i] = state[i] \/ RowMove(i)
  BY RowMoves
<1>2. ASSUME state'[i] = "completed" PROVE Resting(i)'
  <2>1. ~(PumpClaim /\ cur = i)
    BY <1>2 DEF PumpClaim, SetState
  <2>2. CASE state[i] = "completed"
    BY <2>1, <2>2, RestingStays DEF RunsOver
  <2>3. CASE state[i] # "completed"
    <3>1. Complete(i)
      BY <1>1, <1>2, <2>3 DEF RowMove, EngineMove, UserMove, HealMove, Moves
    <3>2. ~(pumpPc = "spawn" /\ cur = i) /\ UNCHANGED <<pumpPc, cur>>
      BY <3>1 DEF Complete, Ownership, HeldByPump, pumpVars
    <3>3. QED BY <3>1, <3>2 DEF Complete, Goto, Resting
  <2>4. QED BY <2>2, <2>3
<1>3. state[i] # "none" => state'[i] # "none"
  BY <1>1 DEF RowMove, EngineMove, UserMove, HealMove, Moves
<1>4. ASSUME i \in cancels' PROVE state[i] # "none"
  <2>1. i \in cancels \/ PumpRegister
    <3>1. PumpRowStep => i \in cancels \/ PumpRegister
      BY <1>4 DEF PumpRowStep, PumpClaim, PumpRelease, DropReservation, memVars
    <3>2. ASSUME NEW j \in Ids, RunnerRowStep(j) PROVE i \in cancels
      BY <1>4, <3>2 DEF RunnerRowStep, Restart, Complete, RequeueRow, Ladder, Release,
         DropReservation, memVars
    <3>3. ASSUME NEW k \in Clickers, ClickRowStep(k) PROVE i \in cancels
      BY <1>4, <3>3 DEF ClickRowStep, PauseWrite, ResumeWrite, Cancel, CancelQueued, MarkCancelled,
         Enqueue, RetryFailed, memVars
    <3>4. ASSUME NEW g \in Togglers, HealOrphans(g) PROVE i \in cancels
      BY <1>4, <3>4 DEF HealOrphans, memVars
    <3>5. ~Relaunch
      BY <1>4 DEF Relaunch
    <3>6. QED BY <1>4, <3>1, <3>2, <3>3, <3>4, <3>5, RowSteps DEF RowStep, RowsStand
  <2>2. PumpRegister => i \in cancels \/ state[i] # "none"
    BY <1>4 DEF PumpRegister, Snapshots, Listed
  <2>3. QED BY <2>1, <2>2 DEF RunsOver
<1>5. QED BY <1>2, <1>3, <1>4

\* Neither an owner of its placeholder nor a writer of it.
Spent(i) == state[i] \in {"none", "cancelled"} \/ (state[i] \in {"completed", "paused"} /\ Resting(i))

\* Between the look for owners and the unlink nobody resumes or enqueues a row
\* for the file, nor pauses one whose runner may still write it.
UnlinksUndisturbed ==
  \A k \in Clickers, i \in Ids :
    (\E a \in Kinds \X Ids : disc[a] = "unlink" /\ FileOf[i] = FileOf[a[2]])
      => ~ResumeWrite(k, i) /\ ~Enqueue(k, i) /\ (PauseWrite(k, i) => Resting(i))

\* Once a discard has found no owner, the rows of the file stay out of its way.
UnlinksUnowned ==
  \A a \in Kinds \X Ids : disc[a] = "unlink" =>
    \A i \in Ids : FileOf[i] = FileOf[a[2]] => Spent(i)

\* A spent row is spent until it is resumed, or enqueued, or paused while it is
\* still writing.
LEMMA SpentStays ==
  ASSUME TypeOK, RunsOver', [Next]_vars, NEW i \in Ids, Spent(i),
         \A k \in Clickers : /\ ~ResumeWrite(k, i) /\ ~Enqueue(k, i)
                             /\ PauseWrite(k, i) => Resting(i)
  PROVE  Spent(i)'
<1> USE DEF TypeOK, RowsTypeOK
<1>1. ~(PumpClaim /\ cur = i)
  BY DEF PumpClaim, Spent
<1>2. Resting(i) => Resting(i)'
  BY <1>1, RestingStays
<1>3. state'[i] = "completed" => Resting(i)'
  BY DEF RunsOver
<1>4. state'[i] = state[i] \/ RowMove(i)
  BY RowMoves
<1>5. CASE state[i] \in {"none", "cancelled"}
  <2>1. EngineMove(i) => state'[i] = "completed"
    BY <1>5 DEF EngineMove, Moves
  <2>2. ASSUME NEW k \in Clickers, UserMove(k, i)
        PROVE  state'[i] = "cancelled" \/ (state'[i] = "paused" /\ Resting(i))
    BY <1>5, <2>2 DEF UserMove, Moves
  <2>3. \/ state'[i] \in {"none", "cancelled", "completed"}
        \/ state'[i] = "paused" /\ Resting(i)
    BY <1>4, <1>5, <2>1, <2>2 DEF RowMove, HealMove, Moves
  <2>4. QED BY <1>2, <1>3, <2>3 DEF Spent
<1>6. CASE state[i] \in {"completed", "paused"} /\ Resting(i)
  <2>1. EngineMove(i) => state'[i] = "completed"
    BY <1>6 DEF EngineMove, Moves
  <2>2. ASSUME NEW k \in Clickers, UserMove(k, i) PROVE state'[i] \in {"paused", "cancelled"}
    BY <1>6, <2>2 DEF UserMove, Moves
  <2>3. state'[i] \in {"completed", "paused", "cancelled"}
    BY <1>4, <1>6, <2>1, <2>2 DEF RowMove, HealMove, Moves
  <2>4. QED BY <1>2, <1>6, <2>3 DEF Spent
<1>7. QED BY <1>5, <1>6 DEF Spent

\* The look for owners finds every row of the file spent.
LEMMA UnlinksUnownedStep ==
  ASSUME TypeOK, RunsOver, RunsOver', UnlinksUnowned, UnlinksUndisturbed, [Next]_vars
  PROVE  UnlinksUnowned'
<1> USE DEF TypeOK, RowsTypeOK, WorldTypeOK
<1> SUFFICES ASSUME NEW a \in Kinds \X Ids, disc'[a] = "unlink",
                    NEW i \in Ids, FileOf[i] = FileOf[a[2]]
             PROVE  Spent(i)'
  BY DEF UnlinksUnowned
<1>1. CASE disc[a] = "unlink"
  <2>1. Spent(i)
    BY <1>1 DEF UnlinksUnowned
  <2>2. QED BY <1>1, <2>1, SpentStays DEF UnlinksUndisturbed
<1>2. CASE disc[a] # "unlink"
  <2>1. PICK b \in Kinds \X Ids : Discard(b)
    BY <1>2, DiscardFrames DEF DiscardFrame
  <2>2. a = b /\ DiscardOwners(a)
    BY <1>2, <2>1 DEF Discard, DiscardRead, DiscardOwners, DiscardUnlink, DiscardFails, DiscardReset,
       DiscardGoto
  <2>3. OtherLiveTransfersForDst(a[2]) = {}
    BY <2>2 DEF DiscardOwners, DiscardGoto
  <2>4. state[i] \notin Owner
    <3>1. DstOf[i] = DstOf[a[2]] /\ a[2] \in Ids
      BY FileAssumption
    <3>2. QED BY <2>3, <3>1 DEF OtherLiveTransfersForDst
  <2>5. Spent(i)
    BY <2>4 DEF Owner, Unfinished, State, Spent, RunsOver
  <2>6. UNCHANGED <<state, pc, pumpPc, cur>>
    BY <2>2 DEF DiscardOwners, rowVars, runVars, pumpVars
  <2>7. QED BY <2>5, <2>6 DEF Spent, Resting
<1>3. QED BY <1>1, <1>2

\* A discard never unlinks a file under a writer nobody cancelled, unless a
\* resume, an enqueue or the pause of a writing row slips in between the look
\* for owners and the unlink.
THEOREM DiscardsSpareWriters == Spec /\ [][UnlinksUndisturbed]_vars => DiscardSparesWriters
<1> DEFINE Spared == \A f \in Files, i \in Ids : Unlinks(f) /\ FileOf[i] = f /\ pc[i] \in Writing
                        => state[i] = "cancelled"
<1>1. Init => RunsOver /\ UnlinksUnowned
  BY DEF Init, RunsOver, UnlinksUnowned, Resting, IdleDiscards
<1>2. IInv /\ RunsOver /\ UnlinksUnowned /\ [Next]_vars /\ [UnlinksUndisturbed]_vars
        => RunsOver' /\ UnlinksUnowned'
  <2>1. UnlinksUnowned /\ UNCHANGED vars => UnlinksUnowned'
    BY DEF UnlinksUnowned, Spent, Resting, vars, rowVars, runVars, pumpVars
  <2>2. QED BY <2>1, RunsOverStep, UnlinksUnownedStep DEF IInv
<1>3. IInv /\ RunsOver /\ UnlinksUnowned /\ [Next]_vars => [Spared]_vars
  <2> SUFFICES ASSUME IInv, RunsOver, UnlinksUnowned, [Next]_vars,
                      NEW i \in Ids, Unlinks(FileOf[i]), pc[i] \in Writing
               PROVE  state[i] = "cancelled"
    OBVIOUS
  <2> USE DEF IInv, TypeOK, WorldTypeOK
  <2>1. PICK a \in Kinds \X Ids : Discard(a)
    BY DiscardFrames, RowAssumption DEF DiscardFrame, Unlinks
  <2>2. DiscardUnlink(a) /\ FileOf[a[2]] = FileOf[i]
    BY <2>1, RowAssumption DEF Discard, DiscardRead, DiscardOwners, DiscardUnlink, DiscardFails,
       DiscardReset, Unlinks
  <2>3. Spent(i)
    BY <2>2 DEF DiscardUnlink, UnlinksUnowned
  <2>4. state[i] # "none"
    BY DEF Ownership, RunsOver, Writing
  <2>5. QED BY <2>3, <2>4 DEF Spent, Resting, Writing
<1>4. QED BY <1>1, <1>2, <1>3, Invariance, PTL DEF Spec, DiscardSparesWriters

\* With one call at a time, and nobody enqueueing or resuming rows, nothing can.
COROLLARY SingleCallsSpareWriters ==
  ASSUME OneClicker, NoResume, "enqueue" \notin Ops
  PROVE  Spec => DiscardSparesWriters
<1> DEFINE UInv == AimsUncancelled /\ RunsOver /\ UnlinksUnowned
<1>1. Init => UInv
  BY DEF Init, AimsUncancelled, RunsOver, UnlinksUnowned, Resting, Aims, NoClick, IdleDiscards
<1>2. UInv /\ NobodyResumes => UnlinksUndisturbed
  <2> SUFFICES ASSUME UInv, NobodyResumes, NEW k \in Clickers, NEW i \in Ids,
                      NEW a \in Kinds \X Ids, disc[a] = "unlink", FileOf[i] = FileOf[a[2]]
               PROVE  ~ResumeWrite(k, i) /\ ~Enqueue(k, i) /\ (PauseWrite(k, i) => Resting(i))
    BY DEF UnlinksUndisturbed
  <2>1. ~ResumeWrite(k, i) /\ ~Enqueue(k, i)
    BY DEF NobodyResumes, ResumeWrite, Enqueue
  <2>2. PauseWrite(k, i) => state[i] \notin {"none", "cancelled"}
    BY DEF PauseWrite, ClickOn, AimsUncancelled, Aims
  <2>3. QED BY <2>1, <2>2 DEF UnlinksUnowned, Spent
<1>3. IInv /\ UInv /\ NobodyResumes /\ [Next]_vars => UInv'
  BY <1>2, AimsUncancelledStep, RunsOverStep, UnlinksUnownedStep DEF IInv
<1>4. Spec => [][UnlinksUndisturbed]_vars
  BY <1>1, <1>2, <1>3, Invariance, NobodyResumesInvariant, PTL DEF Spec
<1>5. QED BY <1>4, DiscardsSpareWriters

=============================================================================
