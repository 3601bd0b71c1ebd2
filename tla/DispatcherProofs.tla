------------------------- MODULE DispatcherProofs --------------------------
(***************************************************************************)
(* Invariants of Dispatcher for every set of rows, files, clickers and     *)
(* togglers, any number of launches, with or without failing writes.       *)
(*                                                                         *)
(* The argument: every registration has one owner, the pump or a runner    *)
(* (Ownership); registrations hold different files (FileLocks); a runner   *)
(* that has made its guarded write leaves no active row (ActiveOwned); and *)
(* a row on the pump's list cannot have moved (Snapshots). Each is         *)
(* preserved with the help of TypeOK and Ownership; together they are      *)
(* IInv, from which the checked invariants follow.                         *)
(***************************************************************************)
EXTENDS Dispatcher, TLAPS

-----------------------------------------------------------------------------
(* The initial state. *)

\* The first launch satisfies the inductive invariant: nothing is registered,
\* listed or running.
LEMMA InitIInv == Init => IInv
<1> SUFFICES ASSUME Init PROVE IInv OBVIOUS
<1> USE IdsAssumption, RowAssumption, AttemptAssumption, LaunchAssumption, FlagAssumption
<1>1. TypeOK
  <2>1. RowsTypeOK /\ MemTypeOK /\ PumpTypeOK
    BY DEF Init, RowsTypeOK, MemTypeOK, PumpTypeOK, State
  <2>2. RunTypeOK
    BY DEF Init, RunTypeOK, RunnerPc, Err
  <2>3. UserTypeOK
    BY DEF Init, UserTypeOK, NoClick, NoToggle, ClickPc, TogglePc
  <2>4. WorldTypeOK
    <3>1. disc \in [Kinds \X Ids -> DiscardPc] /\ part \in [Files -> {"none", "empty", "data"}]
      BY DEF Init, IdleDiscards, DiscardPc
    <3>2. launches \in 1..MaxLaunches
      BY DEF Init
    <3>3. QED BY <3>1, <3>2 DEF Init, WorldTypeOK
  <2>5. QED BY <2>1, <2>2, <2>3, <2>4 DEF TypeOK
<1>2. Ownership
  BY DEF Init, Ownership, HeldByPump
<1>3. FileLocks
  BY DEF Init, FileLocks
<1>4. ActiveOwned
  BY DEF Init, ActiveOwned, InState
<1>5. Snapshots
  BY DEF Init, Snapshots
<1>6. QED BY <1>1, <1>2, <1>3, <1>4, <1>5 DEF IInv

-----------------------------------------------------------------------------
(* Type correctness. *)

\* Every step of every goroutine keeps the types.
LEMMA TypeStep ==
  ASSUME TypeOK, [Next]_vars
  PROVE  TypeOK'
<1> USE IdsAssumption, RowAssumption, AttemptAssumption, LaunchAssumption, FlagAssumption
<1> USE DEF TypeOK, RowsTypeOK, MemTypeOK, PumpTypeOK, RunTypeOK, UserTypeOK, WorldTypeOK,
    InState, State, Err, StopErr, RunnerPc, DiscardPc, ClickPc, TogglePc, Kinds, Snapshot,
    EngineErr
<1>1. ASSUME NEW i \in Ids, BackoffElapses(i) PROVE TypeOK'
  BY <1>1 DEF BackoffElapses, memVars, pumpVars, runVars, userVars, lifeVars
<1>2. ASSUME PumpEnter PROVE TypeOK'
  BY <1>2 DEF PumpEnter, rowVars, memVars, runVars, userVars, lifeVars
<1>3. ASSUME PumpList PROVE TypeOK'
  BY <1>3 DEF PumpList, rowVars, memVars, runVars, userVars, lifeVars
<1>4. ASSUME PumpReturn PROVE TypeOK'
  BY <1>4 DEF PumpReturn, Halted, rowVars, memVars, runVars, userVars, lifeVars
<1>5. ASSUME PumpSkip PROVE TypeOK'
  BY <1>5 DEF PumpSkip, Halted, IsHead, rowVars, memVars, runVars, userVars, lifeVars
<1>6. ASSUME PumpRegister PROVE TypeOK'
  <2>1. RowsTypeOK'
    BY <1>6 DEF PumpRegister, rowVars
  <2>2. MemTypeOK'
    <3>1. PICK r \in todo : /\ cancels' = cancels \cup {r.id}
                            /\ activeDst' = activeDst \cup {FileOf[r.id]}
      BY <1>6 DEF PumpRegister
    <3>2. r.id \in Ids /\ FileOf[r.id] \in Files
      BY <3>1
    <3>3. UNCHANGED <<paused, stopping, ctxDone, requeue>>
      BY <1>6 DEF PumpRegister
    <3>4. QED BY <3>1, <3>2, <3>3
  <2>3. PumpTypeOK'
    BY <1>6 DEF PumpRegister
  <2>4. RunTypeOK'
    BY <1>6 DEF PumpRegister
  <2>5. UserTypeOK'
    BY <1>6 DEF PumpRegister, userVars
  <2>6. WorldTypeOK'
    BY <1>6 DEF PumpRegister, lifeVars
  <2>7. QED BY <2>1, <2>2, <2>3, <2>4, <2>5, <2>6
<1>7. ASSUME PumpClaim PROVE TypeOK'
  <2>1. RowsTypeOK'
    BY <1>7 DEF PumpClaim, SetState
  <2>2. MemTypeOK'
    BY <1>7 DEF PumpClaim, memVars
  <2>3. PumpTypeOK'
    BY <1>7 DEF PumpClaim
  <2>4. RunTypeOK'
    BY <1>7 DEF PumpClaim, runVars
  <2>5. UserTypeOK'
    BY <1>7 DEF PumpClaim, userVars
  <2>6. WorldTypeOK'
    BY <1>7 DEF PumpClaim, lifeVars
  <2>7. QED BY <2>1, <2>2, <2>3, <2>4, <2>5, <2>6
<1>8. ASSUME PumpLoseClaim PROVE TypeOK'
  BY <1>8 DEF PumpLoseClaim, rowVars, memVars, runVars, userVars, lifeVars
<1>9. ASSUME PumpRelease PROVE TypeOK'
  <2>1. RowsTypeOK'
    BY <1>9 DEF PumpRelease, rowVars
  <2>2. MemTypeOK'
    BY <1>9 DEF PumpRelease, DropReservation
  <2>3. PumpTypeOK'
    BY <1>9 DEF PumpRelease
  <2>4. RunTypeOK'
    BY <1>9 DEF PumpRelease, DropReservation
  <2>5. UserTypeOK'
    BY <1>9 DEF PumpRelease, userVars
  <2>6. WorldTypeOK'
    BY <1>9 DEF PumpRelease, lifeVars
  <2>7. QED BY <2>1, <2>2, <2>3, <2>4, <2>5, <2>6
<1>10. ASSUME PumpTail PROVE TypeOK'
  BY <1>10 DEF PumpTail, StartSweep, CancelledWithBytes, rowVars, memVars, runVars,
     userVars, lifeVars
<1>11. ASSUME PumpSpawn PROVE TypeOK'
  <2>1. RowsTypeOK'
    BY <1>11 DEF PumpSpawn, rowVars
  <2>2. MemTypeOK'
    BY <1>11 DEF PumpSpawn, memVars
  <2>3. PumpTypeOK'
    BY <1>11 DEF PumpSpawn
  <2>4. RunTypeOK'
    BY <1>11 DEF PumpSpawn
  <2>5. UserTypeOK'
    BY <1>11 DEF PumpSpawn, userVars
  <2>6. WorldTypeOK'
    BY <1>11 DEF PumpSpawn, lifeVars
  <2>7. QED BY <2>1, <2>2, <2>3, <2>4, <2>5, <2>6
<1>12. ASSUME NEW i \in Ids, DialOk(i) PROVE TypeOK'
  BY <1>12 DEF DialOk, Goto, rowVars, memVars, pumpVars, userVars, lifeVars
<1>13. ASSUME NEW i \in Ids, DialFails(i) PROVE TypeOK'
  BY <1>13 DEF DialFails, Goto, Fail, rowVars, memVars, pumpVars, userVars, lifeVars
<1>14. ASSUME NEW i \in Ids, OpenPart(i) PROVE TypeOK'
  <2>1. RowsTypeOK'
    BY <1>14 DEF OpenPart, rowVars
  <2>2. MemTypeOK'
    BY <1>14 DEF OpenPart, memVars
  <2>3. PumpTypeOK'
    BY <1>14 DEF OpenPart, pumpVars
  <2>4. RunTypeOK'
    BY <1>14 DEF OpenPart, Goto
  <2>5. UserTypeOK'
    BY <1>14 DEF OpenPart, userVars
  <2>6. WorldTypeOK'
    BY <1>14 DEF OpenPart, lifeVars
  <2>7. QED BY <2>1, <2>2, <2>3, <2>4, <2>5, <2>6
<1>15. ASSUME NEW i \in Ids, WriteBytes(i) PROVE TypeOK'
  BY <1>15 DEF WriteBytes, rowVars, memVars, pumpVars, userVars, lifeVars
<1>16. ASSUME NEW i \in Ids, PersistProgress(i) PROVE TypeOK'
  BY <1>16 DEF PersistProgress, memVars, pumpVars, runVars, userVars, lifeVars
<1>17. ASSUME NEW i \in Ids, EngineSucceeds(i) PROVE TypeOK'
  BY <1>17 DEF EngineSucceeds, Goto, rowVars, memVars, pumpVars, userVars, lifeVars
<1>18. ASSUME NEW i \in Ids, EngineFails(i) PROVE TypeOK'
  BY <1>18 DEF EngineFails, Goto, Fail, rowVars, memVars, pumpVars, userVars, lifeVars
<1>19. ASSUME NEW i \in Ids, ChunkStateLost(i) PROVE TypeOK'
  BY <1>19 DEF ChunkStateLost, Goto, rowVars, memVars, pumpVars, userVars, lifeVars
<1>20. ASSUME NEW i \in Ids, DropLostPart(i) PROVE TypeOK'
  BY <1>20 DEF DropLostPart, Goto, rowVars, memVars, pumpVars, userVars, lifeVars
<1>21. ASSUME NEW i \in Ids, ResetLost(i) PROVE TypeOK'
  BY <1>21 DEF ResetLost, AttemptsLeft, Goto, Fail, memVars, pumpVars, userVars, lifeVars
<1>22. ASSUME NEW i \in Ids, Restart(i) PROVE TypeOK'
  <2>1. RowsTypeOK'
    <3>1. CASE ScheduleRetry(i, FALSE)
      BY <3>1 DEF ScheduleRetry, SetState
    <3>2. CASE UNCHANGED rowVars
      BY <3>2 DEF rowVars
    <3>3. QED BY <1>22, <3>1, <3>2 DEF Restart
  <2>2. MemTypeOK'
    BY <1>22 DEF Restart, memVars
  <2>3. PumpTypeOK'
    BY <1>22 DEF Restart, pumpVars
  <2>4. RunTypeOK'
    <3>1. \E there \in RunnerPc : pc' = [pc EXCEPT ![i] = there]
      BY <1>22 DEF Restart, Goto
    <3>2. UNCHANGED <<err, runAttempt, done, tail>>
      BY <1>22 DEF Restart
    <3>3. QED BY <3>1, <3>2
  <2>5. UserTypeOK'
    BY <1>22 DEF Restart, userVars
  <2>6. WorldTypeOK'
    BY <1>22 DEF Restart, lifeVars
  <2>7. QED BY <2>1, <2>2, <2>3, <2>4, <2>5, <2>6
<1>23. ASSUME NEW i \in Ids, FinalProgress(i) PROVE TypeOK'
  BY <1>23 DEF FinalProgress, Goto, memVars, pumpVars, userVars, lifeVars
<1>24. ASSUME NEW i \in Ids, Complete(i) PROVE TypeOK'
  BY <1>24 DEF Complete, SetState, Goto, memVars, pumpVars, userVars, lifeVars
<1>25. ASSUME NEW i \in Ids, FinishStopped(i) PROVE TypeOK'
  <2>1. RowsTypeOK'
    BY <1>25 DEF FinishStopped, SettleStopped, rowVars
  <2>2. MemTypeOK'
    BY <1>25 DEF FinishStopped, SettleStopped, memVars
  <2>3. PumpTypeOK'
    BY <1>25 DEF FinishStopped, SettleStopped, pumpVars
  <2>4. RunTypeOK'
    <3>1. \E there \in RunnerPc : pc' = [pc EXCEPT ![i] = there]
      BY <1>25 DEF FinishStopped, SettleStopped, Goto
    <3>2. UNCHANGED <<err, runAttempt, done, tail>>
      BY <1>25 DEF FinishStopped, SettleStopped
    <3>3. QED BY <3>1, <3>2
  <2>5. UserTypeOK'
    BY <1>25 DEF FinishStopped, SettleStopped, userVars
  <2>6. WorldTypeOK'
    BY <1>25 DEF FinishStopped, SettleStopped, lifeVars
  <2>7. QED BY <2>1, <2>2, <2>3, <2>4, <2>5, <2>6
<1>26. ASSUME NEW i \in Ids, FinishFailed(i) PROVE TypeOK'
  BY <1>26 DEF FinishFailed, Goto, rowVars, memVars, pumpVars, userVars, lifeVars
<1>27. ASSUME NEW i \in Ids, ReadMark(i) PROVE TypeOK'
  BY <1>27 DEF ReadMark, Goto, rowVars, memVars, pumpVars, userVars, lifeVars
<1>28. ASSUME NEW i \in Ids, RequeueRow(i) PROVE TypeOK'
  <2>1. RowsTypeOK'
    <3>1. CASE CleanSlate({i})
      BY <3>1 DEF CleanSlate
    <3>2. CASE UNCHANGED rowVars
      BY <3>2 DEF rowVars
    <3>3. QED BY <1>28, <3>1, <3>2 DEF RequeueRow
  <2>2. MemTypeOK'
    BY <1>28 DEF RequeueRow, memVars
  <2>3. PumpTypeOK'
    BY <1>28 DEF RequeueRow, pumpVars
  <2>4. RunTypeOK'
    BY <1>28 DEF RequeueRow, Goto
  <2>5. UserTypeOK'
    BY <1>28 DEF RequeueRow, userVars
  <2>6. WorldTypeOK'
    BY <1>28 DEF RequeueRow, lifeVars
  <2>7. QED BY <2>1, <2>2, <2>3, <2>4, <2>5, <2>6
<1>29. ASSUME NEW i \in Ids, SettleAgain(i) PROVE TypeOK'
  <2>1. RowsTypeOK'
    BY <1>29 DEF SettleAgain, SettleStopped, rowVars
  <2>2. MemTypeOK'
    BY <1>29 DEF SettleAgain, SettleStopped, memVars
  <2>3. PumpTypeOK'
    BY <1>29 DEF SettleAgain, SettleStopped, pumpVars
  <2>4. RunTypeOK'
    <3>1. \E there \in RunnerPc : pc' = [pc EXCEPT ![i] = there]
      BY <1>29 DEF SettleAgain, SettleStopped, Goto
    <3>2. UNCHANGED <<err, runAttempt, done, tail>>
      BY <1>29 DEF SettleAgain, SettleStopped
    <3>3. QED BY <3>1, <3>2
  <2>5. UserTypeOK'
    BY <1>29 DEF SettleAgain, SettleStopped, userVars
  <2>6. WorldTypeOK'
    BY <1>29 DEF SettleAgain, SettleStopped, lifeVars
  <2>7. QED BY <2>1, <2>2, <2>3, <2>4, <2>5, <2>6
<1>30. ASSUME NEW i \in Ids, Settle(i) PROVE TypeOK'
  <2>1. RowsTypeOK'
    BY <1>30 DEF Settle, SettleStopped, rowVars
  <2>2. MemTypeOK'
    BY <1>30 DEF Settle, SettleStopped, memVars
  <2>3. PumpTypeOK'
    BY <1>30 DEF Settle, SettleStopped, pumpVars
  <2>4. RunTypeOK'
    <3>1. \E there \in RunnerPc : pc' = [pc EXCEPT ![i] = there]
      BY <1>30 DEF Settle, SettleStopped, Goto
    <3>2. UNCHANGED <<err, runAttempt, done, tail>>
      BY <1>30 DEF Settle, SettleStopped
    <3>3. QED BY <3>1, <3>2
  <2>5. UserTypeOK'
    BY <1>30 DEF Settle, SettleStopped, userVars
  <2>6. WorldTypeOK'
    BY <1>30 DEF Settle, SettleStopped, lifeVars
  <2>7. QED BY <2>1, <2>2, <2>3, <2>4, <2>5, <2>6
<1>31. ASSUME NEW i \in Ids, Ladder(i) PROVE TypeOK'
  <2>1. RowsTypeOK'
    <3>1. CASE ScheduleRetry(i, TRUE)
      BY <3>1 DEF ScheduleRetry, SetState
    <3>2. CASE SetState(i, "failed") /\ UNCHANGED <<hasBytes, attempt, backoff>>
      BY <3>2 DEF SetState
    <3>3. CASE UNCHANGED rowVars
      BY <3>3 DEF rowVars
    <3>4. QED BY <1>31, <3>1, <3>2, <3>3 DEF Ladder
  <2>2. MemTypeOK'
    BY <1>31 DEF Ladder, memVars
  <2>3. PumpTypeOK'
    BY <1>31 DEF Ladder, pumpVars
  <2>4. RunTypeOK'
    BY <1>31 DEF Ladder, AttemptsLeft, Goto
  <2>5. UserTypeOK'
    BY <1>31 DEF Ladder, userVars
  <2>6. WorldTypeOK'
    BY <1>31 DEF Ladder, lifeVars
  <2>7. QED BY <2>1, <2>2, <2>3, <2>4, <2>5, <2>6
<1>32. ASSUME NEW i \in Ids, Discarded(i) PROVE TypeOK'
  BY <1>32 DEF Discarded, Goto, rowVars, memVars, pumpVars, userVars, lifeVars
<1>33. ASSUME NEW i \in Ids, Release(i) PROVE TypeOK'
  BY <1>33 DEF Release, DropReservation, Goto, rowVars, pumpVars, userVars, lifeVars
<1>34. ASSUME NEW i \in Ids, Tail(i) PROVE TypeOK'
  BY <1>34 DEF Tail, StartSweep, CancelledWithBytes, rowVars, memVars, pumpVars, userVars,
     lifeVars
<1>35. ASSUME NEW a \in Kinds \X Ids, DiscardRead(a) PROVE TypeOK'
  BY <1>35 DEF DiscardRead, DiscardGoto, CancelledWithBytes, rowVars, memVars, pumpVars,
     runVars, userVars, lifeVars
<1>36. ASSUME NEW a \in Kinds \X Ids, DiscardOwners(a) PROVE TypeOK'
  BY <1>36 DEF DiscardOwners, DiscardGoto, rowVars, memVars, pumpVars, runVars, userVars,
     lifeVars
<1>37. ASSUME NEW a \in Kinds \X Ids, DiscardUnlink(a) PROVE TypeOK'
  <2>1. RowsTypeOK'
    BY <1>37 DEF DiscardUnlink, rowVars
  <2>2. MemTypeOK'
    BY <1>37 DEF DiscardUnlink, memVars
  <2>3. PumpTypeOK'
    BY <1>37 DEF DiscardUnlink, pumpVars
  <2>4. RunTypeOK'
    BY <1>37 DEF DiscardUnlink, runVars
  <2>5. UserTypeOK'
    BY <1>37 DEF DiscardUnlink, userVars
  <2>6. WorldTypeOK'
    BY <1>37 DEF DiscardUnlink, DiscardGoto, lifeVars
  <2>7. QED BY <2>1, <2>2, <2>3, <2>4, <2>5, <2>6
<1>38. ASSUME NEW a \in Kinds \X Ids, DiscardFails(a) PROVE TypeOK'
  BY <1>38 DEF DiscardFails, DiscardGoto, rowVars, memVars, pumpVars, runVars, userVars,
     lifeVars
<1>39. ASSUME NEW a \in Kinds \X Ids, DiscardReset(a) PROVE TypeOK'
  BY <1>39 DEF DiscardReset, DiscardGoto, memVars, pumpVars, runVars, userVars, lifeVars
<1>40. ASSUME NEW k \in Clickers, NEW i \in Ids, ClickPause(k, i) PROVE TypeOK'
  BY <1>40 DEF ClickPause, ClickGoto, Idle, rowVars, memVars, pumpVars, runVars, lifeVars
<1>41. ASSUME NEW k \in Clickers, NEW i \in Ids, ClickResume(k, i) PROVE TypeOK'
  BY <1>41 DEF ClickResume, ClickGoto, Idle, rowVars, memVars, pumpVars, runVars, lifeVars
<1>42. ASSUME NEW k \in Clickers, NEW S \in SUBSET Ids, Cancel(k, S) PROVE TypeOK'
  BY <1>42 DEF Cancel, ClickGoto, MarkCancelled, Idle, memVars, pumpVars, runVars, lifeVars
<1>43. ASSUME NEW k \in Clickers, NEW i \in Ids, Enqueue(k, i) PROVE TypeOK'
  BY <1>43 DEF Enqueue, SetState, Idle, memVars, pumpVars, runVars, userVars, lifeVars
<1>44. ASSUME NEW k \in Clickers, CancelQueued(k) PROVE TypeOK'
  BY <1>44 DEF CancelQueued, ClickGoto, MarkCancelled, Idle, memVars, pumpVars, runVars,
     lifeVars
<1>45. ASSUME NEW k \in Clickers, RetryFailed(k) PROVE TypeOK'
  <2>1. RowsTypeOK'
    BY <1>45 DEF RetryFailed, CleanSlate
  <2>2. MemTypeOK'
    BY <1>45 DEF RetryFailed, memVars
  <2>3. PumpTypeOK'
    BY <1>45 DEF RetryFailed, pumpVars
  <2>4. RunTypeOK'
    BY <1>45 DEF RetryFailed, runVars
  <2>5. UserTypeOK'
    BY <1>45 DEF RetryFailed, userVars
  <2>6. WorldTypeOK'
    BY <1>45 DEF RetryFailed, lifeVars
  <2>7. QED BY <2>1, <2>2, <2>3, <2>4, <2>5, <2>6
<1>46. ASSUME NEW k \in Clickers, NEW i \in Ids, PauseWrite(k, i) PROVE TypeOK'
  BY <1>46 DEF PauseWrite, SetState, ClickGoto, ClickOn, memVars, pumpVars, runVars,
     lifeVars
<1>47. ASSUME NEW k \in Clickers, NEW i \in Ids, ResumeWrite(k, i) PROVE TypeOK'
  BY <1>47 DEF ResumeWrite, SetState, ClickDone, NoClick, ClickOn, memVars, pumpVars,
     runVars, lifeVars
<1>48. ASSUME NEW k \in Clickers, NEW i \in Ids, StopRow(k, i) PROVE TypeOK'
  <2>1. RowsTypeOK'
    BY <1>48 DEF StopRow, rowVars
  <2>2. MemTypeOK'
    BY <1>48 DEF StopRow
  <2>3. PumpTypeOK'
    BY <1>48 DEF StopRow, pumpVars
  <2>4. RunTypeOK'
    BY <1>48 DEF StopRow, runVars
  <2>5. UserTypeOK'
    BY <1>48 DEF StopRow, ClickGoto, ClickDone, NoClick
  <2>6. WorldTypeOK'
    BY <1>48 DEF StopRow, lifeVars
  <2>7. QED BY <2>1, <2>2, <2>3, <2>4, <2>5, <2>6
<1>49. ASSUME NEW k \in Clickers, SweepRead(k) PROVE TypeOK'
  BY <1>49 DEF SweepRead, ClickGoto, rowVars, memVars, pumpVars, runVars, lifeVars
<1>50. ASSUME NEW k \in Clickers, SweepIdle(k) PROVE TypeOK'
  BY <1>50 DEF SweepIdle, ClickDone, NoClick, StartSweep, rowVars, memVars, pumpVars,
     runVars, lifeVars
<1>51. ASSUME NEW g \in Togglers, TogglePause(g) PROVE TypeOK'
  BY <1>51 DEF TogglePause, ToggleGoto, rowVars, memVars, pumpVars, runVars, lifeVars
<1>52. ASSUME NEW g \in Togglers, PersistPause(g) PROVE TypeOK'
  BY <1>52 DEF PersistPause, ToggleGoto, rowVars, memVars, pumpVars, runVars, lifeVars
<1>53. ASSUME NEW g \in Togglers, FlagPaused(g) PROVE TypeOK'
  BY <1>53 DEF FlagPaused, ToggleGoto, rowVars, pumpVars, runVars, lifeVars
<1>54. ASSUME NEW g \in Togglers, StopAllForPause(g) PROVE TypeOK'
  BY <1>54 DEF StopAllForPause, ToggleGoto, rowVars, pumpVars, runVars, lifeVars
<1>55. ASSUME NEW g \in Togglers, SnapshotRunning(g) PROVE TypeOK'
  BY <1>55 DEF SnapshotRunning, ToggleGoto, rowVars, memVars, pumpVars, runVars, lifeVars
<1>56. ASSUME NEW g \in Togglers, HealOrphans(g) PROVE TypeOK'
  <2>1. RowsTypeOK'
    BY <1>56 DEF HealOrphans, CleanSlate
  <2>2. MemTypeOK'
    BY <1>56 DEF HealOrphans, memVars
  <2>3. PumpTypeOK'
    BY <1>56 DEF HealOrphans, pumpVars
  <2>4. RunTypeOK'
    BY <1>56 DEF HealOrphans, runVars
  <2>5. UserTypeOK'
    BY <1>56 DEF HealOrphans, ToggleGoto
  <2>6. WorldTypeOK'
    BY <1>56 DEF HealOrphans, lifeVars
  <2>7. QED BY <2>1, <2>2, <2>3, <2>4, <2>5, <2>6
<1>57. ASSUME NEW g \in Togglers, FlagResumed(g) PROVE TypeOK'
  <2>1. RowsTypeOK'
    BY <1>57 DEF FlagResumed, rowVars
  <2>2. MemTypeOK'
    BY <1>57 DEF FlagResumed
  <2>3. PumpTypeOK'
    BY <1>57 DEF FlagResumed, pumpVars
  <2>4. RunTypeOK'
    BY <1>57 DEF FlagResumed, runVars
  <2>5. UserTypeOK'
    BY <1>57 DEF FlagResumed, ToggleGoto
  <2>6. WorldTypeOK'
    BY <1>57 DEF FlagResumed, lifeVars
  <2>7. QED BY <2>1, <2>2, <2>3, <2>4, <2>5, <2>6
<1>58. ASSUME BeginStop PROVE TypeOK'
  BY <1>58 DEF BeginStop, rowVars, pumpVars, runVars, userVars
<1>59. ASSUME StopAllForExit PROVE TypeOK'
  BY <1>59 DEF StopAllForExit, rowVars, pumpVars, runVars, userVars
<1>60. ASSUME AwaitStop PROVE TypeOK'
  BY <1>60 DEF AwaitStop, rowVars, memVars, pumpVars, runVars, userVars
<1>61. ASSUME GraceExpires PROVE TypeOK'
  BY <1>61 DEF GraceExpires, rowVars, memVars, pumpVars, runVars, userVars
<1>62. ASSUME Relaunch PROVE TypeOK'
  <2>1. RowsTypeOK'
    BY <1>62 DEF Relaunch, CleanSlate
  <2>2. MemTypeOK'
    BY <1>62 DEF Relaunch
  <2>3. PumpTypeOK'
    BY <1>62 DEF Relaunch
  <2>4. RunTypeOK'
    BY <1>62 DEF Relaunch
  <2>5. UserTypeOK'
    BY <1>62 DEF Relaunch, NoClick, NoToggle
  <2>6. WorldTypeOK'
    BY <1>62 DEF Relaunch, IdleDiscards
  <2>7. QED BY <2>1, <2>2, <2>3, <2>4, <2>5, <2>6
<1>63. CASE UNCHANGED vars
  BY <1>63 DEF vars, rowVars, memVars, pumpVars, runVars, userVars, lifeVars
<1>64. QED BY <1>1, <1>2, <1>3, <1>4, <1>5, <1>6, <1>7, <1>8, <1>9, <1>10, <1>11, <1>12,
     <1>13, <1>14, <1>15, <1>16, <1>17, <1>18, <1>19, <1>20, <1>21, <1>22, <1>23, <1>24,
     <1>25, <1>26, <1>27, <1>28, <1>29, <1>30, <1>31, <1>32, <1>33, <1>34, <1>35, <1>36,
     <1>37, <1>38, <1>39, <1>40, <1>41, <1>42, <1>43, <1>44, <1>45, <1>46, <1>47, <1>48,
     <1>49, <1>50, <1>51, <1>52, <1>53, <1>54, <1>55, <1>56, <1>57, <1>58, <1>59, <1>60,
     <1>61, <1>62, <1>63 DEF Next, Pump, Engine, Unwind, Discard, Click, Follow, SetPaused

\* Every reachable state of the queue, across crashes and relaunches, has the
\* declared types.
THEOREM TypeCorrect == Spec => []TypeOK
<1>1. Init => TypeOK
  BY InitIInv DEF IInv
<1>2. TypeOK /\ [Next]_vars => TypeOK'
  BY TypeStep
<1>3. QED BY <1>1, <1>2, PTL DEF Spec

-----------------------------------------------------------------------------
(* Registrations. *)

\* A registration is made by the pump, handed to the runner it spawns, and
\* dropped by whichever of the two holds it.
LEMMA OwnershipStep ==
  ASSUME TypeOK, Ownership, [Next]_vars
  PROVE  Ownership'
<1> USE IdsAssumption, RowAssumption, AttemptAssumption
<1> USE DEF TypeOK, RowsTypeOK, MemTypeOK, PumpTypeOK, RunTypeOK, Snapshot, InState,
    RunnerPc, Writing, Ownership, HeldByPump
<1>1. ASSUME NEW i \in Ids, BackoffElapses(i) PROVE Ownership'
  BY <1>1 DEF BackoffElapses, memVars, pumpVars, runVars, userVars, lifeVars
<1>2. ASSUME PumpEnter PROVE Ownership'
  BY <1>2 DEF PumpEnter, rowVars, memVars, runVars, userVars, lifeVars
<1>3. ASSUME PumpList PROVE Ownership'
  BY <1>3 DEF PumpList, rowVars, memVars, runVars, userVars, lifeVars
<1>4. ASSUME PumpReturn PROVE Ownership'
  BY <1>4 DEF PumpReturn, Halted, rowVars, memVars, runVars, userVars, lifeVars
<1>5. ASSUME PumpSkip PROVE Ownership'
  BY <1>5 DEF PumpSkip, Halted, IsHead, rowVars, memVars, runVars, userVars, lifeVars
<1>6. ASSUME PumpRegister PROVE Ownership'
  BY <1>6 DEF PumpRegister, Free, Halted, IsHead, rowVars, userVars, lifeVars
<1>7. ASSUME PumpClaim PROVE Ownership'
  BY <1>7 DEF PumpClaim, SetState, memVars, runVars, userVars, lifeVars
<1>8. ASSUME PumpLoseClaim PROVE Ownership'
  BY <1>8 DEF PumpLoseClaim, rowVars, memVars, runVars, userVars, lifeVars
<1>9. ASSUME PumpRelease PROVE Ownership'
  BY <1>9 DEF PumpRelease, DropReservation, rowVars, userVars, lifeVars
<1>10. ASSUME PumpTail PROVE Ownership'
  BY <1>10 DEF PumpTail, StartSweep, CancelledWithBytes, rowVars, memVars, runVars,
     userVars, lifeVars
<1>11. ASSUME PumpSpawn PROVE Ownership'
  BY <1>11 DEF PumpSpawn, rowVars, memVars, userVars, lifeVars
<1>12. ASSUME NEW i \in Ids, DialOk(i) PROVE Ownership'
  BY <1>12 DEF DialOk, Goto, rowVars, memVars, pumpVars, userVars, lifeVars
<1>13. ASSUME NEW i \in Ids, DialFails(i) PROVE Ownership'
  BY <1>13 DEF DialFails, Goto, Fail, rowVars, memVars, pumpVars, userVars, lifeVars
<1>14. ASSUME NEW i \in Ids, OpenPart(i) PROVE Ownership'
  BY <1>14 DEF OpenPart, Goto, rowVars, memVars, pumpVars, userVars, lifeVars
<1>15. ASSUME NEW i \in Ids, WriteBytes(i) PROVE Ownership'
  BY <1>15 DEF WriteBytes, rowVars, memVars, pumpVars, userVars, lifeVars
<1>16. ASSUME NEW i \in Ids, PersistProgress(i) PROVE Ownership'
  BY <1>16 DEF PersistProgress, memVars, pumpVars, runVars, userVars, lifeVars
<1>17. ASSUME NEW i \in Ids, EngineSucceeds(i) PROVE Ownership'
  BY <1>17 DEF EngineSucceeds, Goto, rowVars, memVars, pumpVars, userVars, lifeVars
<1>18. ASSUME NEW i \in Ids, EngineFails(i) PROVE Ownership'
  BY <1>18 DEF EngineFails, Goto, Fail, rowVars, memVars, pumpVars, userVars, lifeVars
<1>19. ASSUME NEW i \in Ids, ChunkStateLost(i) PROVE Ownership'
  BY <1>19 DEF ChunkStateLost, Goto, rowVars, memVars, pumpVars, userVars, lifeVars
<1>20. ASSUME NEW i \in Ids, DropLostPart(i) PROVE Ownership'
  BY <1>20 DEF DropLostPart, Goto, rowVars, memVars, pumpVars, userVars, lifeVars
<1>21. ASSUME NEW i \in Ids, ResetLost(i) PROVE Ownership'
  BY <1>21 DEF ResetLost, AttemptsLeft, Goto, Fail, memVars, pumpVars, userVars, lifeVars
<1>22. ASSUME NEW i \in Ids, Restart(i) PROVE Ownership'
  BY <1>22 DEF Restart, SetState, ScheduleRetry, Goto, rowVars, memVars, pumpVars, userVars,
     lifeVars
<1>23. ASSUME NEW i \in Ids, FinalProgress(i) PROVE Ownership'
  BY <1>23 DEF FinalProgress, Goto, memVars, pumpVars, userVars, lifeVars
<1>24. ASSUME NEW i \in Ids, Complete(i) PROVE Ownership'
  BY <1>24 DEF Complete, SetState, Goto, memVars, pumpVars, userVars, lifeVars
<1>25. ASSUME NEW i \in Ids, FinishStopped(i) PROVE Ownership'
  BY <1>25 DEF FinishStopped, Goto, SettleStopped, rowVars, memVars, pumpVars, userVars,
     lifeVars
<1>26. ASSUME NEW i \in Ids, FinishFailed(i) PROVE Ownership'
  BY <1>26 DEF FinishFailed, Goto, rowVars, memVars, pumpVars, userVars, lifeVars
<1>27. ASSUME NEW i \in Ids, ReadMark(i) PROVE Ownership'
  BY <1>27 DEF ReadMark, Goto, rowVars, memVars, pumpVars, userVars, lifeVars
<1>28. ASSUME NEW i \in Ids, RequeueRow(i) PROVE Ownership'
  <2>1. UNCHANGED <<memVars, pumpVars>> /\ pc[i] # "idle"
    BY <1>28 DEF RequeueRow
  <2>2. PICK there \in RunnerPc \ {"idle"} : pc' = [pc EXCEPT ![i] = there]
    BY <1>28 DEF RequeueRow, Goto
  <2>3. QED BY <2>1, <2>2 DEF memVars, pumpVars
<1>29. ASSUME NEW i \in Ids, SettleAgain(i) PROVE Ownership'
  BY <1>29 DEF SettleAgain, Goto, SettleStopped, rowVars, memVars, pumpVars, userVars,
     lifeVars
<1>30. ASSUME NEW i \in Ids, Settle(i) PROVE Ownership'
  BY <1>30 DEF Settle, Goto, SettleStopped, rowVars, memVars, pumpVars, userVars, lifeVars
<1>31. ASSUME NEW i \in Ids, Ladder(i) PROVE Ownership'
  BY <1>31 DEF Ladder, AttemptsLeft, SetState, ScheduleRetry, Goto, rowVars, memVars,
     pumpVars, userVars, lifeVars
<1>32. ASSUME NEW i \in Ids, Discarded(i) PROVE Ownership'
  BY <1>32 DEF Discarded, Goto, rowVars, memVars, pumpVars, userVars, lifeVars
<1>33. ASSUME NEW i \in Ids, Release(i) PROVE Ownership'
  BY <1>33 DEF Release, DropReservation, Goto, rowVars, pumpVars, userVars, lifeVars
<1>34. ASSUME NEW i \in Ids, Tail(i) PROVE Ownership'
  BY <1>34 DEF Tail, StartSweep, CancelledWithBytes, rowVars, memVars, pumpVars, userVars,
     lifeVars
<1>35. ASSUME NEW a \in Kinds \X Ids, Discard(a) PROVE Ownership'
  BY <1>35 DEF Discard, DiscardRead, DiscardOwners, DiscardUnlink, DiscardFails,
     DiscardReset, DiscardGoto, CancelledWithBytes, rowVars, memVars, pumpVars, runVars,
     userVars, lifeVars
<1>36. ASSUME NEW k \in Clickers, Click(k) PROVE Ownership'
  BY <1>36 DEF Click, ClickPause, ClickResume, Cancel, Enqueue, CancelQueued, RetryFailed,
     SetState, CleanSlate, ClickGoto, MarkCancelled, Idle, rowVars, memVars, pumpVars,
     runVars, userVars, lifeVars
<1>37. ASSUME NEW k \in Clickers, NEW i \in Ids, PauseWrite(k, i) PROVE Ownership'
  BY <1>37 DEF PauseWrite, SetState, ClickGoto, ClickOn, memVars, pumpVars, runVars,
     lifeVars
<1>38. ASSUME NEW k \in Clickers, NEW i \in Ids, ResumeWrite(k, i) PROVE Ownership'
  BY <1>38 DEF ResumeWrite, SetState, ClickDone, NoClick, ClickOn, memVars, pumpVars,
     runVars, lifeVars
<1>39. ASSUME NEW k \in Clickers, NEW i \in Ids, StopRow(k, i) PROVE Ownership'
  BY <1>39 DEF StopRow, ClickGoto, ClickDone, NoClick, rowVars, pumpVars, runVars, lifeVars
<1>40. ASSUME NEW k \in Clickers, SweepRead(k) PROVE Ownership'
  BY <1>40 DEF SweepRead, ClickGoto, rowVars, memVars, pumpVars, runVars, lifeVars
<1>41. ASSUME NEW k \in Clickers, SweepIdle(k) PROVE Ownership'
  BY <1>41 DEF SweepIdle, ClickDone, NoClick, StartSweep, rowVars, memVars, pumpVars,
     runVars, lifeVars
<1>42. ASSUME NEW g \in Togglers, TogglePause(g) PROVE Ownership'
  BY <1>42 DEF TogglePause, ToggleGoto, rowVars, memVars, pumpVars, runVars, lifeVars
<1>43. ASSUME NEW g \in Togglers, PersistPause(g) PROVE Ownership'
  BY <1>43 DEF PersistPause, ToggleGoto, rowVars, memVars, pumpVars, runVars, lifeVars
<1>44. ASSUME NEW g \in Togglers, FlagPaused(g) PROVE Ownership'
  BY <1>44 DEF FlagPaused, ToggleGoto, rowVars, pumpVars, runVars, lifeVars
<1>45. ASSUME NEW g \in Togglers, StopAllForPause(g) PROVE Ownership'
  BY <1>45 DEF StopAllForPause, ToggleGoto, rowVars, pumpVars, runVars, lifeVars
<1>46. ASSUME NEW g \in Togglers, SnapshotRunning(g) PROVE Ownership'
  BY <1>46 DEF SnapshotRunning, ToggleGoto, rowVars, memVars, pumpVars, runVars, lifeVars
<1>47. ASSUME NEW g \in Togglers, HealOrphans(g) PROVE Ownership'
  BY <1>47 DEF HealOrphans, CleanSlate, ToggleGoto, memVars, pumpVars, runVars, lifeVars
<1>48. ASSUME NEW g \in Togglers, FlagResumed(g) PROVE Ownership'
  BY <1>48 DEF FlagResumed, ToggleGoto, rowVars, pumpVars, runVars, lifeVars
<1>49. ASSUME BeginStop PROVE Ownership'
  BY <1>49 DEF BeginStop, rowVars, pumpVars, runVars, userVars
<1>50. ASSUME StopAllForExit PROVE Ownership'
  BY <1>50 DEF StopAllForExit, rowVars, pumpVars, runVars, userVars
<1>51. ASSUME AwaitStop PROVE Ownership'
  BY <1>51 DEF AwaitStop, rowVars, memVars, pumpVars, runVars, userVars
<1>52. ASSUME GraceExpires PROVE Ownership'
  BY <1>52 DEF GraceExpires, rowVars, memVars, pumpVars, runVars, userVars
<1>53. ASSUME Relaunch PROVE Ownership'
  BY <1>53 DEF Relaunch, CleanSlate, NoClick, NoToggle, IdleDiscards
<1>54. CASE UNCHANGED vars
  BY <1>54 DEF vars, rowVars, memVars, pumpVars, runVars, userVars, lifeVars
<1>55. QED BY <1>1, <1>2, <1>3, <1>4, <1>5, <1>6, <1>7, <1>8, <1>9, <1>10, <1>11, <1>12,
     <1>13, <1>14, <1>15, <1>16, <1>17, <1>18, <1>19, <1>20, <1>21, <1>22, <1>23, <1>24,
     <1>25, <1>26, <1>27, <1>28, <1>29, <1>30, <1>31, <1>32, <1>33, <1>34, <1>35, <1>36,
     <1>37, <1>38, <1>39, <1>40, <1>41, <1>42, <1>43, <1>44, <1>45, <1>46, <1>47, <1>48,
     <1>49, <1>50, <1>51, <1>52, <1>53, <1>54 DEF Next, Pump, Engine, Unwind, Follow, SetPaused

\* Only a free file is taken, and a registration gives back only its own.
LEMMA FileLocksStep ==
  ASSUME TypeOK, Ownership, FileLocks, [Next]_vars
  PROVE  FileLocks'
<1> USE IdsAssumption, RowAssumption, AttemptAssumption
<1> USE DEF TypeOK, RowsTypeOK, MemTypeOK, PumpTypeOK, RunTypeOK, Snapshot, InState,
    FileLocks, Ownership, HeldByPump
<1>1. ASSUME NEW i \in Ids, BackoffElapses(i) PROVE FileLocks'
  BY <1>1 DEF BackoffElapses, memVars, pumpVars, runVars, userVars, lifeVars
<1>2. ASSUME PumpEnter PROVE FileLocks'
  BY <1>2 DEF PumpEnter, rowVars, memVars, runVars, userVars, lifeVars
<1>3. ASSUME PumpList PROVE FileLocks'
  BY <1>3 DEF PumpList, rowVars, memVars, runVars, userVars, lifeVars
<1>4. ASSUME PumpReturn PROVE FileLocks'
  BY <1>4 DEF PumpReturn, Halted, rowVars, memVars, runVars, userVars, lifeVars
<1>5. ASSUME PumpSkip PROVE FileLocks'
  BY <1>5 DEF PumpSkip, Halted, IsHead, rowVars, memVars, runVars, userVars, lifeVars
<1>6. ASSUME PumpRegister PROVE FileLocks'
  BY <1>6 DEF PumpRegister, Free, Halted, IsHead, rowVars, userVars, lifeVars
<1>7. ASSUME PumpClaim PROVE FileLocks'
  BY <1>7 DEF PumpClaim, SetState, memVars, runVars, userVars, lifeVars
<1>8. ASSUME PumpLoseClaim PROVE FileLocks'
  BY <1>8 DEF PumpLoseClaim, rowVars, memVars, runVars, userVars, lifeVars
<1>9. ASSUME PumpRelease PROVE FileLocks'
  BY <1>9 DEF PumpRelease, DropReservation, rowVars, userVars, lifeVars
<1>10. ASSUME PumpTail PROVE FileLocks'
  BY <1>10 DEF PumpTail, StartSweep, CancelledWithBytes, rowVars, memVars, runVars,
     userVars, lifeVars
<1>11. ASSUME PumpSpawn PROVE FileLocks'
  BY <1>11 DEF PumpSpawn, rowVars, memVars, userVars, lifeVars
<1>12. ASSUME NEW i \in Ids, Engine(i) PROVE FileLocks'
  BY <1>12 DEF Engine, DialOk, DialFails, OpenPart, WriteBytes, PersistProgress,
     EngineSucceeds, EngineFails, ChunkStateLost, Goto, Fail, rowVars, memVars, pumpVars,
     runVars, userVars, lifeVars
<1>13. ASSUME NEW i \in Ids, DropLostPart(i) PROVE FileLocks'
  BY <1>13 DEF DropLostPart, Goto, rowVars, memVars, pumpVars, userVars, lifeVars
<1>14. ASSUME NEW i \in Ids, ResetLost(i) PROVE FileLocks'
  BY <1>14 DEF ResetLost, AttemptsLeft, Goto, Fail, memVars, pumpVars, userVars, lifeVars
<1>15. ASSUME NEW i \in Ids, Restart(i) PROVE FileLocks'
  BY <1>15 DEF Restart, SetState, ScheduleRetry, Goto, rowVars, memVars, pumpVars, userVars,
     lifeVars
<1>16. ASSUME NEW i \in Ids, FinalProgress(i) PROVE FileLocks'
  BY <1>16 DEF FinalProgress, Goto, memVars, pumpVars, userVars, lifeVars
<1>17. ASSUME NEW i \in Ids, Complete(i) PROVE FileLocks'
  BY <1>17 DEF Complete, SetState, Goto, memVars, pumpVars, userVars, lifeVars
<1>18. ASSUME NEW i \in Ids, FinishStopped(i) PROVE FileLocks'
  BY <1>18 DEF FinishStopped, Goto, SettleStopped, rowVars, memVars, pumpVars, userVars,
     lifeVars
<1>19. ASSUME NEW i \in Ids, FinishFailed(i) PROVE FileLocks'
  BY <1>19 DEF FinishFailed, Goto, rowVars, memVars, pumpVars, userVars, lifeVars
<1>20. ASSUME NEW i \in Ids, ReadMark(i) PROVE FileLocks'
  BY <1>20 DEF ReadMark, Goto, rowVars, memVars, pumpVars, userVars, lifeVars
<1>21. ASSUME NEW i \in Ids, RequeueRow(i) PROVE FileLocks'
  BY <1>21 DEF RequeueRow, CleanSlate, Goto, rowVars, memVars, pumpVars, userVars, lifeVars
<1>22. ASSUME NEW i \in Ids, SettleAgain(i) PROVE FileLocks'
  BY <1>22 DEF SettleAgain, Goto, SettleStopped, rowVars, memVars, pumpVars, userVars,
     lifeVars
<1>23. ASSUME NEW i \in Ids, Settle(i) PROVE FileLocks'
  BY <1>23 DEF Settle, Goto, SettleStopped, rowVars, memVars, pumpVars, userVars, lifeVars
<1>24. ASSUME NEW i \in Ids, Ladder(i) PROVE FileLocks'
  BY <1>24 DEF Ladder, AttemptsLeft, SetState, ScheduleRetry, Goto, rowVars, memVars,
     pumpVars, userVars, lifeVars
<1>25. ASSUME NEW i \in Ids, Discarded(i) PROVE FileLocks'
  BY <1>25 DEF Discarded, Goto, rowVars, memVars, pumpVars, userVars, lifeVars
<1>26. ASSUME NEW i \in Ids, Release(i) PROVE FileLocks'
  BY <1>26 DEF Release, DropReservation, Goto, rowVars, pumpVars, userVars, lifeVars
<1>27. ASSUME NEW i \in Ids, Tail(i) PROVE FileLocks'
  BY <1>27 DEF Tail, StartSweep, CancelledWithBytes, rowVars, memVars, pumpVars, userVars,
     lifeVars
<1>28. ASSUME NEW a \in Kinds \X Ids, Discard(a) PROVE FileLocks'
  BY <1>28 DEF Discard, DiscardRead, DiscardOwners, DiscardUnlink, DiscardFails,
     DiscardReset, DiscardGoto, CancelledWithBytes, rowVars, memVars, pumpVars, runVars,
     userVars, lifeVars
<1>29. ASSUME NEW k \in Clickers, Click(k) PROVE FileLocks'
  BY <1>29 DEF Click, ClickPause, ClickResume, Cancel, Enqueue, CancelQueued, RetryFailed,
     SetState, CleanSlate, ClickGoto, MarkCancelled, Idle, rowVars, memVars, pumpVars,
     runVars, userVars, lifeVars
<1>30. ASSUME NEW k \in Clickers, Follow(k) PROVE FileLocks'
  BY <1>30 DEF Follow, PauseWrite, ResumeWrite, StopRow, SweepRead, SweepIdle, SetState,
     ClickGoto, ClickDone, NoClick, ClickOn, StartSweep, rowVars, memVars, pumpVars,
     runVars, lifeVars
<1>31. ASSUME NEW g \in Togglers, TogglePause(g) PROVE FileLocks'
  BY <1>31 DEF TogglePause, ToggleGoto, rowVars, memVars, pumpVars, runVars, lifeVars
<1>32. ASSUME NEW g \in Togglers, SetPaused(g) PROVE FileLocks'
  BY <1>32 DEF SetPaused, PersistPause, FlagPaused, StopAllForPause, SnapshotRunning,
     HealOrphans, FlagResumed, CleanSlate, ToggleGoto, rowVars, memVars, pumpVars, runVars,
     lifeVars
<1>33. ASSUME BeginStop PROVE FileLocks'
  BY <1>33 DEF BeginStop, rowVars, pumpVars, runVars, userVars
<1>34. ASSUME StopAllForExit PROVE FileLocks'
  BY <1>34 DEF StopAllForExit, rowVars, pumpVars, runVars, userVars
<1>35. ASSUME AwaitStop PROVE FileLocks'
  BY <1>35 DEF AwaitStop, rowVars, memVars, pumpVars, runVars, userVars
<1>36. ASSUME GraceExpires PROVE FileLocks'
  BY <1>36 DEF GraceExpires, rowVars, memVars, pumpVars, runVars, userVars
<1>37. ASSUME Relaunch PROVE FileLocks'
  BY <1>37 DEF Relaunch, CleanSlate, NoClick, NoToggle, IdleDiscards
<1>38. CASE UNCHANGED vars
  BY <1>38 DEF vars, rowVars, memVars, pumpVars, runVars, userVars, lifeVars
<1>39. QED BY <1>1, <1>2, <1>3, <1>4, <1>5, <1>6, <1>7, <1>8, <1>9, <1>10, <1>11, <1>12,
     <1>13, <1>14, <1>15, <1>16, <1>17, <1>18, <1>19, <1>20, <1>21, <1>22, <1>23, <1>24,
     <1>25, <1>26, <1>27, <1>28, <1>29, <1>30, <1>31, <1>32, <1>33, <1>34, <1>35, <1>36,
     <1>37, <1>38 DEF Next, Pump, Unwind

\* Only the claim makes a row active, and every path to release first writes
\* the row or finds that it is no longer active.
LEMMA ActiveOwnedStep ==
  ASSUME TypeOK, Ownership, ActiveOwned, [Next]_vars
  PROVE  ActiveOwned'
<1> USE IdsAssumption, RowAssumption, AttemptAssumption
<1> USE DEF TypeOK, RowsTypeOK, MemTypeOK, PumpTypeOK, RunTypeOK, Snapshot, InState,
    RunnerPc, Writing, Cancellable, Unfinished, QueuedState, ActiveOwned, Ownership,
    HeldByPump
<1>1. ASSUME NEW i \in Ids, BackoffElapses(i) PROVE ActiveOwned'
  BY <1>1 DEF BackoffElapses, memVars, pumpVars, runVars, userVars, lifeVars
<1>2. ASSUME PumpEnter PROVE ActiveOwned'
  BY <1>2 DEF PumpEnter, rowVars, memVars, runVars, userVars, lifeVars
<1>3. ASSUME PumpList PROVE ActiveOwned'
  BY <1>3 DEF PumpList, rowVars, memVars, runVars, userVars, lifeVars
<1>4. ASSUME PumpReturn PROVE ActiveOwned'
  BY <1>4 DEF PumpReturn, Halted, rowVars, memVars, runVars, userVars, lifeVars
<1>5. ASSUME PumpSkip PROVE ActiveOwned'
  BY <1>5 DEF PumpSkip, Halted, IsHead, rowVars, memVars, runVars, userVars, lifeVars
<1>6. ASSUME PumpRegister PROVE ActiveOwned'
  BY <1>6 DEF PumpRegister, Free, Halted, IsHead, rowVars, userVars, lifeVars
<1>7. ASSUME PumpClaim PROVE ActiveOwned'
  BY <1>7 DEF PumpClaim, SetState, memVars, runVars, userVars, lifeVars
<1>8. ASSUME PumpLoseClaim PROVE ActiveOwned'
  BY <1>8 DEF PumpLoseClaim, rowVars, memVars, runVars, userVars, lifeVars
<1>9. ASSUME PumpRelease PROVE ActiveOwned'
  BY <1>9 DEF PumpRelease, DropReservation, rowVars, userVars, lifeVars
<1>10. ASSUME PumpTail PROVE ActiveOwned'
  BY <1>10 DEF PumpTail, StartSweep, CancelledWithBytes, rowVars, memVars, runVars,
     userVars, lifeVars
<1>11. ASSUME PumpSpawn PROVE ActiveOwned'
  BY <1>11 DEF PumpSpawn, rowVars, memVars, userVars, lifeVars
<1>12. ASSUME NEW i \in Ids, DialOk(i) PROVE ActiveOwned'
  BY <1>12 DEF DialOk, Goto, rowVars, memVars, pumpVars, userVars, lifeVars
<1>13. ASSUME NEW i \in Ids, DialFails(i) PROVE ActiveOwned'
  BY <1>13 DEF DialFails, Goto, Fail, rowVars, memVars, pumpVars, userVars, lifeVars
<1>14. ASSUME NEW i \in Ids, OpenPart(i) PROVE ActiveOwned'
  BY <1>14 DEF OpenPart, Goto, rowVars, memVars, pumpVars, userVars, lifeVars
<1>15. ASSUME NEW i \in Ids, WriteBytes(i) PROVE ActiveOwned'
  BY <1>15 DEF WriteBytes, rowVars, memVars, pumpVars, userVars, lifeVars
<1>16. ASSUME NEW i \in Ids, PersistProgress(i) PROVE ActiveOwned'
  BY <1>16 DEF PersistProgress, memVars, pumpVars, runVars, userVars, lifeVars
<1>17. ASSUME NEW i \in Ids, EngineSucceeds(i) PROVE ActiveOwned'
  BY <1>17 DEF EngineSucceeds, Goto, rowVars, memVars, pumpVars, userVars, lifeVars
<1>18. ASSUME NEW i \in Ids, EngineFails(i) PROVE ActiveOwned'
  BY <1>18 DEF EngineFails, Goto, Fail, rowVars, memVars, pumpVars, userVars, lifeVars
<1>19. ASSUME NEW i \in Ids, ChunkStateLost(i) PROVE ActiveOwned'
  BY <1>19 DEF ChunkStateLost, Goto, rowVars, memVars, pumpVars, userVars, lifeVars
<1>20. ASSUME NEW i \in Ids, DropLostPart(i) PROVE ActiveOwned'
  BY <1>20 DEF DropLostPart, Goto, rowVars, memVars, pumpVars, userVars, lifeVars
<1>21. ASSUME NEW i \in Ids, ResetLost(i) PROVE ActiveOwned'
  BY <1>21 DEF ResetLost, AttemptsLeft, Goto, Fail, memVars, pumpVars, userVars, lifeVars
<1>22. ASSUME NEW i \in Ids, Restart(i) PROVE ActiveOwned'
  BY <1>22 DEF Restart, SetState, ScheduleRetry, Goto, rowVars, memVars, pumpVars, userVars,
     lifeVars
<1>23. ASSUME NEW i \in Ids, FinalProgress(i) PROVE ActiveOwned'
  BY <1>23 DEF FinalProgress, Goto, memVars, pumpVars, userVars, lifeVars
<1>24. ASSUME NEW i \in Ids, Complete(i) PROVE ActiveOwned'
  BY <1>24 DEF Complete, SetState, Goto, memVars, pumpVars, userVars, lifeVars
<1>25. ASSUME NEW i \in Ids, FinishStopped(i) PROVE ActiveOwned'
  BY <1>25 DEF FinishStopped, Goto, SettleStopped, rowVars, memVars, pumpVars, userVars,
     lifeVars
<1>26. ASSUME NEW i \in Ids, FinishFailed(i) PROVE ActiveOwned'
  BY <1>26 DEF FinishFailed, Goto, rowVars, memVars, pumpVars, userVars, lifeVars
<1>27. ASSUME NEW i \in Ids, ReadMark(i) PROVE ActiveOwned'
  BY <1>27 DEF ReadMark, Goto, rowVars, memVars, pumpVars, userVars, lifeVars
<1>28. ASSUME NEW i \in Ids, RequeueRow(i) PROVE ActiveOwned'
  <2>1. UNCHANGED <<memVars, pumpVars, err, runAttempt, tail>>
    BY <1>28 DEF RequeueRow, memVars, pumpVars
  <2>2. CASE state[i] = "active" /\ CleanSlate({i}) /\ Goto(i, "release")
    BY <2>1, <2>2 DEF CleanSlate, Goto, memVars, pumpVars
  <2>3. CASE UNCHANGED rowVars /\ state[i] # "active" /\ Goto(i, "settleAgain")
    BY <2>1, <2>3 DEF Goto, rowVars, memVars, pumpVars
  <2>4. CASE UNCHANGED rowVars /\ DbErrors /\ Goto(i, "release")
    BY <2>1, <2>4 DEF Goto, rowVars, memVars, pumpVars
  <2>5. QED BY <1>28, <2>2, <2>3, <2>4 DEF RequeueRow
<1>29. ASSUME NEW i \in Ids, SettleAgain(i) PROVE ActiveOwned'
  BY <1>29 DEF SettleAgain, Goto, SettleStopped, rowVars, memVars, pumpVars, userVars,
     lifeVars
<1>30. ASSUME NEW i \in Ids, Settle(i) PROVE ActiveOwned'
  BY <1>30 DEF Settle, Goto, SettleStopped, rowVars, memVars, pumpVars, userVars, lifeVars
<1>31. ASSUME NEW i \in Ids, Ladder(i) PROVE ActiveOwned'
  BY <1>31 DEF Ladder, AttemptsLeft, SetState, ScheduleRetry, Goto, rowVars, memVars,
     pumpVars, userVars, lifeVars
<1>32. ASSUME NEW i \in Ids, Discarded(i) PROVE ActiveOwned'
  BY <1>32 DEF Discarded, Goto, rowVars, memVars, pumpVars, userVars, lifeVars
<1>33. ASSUME NEW i \in Ids, Release(i) PROVE ActiveOwned'
  BY <1>33 DEF Release, DropReservation, Goto, rowVars, pumpVars, userVars, lifeVars
<1>34. ASSUME NEW i \in Ids, Tail(i) PROVE ActiveOwned'
  BY <1>34 DEF Tail, StartSweep, CancelledWithBytes, rowVars, memVars, pumpVars, userVars,
     lifeVars
<1>35. ASSUME NEW a \in Kinds \X Ids, Discard(a) PROVE ActiveOwned'
  BY <1>35 DEF Discard, DiscardRead, DiscardOwners, DiscardUnlink, DiscardFails,
     DiscardReset, DiscardGoto, CancelledWithBytes, rowVars, memVars, pumpVars, runVars,
     userVars, lifeVars
<1>36. ASSUME NEW k \in Clickers, NEW i \in Ids, ClickPause(k, i) PROVE ActiveOwned'
  BY <1>36 DEF ClickPause, ClickGoto, Idle, rowVars, memVars, pumpVars, runVars, lifeVars
<1>37. ASSUME NEW k \in Clickers, NEW i \in Ids, ClickResume(k, i) PROVE ActiveOwned'
  BY <1>37 DEF ClickResume, ClickGoto, Idle, rowVars, memVars, pumpVars, runVars, lifeVars
<1>38. ASSUME NEW k \in Clickers, NEW S \in SUBSET Ids, Cancel(k, S) PROVE ActiveOwned'
  BY <1>38 DEF Cancel, ClickGoto, MarkCancelled, Idle, memVars, pumpVars, runVars, lifeVars
<1>39. ASSUME NEW k \in Clickers, NEW i \in Ids, Enqueue(k, i) PROVE ActiveOwned'
  BY <1>39 DEF Enqueue, SetState, Idle, memVars, pumpVars, runVars, userVars, lifeVars
<1>40. ASSUME NEW k \in Clickers, CancelQueued(k) PROVE ActiveOwned'
  BY <1>40 DEF CancelQueued, ClickGoto, MarkCancelled, Idle, memVars, pumpVars, runVars,
     lifeVars
<1>41. ASSUME NEW k \in Clickers, RetryFailed(k) PROVE ActiveOwned'
  BY <1>41 DEF RetryFailed, CleanSlate, Idle, memVars, pumpVars, runVars, userVars, lifeVars
<1>42. ASSUME NEW k \in Clickers, NEW i \in Ids, PauseWrite(k, i) PROVE ActiveOwned'
  BY <1>42 DEF PauseWrite, SetState, ClickGoto, ClickOn, memVars, pumpVars, runVars,
     lifeVars
<1>43. ASSUME NEW k \in Clickers, NEW i \in Ids, ResumeWrite(k, i) PROVE ActiveOwned'
  BY <1>43 DEF ResumeWrite, SetState, ClickDone, NoClick, ClickOn, memVars, pumpVars,
     runVars, lifeVars
<1>44. ASSUME NEW k \in Clickers, NEW i \in Ids, StopRow(k, i) PROVE ActiveOwned'
  BY <1>44 DEF StopRow, ClickGoto, ClickDone, NoClick, rowVars, pumpVars, runVars, lifeVars
<1>45. ASSUME NEW k \in Clickers, SweepRead(k) PROVE ActiveOwned'
  BY <1>45 DEF SweepRead, ClickGoto, rowVars, memVars, pumpVars, runVars, lifeVars
<1>46. ASSUME NEW k \in Clickers, SweepIdle(k) PROVE ActiveOwned'
  BY <1>46 DEF SweepIdle, ClickDone, NoClick, StartSweep, rowVars, memVars, pumpVars,
     runVars, lifeVars
<1>47. ASSUME NEW g \in Togglers, TogglePause(g) PROVE ActiveOwned'
  BY <1>47 DEF TogglePause, ToggleGoto, rowVars, memVars, pumpVars, runVars, lifeVars
<1>48. ASSUME NEW g \in Togglers, PersistPause(g) PROVE ActiveOwned'
  BY <1>48 DEF PersistPause, ToggleGoto, rowVars, memVars, pumpVars, runVars, lifeVars
<1>49. ASSUME NEW g \in Togglers, FlagPaused(g) PROVE ActiveOwned'
  BY <1>49 DEF FlagPaused, ToggleGoto, rowVars, pumpVars, runVars, lifeVars
<1>50. ASSUME NEW g \in Togglers, StopAllForPause(g) PROVE ActiveOwned'
  BY <1>50 DEF StopAllForPause, ToggleGoto, rowVars, pumpVars, runVars, lifeVars
<1>51. ASSUME NEW g \in Togglers, SnapshotRunning(g) PROVE ActiveOwned'
  BY <1>51 DEF SnapshotRunning, ToggleGoto, rowVars, memVars, pumpVars, runVars, lifeVars
<1>52. ASSUME NEW g \in Togglers, HealOrphans(g) PROVE ActiveOwned'
  BY <1>52 DEF HealOrphans, CleanSlate, ToggleGoto, memVars, pumpVars, runVars, lifeVars
<1>53. ASSUME NEW g \in Togglers, FlagResumed(g) PROVE ActiveOwned'
  BY <1>53 DEF FlagResumed, ToggleGoto, rowVars, pumpVars, runVars, lifeVars
<1>54. ASSUME BeginStop PROVE ActiveOwned'
  BY <1>54 DEF BeginStop, rowVars, pumpVars, runVars, userVars
<1>55. ASSUME StopAllForExit PROVE ActiveOwned'
  BY <1>55 DEF StopAllForExit, rowVars, pumpVars, runVars, userVars
<1>56. ASSUME AwaitStop PROVE ActiveOwned'
  BY <1>56 DEF AwaitStop, rowVars, memVars, pumpVars, runVars, userVars
<1>57. ASSUME GraceExpires PROVE ActiveOwned'
  BY <1>57 DEF GraceExpires, rowVars, memVars, pumpVars, runVars, userVars
<1>58. ASSUME Relaunch PROVE ActiveOwned'
  BY <1>58 DEF Relaunch, CleanSlate, NoClick, NoToggle, IdleDiscards
<1>59. CASE UNCHANGED vars
  BY <1>59 DEF vars, rowVars, memVars, pumpVars, runVars, userVars, lifeVars
<1>60. QED BY <1>1, <1>2, <1>3, <1>4, <1>5, <1>6, <1>7, <1>8, <1>9, <1>10, <1>11, <1>12,
     <1>13, <1>14, <1>15, <1>16, <1>17, <1>18, <1>19, <1>20, <1>21, <1>22, <1>23, <1>24,
     <1>25, <1>26, <1>27, <1>28, <1>29, <1>30, <1>31, <1>32, <1>33, <1>34, <1>35, <1>36,
     <1>37, <1>38, <1>39, <1>40, <1>41, <1>42, <1>43, <1>44, <1>45, <1>46, <1>47, <1>48,
     <1>49, <1>50, <1>51, <1>52, <1>53, <1>54, <1>55, <1>56, <1>57, <1>58, <1>59 DEF Next, Pump, Engine, Unwind, Click, Follow, SetPaused

-----------------------------------------------------------------------------
(* The pump's list. *)

\* ScheduleRetryIfActive moves the attempts of an active row only, and no
\* active row is on the list.
LEMMA RetryStep ==
  ASSUME TypeOK, Ownership, Snapshots, NEW i \in Ids, NEW later \in BOOLEAN,
         state[i] = "active", pc[i] # "idle", runAttempt[i] + 1 < MaxAttempts,
         ScheduleRetry(i, later), Goto(i, "release"),
         UNCHANGED <<memVars, pumpVars, runAttempt>>
  PROVE  Snapshots'
<1> USE IdsAssumption, AttemptAssumption
<1> USE DEF TypeOK, RowsTypeOK, MemTypeOK, PumpTypeOK, RunTypeOK, Snapshot, AttemptsLeft
<1>1. i \in cancels /\ runAttempt[i] = attempt[i]
  BY DEF Ownership, Snapshots
<1>2. /\ state' = [state EXCEPT ![i] = "pending"]
      /\ attempt' = [attempt EXCEPT ![i] = @ + 1]
      /\ pc' = [pc EXCEPT ![i] = "release"]
      /\ UNCHANGED <<cancels, pumpPc, todo, cur, runAttempt>>
  BY DEF ScheduleRetry, SetState, Goto, memVars, pumpVars
<1>3. \A r \in todo : r.id \in Ids /\ r.id # i
  BY DEF Snapshots, Listed
<1>4. pumpPc = "claim" => cur \in Ids /\ cur # i
  BY DEF Snapshots, Listed, Ownership
<1>5. \A r \in todo : r.id # cur /\ Listed(r.id)' /\ r.attempt = attempt'[r.id]
  BY <1>2, <1>3 DEF Snapshots, Listed
<1>6. pumpPc = "claim" => Listed(cur)' /\ runAttempt[cur] = attempt'[cur]
  BY <1>2, <1>4 DEF Snapshots, Listed
<1>7. \A j \in cancels : state'[j] = "active" => runAttempt[j] = attempt'[j]
  BY <1>2 DEF Snapshots
<1>8. \A j \in Ids : attempt'[j] < MaxAttempts
  BY <1>1, <1>2 DEF Snapshots
<1>9. \A j \in Ids : pc'[j] = "restart" => runAttempt[j] + 1 < MaxAttempts
  BY <1>2 DEF Snapshots
<1>10. QED BY <1>2, <1>5, <1>6, <1>7, <1>8, <1>9 DEF Snapshots
\* What the pump read stays true until it claims, and what the runner took
\* from it stays true while the row is active.
LEMMA SnapshotsStep ==
  ASSUME TypeOK, Ownership, Snapshots, [Next]_vars
  PROVE  Snapshots'
<1> USE IdsAssumption, RowAssumption, AttemptAssumption
<1> USE DEF TypeOK, RowsTypeOK, MemTypeOK, PumpTypeOK, RunTypeOK, Snapshot, InState,
    RunnerPc, Writing, Cancellable, Unfinished, QueuedState, AttemptsLeft, Snapshots,
    Listed, Ownership, HeldByPump
<1>1. ASSUME NEW i \in Ids, BackoffElapses(i) PROVE Snapshots'
  BY <1>1 DEF BackoffElapses, memVars, pumpVars, runVars, userVars, lifeVars
<1>2. ASSUME PumpEnter PROVE Snapshots'
  BY <1>2 DEF PumpEnter, rowVars, memVars, runVars, userVars, lifeVars
<1>3. ASSUME PumpList PROVE Snapshots'
  BY <1>3 DEF PumpList, rowVars, memVars, runVars, userVars, lifeVars
<1>4. ASSUME PumpReturn PROVE Snapshots'
  BY <1>4 DEF PumpReturn, Halted, rowVars, memVars, runVars, userVars, lifeVars
<1>5. ASSUME PumpSkip PROVE Snapshots'
  BY <1>5 DEF PumpSkip, Halted, IsHead, rowVars, memVars, runVars, userVars, lifeVars
<1>6. ASSUME PumpRegister PROVE Snapshots'
  BY <1>6 DEF PumpRegister, Free, Halted, IsHead, rowVars, userVars, lifeVars
<1>7. ASSUME PumpClaim PROVE Snapshots'
  BY <1>7 DEF PumpClaim, SetState, memVars, runVars, userVars, lifeVars
<1>8. ASSUME PumpLoseClaim PROVE Snapshots'
  BY <1>8 DEF PumpLoseClaim, rowVars, memVars, runVars, userVars, lifeVars
<1>9. ASSUME PumpRelease PROVE Snapshots'
  BY <1>9 DEF PumpRelease, DropReservation, rowVars, userVars, lifeVars
<1>10. ASSUME PumpTail PROVE Snapshots'
  BY <1>10 DEF PumpTail, StartSweep, CancelledWithBytes, rowVars, memVars, runVars,
     userVars, lifeVars
<1>11. ASSUME PumpSpawn PROVE Snapshots'
  BY <1>11 DEF PumpSpawn, rowVars, memVars, userVars, lifeVars
<1>12. ASSUME NEW i \in Ids, DialOk(i) PROVE Snapshots'
  BY <1>12 DEF DialOk, Goto, rowVars, memVars, pumpVars, userVars, lifeVars
<1>13. ASSUME NEW i \in Ids, DialFails(i) PROVE Snapshots'
  BY <1>13 DEF DialFails, Goto, Fail, rowVars, memVars, pumpVars, userVars, lifeVars
<1>14. ASSUME NEW i \in Ids, OpenPart(i) PROVE Snapshots'
  BY <1>14 DEF OpenPart, Goto, rowVars, memVars, pumpVars, userVars, lifeVars
<1>15. ASSUME NEW i \in Ids, WriteBytes(i) PROVE Snapshots'
  BY <1>15 DEF WriteBytes, rowVars, memVars, pumpVars, userVars, lifeVars
<1>16. ASSUME NEW i \in Ids, PersistProgress(i) PROVE Snapshots'
  BY <1>16 DEF PersistProgress, memVars, pumpVars, runVars, userVars, lifeVars
<1>17. ASSUME NEW i \in Ids, EngineSucceeds(i) PROVE Snapshots'
  BY <1>17 DEF EngineSucceeds, Goto, rowVars, memVars, pumpVars, userVars, lifeVars
<1>18. ASSUME NEW i \in Ids, EngineFails(i) PROVE Snapshots'
  BY <1>18 DEF EngineFails, Goto, Fail, rowVars, memVars, pumpVars, userVars, lifeVars
<1>19. ASSUME NEW i \in Ids, ChunkStateLost(i) PROVE Snapshots'
  BY <1>19 DEF ChunkStateLost, Goto, rowVars, memVars, pumpVars, userVars, lifeVars
<1>20. ASSUME NEW i \in Ids, DropLostPart(i) PROVE Snapshots'
  BY <1>20 DEF DropLostPart, Goto, rowVars, memVars, pumpVars, userVars, lifeVars
<1>21. ASSUME NEW i \in Ids, ResetLost(i) PROVE Snapshots'
  BY <1>21 DEF ResetLost, AttemptsLeft, Goto, Fail, memVars, pumpVars, userVars, lifeVars
<1>22. ASSUME NEW i \in Ids, Restart(i) PROVE Snapshots'
  <2>1. UNCHANGED <<memVars, pumpVars, err, runAttempt, tail>>
    BY <1>22 DEF Restart, memVars, pumpVars
  <2>2. CASE state[i] = "active" /\ ScheduleRetry(i, FALSE) /\ Goto(i, "release")
    <3>1. pc[i] # "idle" /\ runAttempt[i] + 1 < MaxAttempts
      BY <1>22 DEF Restart, Snapshots, AttemptsLeft
    <3>2. QED BY <2>1, <2>2, <3>1, RetryStep
  <2>3. CASE Goto(i, "settle") /\ UNCHANGED rowVars
    BY <1>22, <2>1, <2>3 DEF Restart, Goto, rowVars, memVars, pumpVars
  <2>4. QED BY <1>22, <2>2, <2>3 DEF Restart
<1>23. ASSUME NEW i \in Ids, FinalProgress(i) PROVE Snapshots'
  BY <1>23 DEF FinalProgress, Goto, memVars, pumpVars, userVars, lifeVars
<1>24. ASSUME NEW i \in Ids, Complete(i) PROVE Snapshots'
  <2>1. UNCHANGED <<memVars, pumpVars, attempt, runAttempt>> /\ pc' = [pc EXCEPT ![i] = "release"]
    BY <1>24 DEF Complete, Goto
  <2>2. CASE SetState(i, "completed")
    BY <2>1, <2>2 DEF SetState, memVars, pumpVars
  <2>3. CASE UNCHANGED state
    BY <2>1, <2>3 DEF memVars, pumpVars
  <2>4. QED BY <1>24, <2>2, <2>3 DEF Complete
<1>25. ASSUME NEW i \in Ids, FinishStopped(i) PROVE Snapshots'
  BY <1>25 DEF FinishStopped, Goto, SettleStopped, rowVars, memVars, pumpVars, userVars,
     lifeVars
<1>26. ASSUME NEW i \in Ids, FinishFailed(i) PROVE Snapshots'
  BY <1>26 DEF FinishFailed, Goto, rowVars, memVars, pumpVars, userVars, lifeVars
<1>27. ASSUME NEW i \in Ids, ReadMark(i) PROVE Snapshots'
  BY <1>27 DEF ReadMark, Goto, rowVars, memVars, pumpVars, userVars, lifeVars
<1>28. ASSUME NEW i \in Ids, RequeueRow(i) PROVE Snapshots'
  <2>1. UNCHANGED <<memVars, pumpVars, err, runAttempt, tail>>
    BY <1>28 DEF RequeueRow, memVars, pumpVars
  <2>2. CASE state[i] = "active" /\ CleanSlate({i}) /\ Goto(i, "release")
    BY <2>1, <2>2 DEF CleanSlate, Goto, memVars, pumpVars
  <2>3. CASE UNCHANGED rowVars /\ state[i] # "active" /\ Goto(i, "settleAgain")
    BY <2>1, <2>3 DEF Goto, rowVars, memVars, pumpVars
  <2>4. CASE UNCHANGED rowVars /\ DbErrors /\ Goto(i, "release")
    BY <2>1, <2>4 DEF Goto, rowVars, memVars, pumpVars
  <2>5. QED BY <1>28, <2>2, <2>3, <2>4 DEF RequeueRow
<1>29. ASSUME NEW i \in Ids, SettleAgain(i) PROVE Snapshots'
  BY <1>29 DEF SettleAgain, Goto, SettleStopped, rowVars, memVars, pumpVars, userVars,
     lifeVars
<1>30. ASSUME NEW i \in Ids, Settle(i) PROVE Snapshots'
  BY <1>30 DEF Settle, Goto, SettleStopped, rowVars, memVars, pumpVars, userVars, lifeVars
<1>31. ASSUME NEW i \in Ids, Ladder(i) PROVE Snapshots'
  <2>1. UNCHANGED <<memVars, pumpVars, err, runAttempt, tail>>
    BY <1>31 DEF Ladder, memVars, pumpVars
  <2>2. CASE state[i] = "active" /\ runAttempt[i] + 1 < MaxAttempts /\ ScheduleRetry(i, TRUE)
             /\ Goto(i, "release")
    <3>1. pc[i] # "idle"
      BY <1>31 DEF Ladder
    <3>2. QED BY <2>1, <2>2, <3>1, RetryStep
  <2>3. CASE state[i] = "active" /\ SetState(i, "failed") /\ Goto(i, "release")
             /\ UNCHANGED <<hasBytes, attempt, backoff>>
    BY <2>1, <2>3 DEF SetState, Goto, memVars, pumpVars
  <2>4. CASE UNCHANGED rowVars /\ Goto(i, "settle")
    BY <2>1, <2>4 DEF Goto, rowVars, memVars, pumpVars
  <2>5. QED BY <1>31, <2>2, <2>3, <2>4 DEF Ladder, AttemptsLeft
<1>32. ASSUME NEW i \in Ids, Discarded(i) PROVE Snapshots'
  BY <1>32 DEF Discarded, Goto, rowVars, memVars, pumpVars, userVars, lifeVars
<1>33. ASSUME NEW i \in Ids, Release(i) PROVE Snapshots'
  BY <1>33 DEF Release, DropReservation, Goto, rowVars, pumpVars, userVars, lifeVars
<1>34. ASSUME NEW i \in Ids, Tail(i) PROVE Snapshots'
  BY <1>34 DEF Tail, StartSweep, CancelledWithBytes, rowVars, memVars, pumpVars, userVars,
     lifeVars
<1>35. ASSUME NEW a \in Kinds \X Ids, Discard(a) PROVE Snapshots'
  BY <1>35 DEF Discard, DiscardRead, DiscardOwners, DiscardUnlink, DiscardFails,
     DiscardReset, DiscardGoto, CancelledWithBytes, rowVars, memVars, pumpVars, runVars,
     userVars, lifeVars
<1>36. ASSUME NEW k \in Clickers, NEW i \in Ids, ClickPause(k, i) PROVE Snapshots'
  BY <1>36 DEF ClickPause, ClickGoto, Idle, rowVars, memVars, pumpVars, runVars, lifeVars
<1>37. ASSUME NEW k \in Clickers, NEW i \in Ids, ClickResume(k, i) PROVE Snapshots'
  BY <1>37 DEF ClickResume, ClickGoto, Idle, rowVars, memVars, pumpVars, runVars, lifeVars
<1>38. ASSUME NEW k \in Clickers, NEW S \in SUBSET Ids, Cancel(k, S) PROVE Snapshots'
  BY <1>38 DEF Cancel, ClickGoto, MarkCancelled, Idle, memVars, pumpVars, runVars, lifeVars
<1>39. ASSUME NEW k \in Clickers, NEW i \in Ids, Enqueue(k, i) PROVE Snapshots'
  BY <1>39 DEF Enqueue, SetState, Idle, memVars, pumpVars, runVars, userVars, lifeVars
<1>40. ASSUME NEW k \in Clickers, CancelQueued(k) PROVE Snapshots'
  BY <1>40 DEF CancelQueued, ClickGoto, MarkCancelled, Idle, memVars, pumpVars, runVars,
     lifeVars
<1>41. ASSUME NEW k \in Clickers, RetryFailed(k) PROVE Snapshots'
  BY <1>41 DEF RetryFailed, CleanSlate, Idle, memVars, pumpVars, runVars, userVars, lifeVars
<1>42. ASSUME NEW k \in Clickers, NEW i \in Ids, PauseWrite(k, i) PROVE Snapshots'
  BY <1>42 DEF PauseWrite, SetState, ClickGoto, ClickOn, memVars, pumpVars, runVars,
     lifeVars
<1>43. ASSUME NEW k \in Clickers, NEW i \in Ids, ResumeWrite(k, i) PROVE Snapshots'
  BY <1>43 DEF ResumeWrite, SetState, ClickDone, NoClick, ClickOn, memVars, pumpVars,
     runVars, lifeVars
<1>44. ASSUME NEW k \in Clickers, NEW i \in Ids, StopRow(k, i) PROVE Snapshots'
  BY <1>44 DEF StopRow, ClickGoto, ClickDone, NoClick, rowVars, pumpVars, runVars, lifeVars
<1>45. ASSUME NEW k \in Clickers, SweepRead(k) PROVE Snapshots'
  BY <1>45 DEF SweepRead, ClickGoto, rowVars, memVars, pumpVars, runVars, lifeVars
<1>46. ASSUME NEW k \in Clickers, SweepIdle(k) PROVE Snapshots'
  BY <1>46 DEF SweepIdle, ClickDone, NoClick, StartSweep, rowVars, memVars, pumpVars,
     runVars, lifeVars
<1>47. ASSUME NEW g \in Togglers, TogglePause(g) PROVE Snapshots'
  BY <1>47 DEF TogglePause, ToggleGoto, rowVars, memVars, pumpVars, runVars, lifeVars
<1>48. ASSUME NEW g \in Togglers, PersistPause(g) PROVE Snapshots'
  BY <1>48 DEF PersistPause, ToggleGoto, rowVars, memVars, pumpVars, runVars, lifeVars
<1>49. ASSUME NEW g \in Togglers, FlagPaused(g) PROVE Snapshots'
  BY <1>49 DEF FlagPaused, ToggleGoto, rowVars, pumpVars, runVars, lifeVars
<1>50. ASSUME NEW g \in Togglers, StopAllForPause(g) PROVE Snapshots'
  BY <1>50 DEF StopAllForPause, ToggleGoto, rowVars, pumpVars, runVars, lifeVars
<1>51. ASSUME NEW g \in Togglers, SnapshotRunning(g) PROVE Snapshots'
  BY <1>51 DEF SnapshotRunning, ToggleGoto, rowVars, memVars, pumpVars, runVars, lifeVars
<1>52. ASSUME NEW g \in Togglers, HealOrphans(g) PROVE Snapshots'
  BY <1>52 DEF HealOrphans, CleanSlate, ToggleGoto, memVars, pumpVars, runVars, lifeVars
<1>53. ASSUME NEW g \in Togglers, FlagResumed(g) PROVE Snapshots'
  BY <1>53 DEF FlagResumed, ToggleGoto, rowVars, pumpVars, runVars, lifeVars
<1>54. ASSUME BeginStop PROVE Snapshots'
  BY <1>54 DEF BeginStop, rowVars, pumpVars, runVars, userVars
<1>55. ASSUME StopAllForExit PROVE Snapshots'
  BY <1>55 DEF StopAllForExit, rowVars, pumpVars, runVars, userVars
<1>56. ASSUME AwaitStop PROVE Snapshots'
  BY <1>56 DEF AwaitStop, rowVars, memVars, pumpVars, runVars, userVars
<1>57. ASSUME GraceExpires PROVE Snapshots'
  BY <1>57 DEF GraceExpires, rowVars, memVars, pumpVars, runVars, userVars
<1>58. ASSUME Relaunch PROVE Snapshots'
  BY <1>58 DEF Relaunch, CleanSlate, NoClick, NoToggle, IdleDiscards
<1>59. CASE UNCHANGED vars
  BY <1>59 DEF vars, rowVars, memVars, pumpVars, runVars, userVars, lifeVars
<1>60. QED BY <1>1, <1>2, <1>3, <1>4, <1>5, <1>6, <1>7, <1>8, <1>9, <1>10, <1>11, <1>12,
     <1>13, <1>14, <1>15, <1>16, <1>17, <1>18, <1>19, <1>20, <1>21, <1>22, <1>23, <1>24,
     <1>25, <1>26, <1>27, <1>28, <1>29, <1>30, <1>31, <1>32, <1>33, <1>34, <1>35, <1>36,
     <1>37, <1>38, <1>39, <1>40, <1>41, <1>42, <1>43, <1>44, <1>45, <1>46, <1>47, <1>48,
     <1>49, <1>50, <1>51, <1>52, <1>53, <1>54, <1>55, <1>56, <1>57, <1>58, <1>59 DEF Next, Pump, Engine, Unwind, Click, Follow, SetPaused

-----------------------------------------------------------------------------
(* The inductive invariant and what follows from it. *)

\* Everything the queue relies on between two critical sections, in every
\* reachable state.
THEOREM Invariance == Spec => []IInv
<1>1. IInv /\ [Next]_vars => IInv'
  BY TypeStep, OwnershipStep, FileLocksStep, ActiveOwnedStep, SnapshotsStep DEF IInv
<1>2. QED BY InitIInv, <1>1, PTL DEF Spec

\* Unless the store loses a write, no row is ever left active with nobody
\* behind it: neither a lost claim, a stop in the claim window, a retry nor a
\* relaunch strands one.
THEOREM ActiveRowsHaveRunners == Spec => []ActiveHasRunner
<1>1. IInv => ActiveHasRunner
  BY DEF IInv, Ownership, HeldByPump, ActiveOwned, ActiveHasRunner, InState, TypeOK, RowsTypeOK
<1>2. QED BY Invariance, <1>1, PTL

\* At most one engine has a given placeholder open, however the rows that share
\* the file are cancelled, retried and listed again.
THEOREM FilesHaveOneWriter == Spec => []OneWriterPerFile
<1>1. IInv => OneWriterPerFile
  BY DEF IInv, Ownership, FileLocks, OneWriterPerFile, EnginePc
<1>2. QED BY Invariance, <1>1, PTL

\* The retry ladder is bounded by maxAttempts, and the runner counts from the
\* row's true attempt although it was handed a snapshot read before its claim.
THEOREM LadderIsBounded == Spec => []LadderBounded
<1>1. IInv => LadderBounded
  BY DEF IInv, Ownership, Snapshots, LadderBounded
<1>2. QED BY Invariance, <1>1, PTL

\* The re-check under d.mu: nothing registers while paused or stopping.
LEMMA StoppedStep ==
  ASSUME TypeOK, Ownership, StoppedMeansStopped, [Next]_vars
  PROVE  StoppedMeansStopped'
<1> USE IdsAssumption, RowAssumption, AttemptAssumption
<1> USE DEF TypeOK, RowsTypeOK, MemTypeOK, PumpTypeOK, RunTypeOK, Snapshot, InState,
    UserTypeOK, TogglePc, StoppedMeansStopped, Ownership
<1>1. ASSUME NEW i \in Ids, BackoffElapses(i) PROVE StoppedMeansStopped'
  BY <1>1 DEF BackoffElapses, memVars, pumpVars, runVars, userVars, lifeVars
<1>2. ASSUME PumpEnter PROVE StoppedMeansStopped'
  BY <1>2 DEF PumpEnter, rowVars, memVars, runVars, userVars, lifeVars
<1>3. ASSUME PumpList PROVE StoppedMeansStopped'
  BY <1>3 DEF PumpList, rowVars, memVars, runVars, userVars, lifeVars
<1>4. ASSUME PumpReturn PROVE StoppedMeansStopped'
  BY <1>4 DEF PumpReturn, Halted, rowVars, memVars, runVars, userVars, lifeVars
<1>5. ASSUME PumpSkip PROVE StoppedMeansStopped'
  BY <1>5 DEF PumpSkip, Halted, IsHead, rowVars, memVars, runVars, userVars, lifeVars
<1>6. ASSUME PumpRegister PROVE StoppedMeansStopped'
  BY <1>6 DEF PumpRegister, Free, Halted, IsHead, rowVars, userVars, lifeVars
<1>7. ASSUME PumpClaim PROVE StoppedMeansStopped'
  BY <1>7 DEF PumpClaim, SetState, memVars, runVars, userVars, lifeVars
<1>8. ASSUME PumpLoseClaim PROVE StoppedMeansStopped'
  BY <1>8 DEF PumpLoseClaim, rowVars, memVars, runVars, userVars, lifeVars
<1>9. ASSUME PumpRelease PROVE StoppedMeansStopped'
  BY <1>9 DEF PumpRelease, DropReservation, rowVars, userVars, lifeVars
<1>10. ASSUME PumpTail PROVE StoppedMeansStopped'
  BY <1>10 DEF PumpTail, StartSweep, CancelledWithBytes, rowVars, memVars, runVars,
     userVars, lifeVars
<1>11. ASSUME PumpSpawn PROVE StoppedMeansStopped'
  BY <1>11 DEF PumpSpawn, rowVars, memVars, userVars, lifeVars
<1>12. ASSUME NEW i \in Ids, Engine(i) PROVE StoppedMeansStopped'
  BY <1>12 DEF Engine, DialOk, DialFails, OpenPart, WriteBytes, PersistProgress,
     EngineSucceeds, EngineFails, ChunkStateLost, Goto, Fail, rowVars, memVars, pumpVars,
     runVars, userVars, lifeVars
<1>13. ASSUME NEW i \in Ids, DropLostPart(i) PROVE StoppedMeansStopped'
  BY <1>13 DEF DropLostPart, Goto, rowVars, memVars, pumpVars, userVars, lifeVars
<1>14. ASSUME NEW i \in Ids, ResetLost(i) PROVE StoppedMeansStopped'
  BY <1>14 DEF ResetLost, AttemptsLeft, Goto, Fail, memVars, pumpVars, userVars, lifeVars
<1>15. ASSUME NEW i \in Ids, Restart(i) PROVE StoppedMeansStopped'
  BY <1>15 DEF Restart, SetState, ScheduleRetry, Goto, rowVars, memVars, pumpVars, userVars,
     lifeVars
<1>16. ASSUME NEW i \in Ids, FinalProgress(i) PROVE StoppedMeansStopped'
  BY <1>16 DEF FinalProgress, Goto, memVars, pumpVars, userVars, lifeVars
<1>17. ASSUME NEW i \in Ids, Complete(i) PROVE StoppedMeansStopped'
  BY <1>17 DEF Complete, SetState, Goto, memVars, pumpVars, userVars, lifeVars
<1>18. ASSUME NEW i \in Ids, FinishStopped(i) PROVE StoppedMeansStopped'
  BY <1>18 DEF FinishStopped, Goto, SettleStopped, rowVars, memVars, pumpVars, userVars,
     lifeVars
<1>19. ASSUME NEW i \in Ids, FinishFailed(i) PROVE StoppedMeansStopped'
  BY <1>19 DEF FinishFailed, Goto, rowVars, memVars, pumpVars, userVars, lifeVars
<1>20. ASSUME NEW i \in Ids, ReadMark(i) PROVE StoppedMeansStopped'
  BY <1>20 DEF ReadMark, Goto, rowVars, memVars, pumpVars, userVars, lifeVars
<1>21. ASSUME NEW i \in Ids, RequeueRow(i) PROVE StoppedMeansStopped'
  BY <1>21 DEF RequeueRow, CleanSlate, Goto, rowVars, memVars, pumpVars, userVars, lifeVars
<1>22. ASSUME NEW i \in Ids, SettleAgain(i) PROVE StoppedMeansStopped'
  BY <1>22 DEF SettleAgain, Goto, SettleStopped, rowVars, memVars, pumpVars, userVars,
     lifeVars
<1>23. ASSUME NEW i \in Ids, Settle(i) PROVE StoppedMeansStopped'
  BY <1>23 DEF Settle, Goto, SettleStopped, rowVars, memVars, pumpVars, userVars, lifeVars
<1>24. ASSUME NEW i \in Ids, Ladder(i) PROVE StoppedMeansStopped'
  BY <1>24 DEF Ladder, AttemptsLeft, SetState, ScheduleRetry, Goto, rowVars, memVars,
     pumpVars, userVars, lifeVars
<1>25. ASSUME NEW i \in Ids, Discarded(i) PROVE StoppedMeansStopped'
  BY <1>25 DEF Discarded, Goto, rowVars, memVars, pumpVars, userVars, lifeVars
<1>26. ASSUME NEW i \in Ids, Release(i) PROVE StoppedMeansStopped'
  BY <1>26 DEF Release, DropReservation, Goto, rowVars, pumpVars, userVars, lifeVars
<1>27. ASSUME NEW i \in Ids, Tail(i) PROVE StoppedMeansStopped'
  BY <1>27 DEF Tail, StartSweep, CancelledWithBytes, rowVars, memVars, pumpVars, userVars,
     lifeVars
<1>28. ASSUME NEW a \in Kinds \X Ids, Discard(a) PROVE StoppedMeansStopped'
  BY <1>28 DEF Discard, DiscardRead, DiscardOwners, DiscardUnlink, DiscardFails,
     DiscardReset, DiscardGoto, CancelledWithBytes, rowVars, memVars, pumpVars, runVars,
     userVars, lifeVars
<1>29. ASSUME NEW k \in Clickers, NEW i \in Ids, ClickPause(k, i) PROVE StoppedMeansStopped'
  BY <1>29 DEF ClickPause, ClickGoto, Idle, rowVars, memVars, pumpVars, runVars, lifeVars
<1>30. ASSUME NEW k \in Clickers, NEW i \in Ids, ClickResume(k, i) PROVE StoppedMeansStopped'
  BY <1>30 DEF ClickResume, ClickGoto, Idle, rowVars, memVars, pumpVars, runVars, lifeVars
<1>31. ASSUME NEW k \in Clickers, NEW S \in SUBSET Ids, Cancel(k, S) PROVE StoppedMeansStopped'
  BY <1>31 DEF Cancel, ClickGoto, MarkCancelled, Idle, memVars, pumpVars, runVars, lifeVars
<1>32. ASSUME NEW k \in Clickers, NEW i \in Ids, Enqueue(k, i) PROVE StoppedMeansStopped'
  BY <1>32 DEF Enqueue, SetState, Idle, memVars, pumpVars, runVars, userVars, lifeVars
<1>33. ASSUME NEW k \in Clickers, CancelQueued(k) PROVE StoppedMeansStopped'
  BY <1>33 DEF CancelQueued, ClickGoto, MarkCancelled, Idle, memVars, pumpVars, runVars,
     lifeVars
<1>34. ASSUME NEW k \in Clickers, RetryFailed(k) PROVE StoppedMeansStopped'
  BY <1>34 DEF RetryFailed, CleanSlate, Idle, memVars, pumpVars, runVars, userVars, lifeVars
<1>35. ASSUME NEW k \in Clickers, NEW i \in Ids, PauseWrite(k, i) PROVE StoppedMeansStopped'
  BY <1>35 DEF PauseWrite, SetState, ClickGoto, ClickOn, memVars, pumpVars, runVars,
     lifeVars
<1>36. ASSUME NEW k \in Clickers, NEW i \in Ids, ResumeWrite(k, i) PROVE StoppedMeansStopped'
  BY <1>36 DEF ResumeWrite, SetState, ClickDone, NoClick, ClickOn, memVars, pumpVars,
     runVars, lifeVars
<1>37. ASSUME NEW k \in Clickers, NEW i \in Ids, StopRow(k, i) PROVE StoppedMeansStopped'
  BY <1>37 DEF StopRow, ClickGoto, ClickDone, NoClick, rowVars, pumpVars, runVars, lifeVars
<1>38. ASSUME NEW k \in Clickers, SweepRead(k) PROVE StoppedMeansStopped'
  BY <1>38 DEF SweepRead, ClickGoto, rowVars, memVars, pumpVars, runVars, lifeVars
<1>39. ASSUME NEW k \in Clickers, SweepIdle(k) PROVE StoppedMeansStopped'
  BY <1>39 DEF SweepIdle, ClickDone, NoClick, StartSweep, rowVars, memVars, pumpVars,
     runVars, lifeVars
<1>40. ASSUME NEW g \in Togglers, TogglePause(g) PROVE StoppedMeansStopped'
  BY <1>40 DEF TogglePause, ToggleGoto, rowVars, memVars, pumpVars, runVars, lifeVars
<1>41. ASSUME NEW g \in Togglers, PersistPause(g) PROVE StoppedMeansStopped'
  BY <1>41 DEF PersistPause, ToggleGoto, rowVars, memVars, pumpVars, runVars, lifeVars
<1>42. ASSUME NEW g \in Togglers, FlagPaused(g) PROVE StoppedMeansStopped'
  BY <1>42 DEF FlagPaused, ToggleGoto, rowVars, pumpVars, runVars, lifeVars
<1>43. ASSUME NEW g \in Togglers, StopAllForPause(g) PROVE StoppedMeansStopped'
  BY <1>43 DEF StopAllForPause, ToggleGoto, rowVars, pumpVars, runVars, lifeVars
<1>44. ASSUME NEW g \in Togglers, SnapshotRunning(g) PROVE StoppedMeansStopped'
  BY <1>44 DEF SnapshotRunning, ToggleGoto, rowVars, memVars, pumpVars, runVars, lifeVars
<1>45. ASSUME NEW g \in Togglers, HealOrphans(g) PROVE StoppedMeansStopped'
  BY <1>45 DEF HealOrphans, CleanSlate, ToggleGoto, memVars, pumpVars, runVars, lifeVars
<1>46. ASSUME NEW g \in Togglers, FlagResumed(g) PROVE StoppedMeansStopped'
  BY <1>46 DEF FlagResumed, ToggleGoto, rowVars, pumpVars, runVars, lifeVars
<1>47. ASSUME BeginStop PROVE StoppedMeansStopped'
  BY <1>47 DEF BeginStop, rowVars, pumpVars, runVars, userVars
<1>48. ASSUME StopAllForExit PROVE StoppedMeansStopped'
  BY <1>48 DEF StopAllForExit, rowVars, pumpVars, runVars, userVars
<1>49. ASSUME AwaitStop PROVE StoppedMeansStopped'
  BY <1>49 DEF AwaitStop, rowVars, memVars, pumpVars, runVars, userVars
<1>50. ASSUME GraceExpires PROVE StoppedMeansStopped'
  BY <1>50 DEF GraceExpires, rowVars, memVars, pumpVars, runVars, userVars
<1>51. ASSUME Relaunch PROVE StoppedMeansStopped'
  BY <1>51 DEF Relaunch, CleanSlate, NoClick, NoToggle, IdleDiscards
<1>52. CASE UNCHANGED vars
  BY <1>52 DEF vars, rowVars, memVars, pumpVars, runVars, userVars, lifeVars
<1>53. QED BY <1>1, <1>2, <1>3, <1>4, <1>5, <1>6, <1>7, <1>8, <1>9, <1>10, <1>11, <1>12,
     <1>13, <1>14, <1>15, <1>16, <1>17, <1>18, <1>19, <1>20, <1>21, <1>22, <1>23, <1>24,
     <1>25, <1>26, <1>27, <1>28, <1>29, <1>30, <1>31, <1>32, <1>33, <1>34, <1>35, <1>36,
     <1>37, <1>38, <1>39, <1>40, <1>41, <1>42, <1>43, <1>44, <1>45, <1>46, <1>47, <1>48,
     <1>49, <1>50, <1>51, <1>52 DEF Next, Pump, Unwind, Click, Follow, SetPaused

\* After a pause or a shutdown has swept the running set, every registration's
\* context has ended: no start slips in behind the sweep.
THEOREM StoppedIsStopped == Spec => []StoppedMeansStopped
<1>1. Init => StoppedMeansStopped
  BY DEF Init, StoppedMeansStopped
<1>2. TypeOK /\ Ownership /\ StoppedMeansStopped /\ [Next]_vars => StoppedMeansStopped'
  BY StoppedStep
<1>3. IInv => TypeOK /\ Ownership
  BY DEF IInv
<1>4. QED BY <1>1, <1>2, <1>3, Invariance, PTL DEF Spec
============================================================================
