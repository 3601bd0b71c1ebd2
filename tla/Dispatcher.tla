----------------------------- MODULE Dispatcher -----------------------------
(***************************************************************************)
(* internal/dispatch/dispatcher.go over internal/queue/transfers.go: the   *)
(* goroutines that share the transfer rows, the reservation table and the  *)
(* placeholder files.                                                      *)
(*                                                                         *)
(*   pump      the one dispatch loop: list, register, claim, spawn         *)
(*   runner i  runTransfer for row i: dial, engine, finish, release        *)
(*   sweeps    background placeholder discards (release, bulk cancel)      *)
(*   clickers  Wails calls on rows: pause, resume, cancel, retry, enqueue  *)
(*   togglers  Wails calls of SetPaused                                    *)
(*   Stop      shutdown, then the process exits; or it crashes             *)
(*                                                                         *)
(* One step is one SQL statement (the store has a single connection), one  *)
(* critical section of d.mu, one atomic flag, or one file operation: those *)
(* are the points between which the goroutines really interleave.          *)
(*                                                                         *)
(* Bytes are abstracted to "some" or "none"; one placeholder per file      *)
(* stands for .wspart and .wschunk together. Whether a row fits the        *)
(* connection caps is left open (the Admission module decides it).         *)
(***************************************************************************)
EXTENDS Naturals, FiniteSets

CONSTANTS
  Ids,          \* transfer row ids; the pump claims in ascending order
  Files,        \* files that can be written, as dstKey tells them apart
  FileOf,       \* [Ids -> Files]: dstKey of the row
  DstOf,        \* [Ids -> destination strings]: the dst column alone
  Uploads,      \* the rows whose direction is "upload"
  Queued,       \* the rows already pending at the first launch
  Clickers,     \* Wails goroutines acting on rows
  Togglers,     \* Wails goroutines calling SetPaused
  Ops,          \* which row operations the user performs
  MaxAttempts,  \* maxAttempts
  StartPaused,  \* the queue.start_paused setting
  DbErrors,     \* may the state write of a claim or of a run's end fail?
  DropsFail,    \* may clearing the other engine's leftover fail, unseen by runTransfer?
  MayStop,      \* may the user close the app?
  MaxLaunches   \* bound: number of times the process is started

ASSUME IdsAssumption == Ids \subseteq Nat \ {0}
ASSUME RowAssumption == /\ FileOf \in [Ids -> Files]
                        /\ Uploads \subseteq Ids /\ Queued \subseteq Ids
ASSUME FileAssumption == \A i, j \in Ids : FileOf[i] = FileOf[j] => DstOf[i] = DstOf[j]
ASSUME AttemptAssumption == MaxAttempts \in Nat \ {0}
ASSUME LaunchAssumption == MaxLaunches \in Nat \ {0}
ASSUME FlagAssumption == /\ StartPaused \in BOOLEAN
                         /\ DbErrors \in BOOLEAN /\ DropsFail \in BOOLEAN
                         /\ MayStop \in BOOLEAN

VARIABLES
  \* --- rows of the transfers table, and the queue.paused setting (SQLite) ---
  state,        \* [Ids -> State]
  hasBytes,     \* [Ids -> BOOLEAN]: bytes_done > 0
  attempt,      \* [Ids -> Nat]
  backoff,      \* [Ids -> BOOLEAN]: next_retry_at lies in the future
  setting,      \* the persisted queue.paused
  \* --- disk and server ---
  part,         \* [Files -> {"none", "empty", "data"}]: the placeholder
  \* --- dispatcher memory, guarded by d.mu or atomic ---
  paused, stopping,
  cancels,      \* ids registered: the keys of cancels, slots
  ctxDone,      \* registered ids whose context has been cancelled
  requeue,      \* ids marked by a queue-wide pause
  activeDst,    \* files being written
  \* --- pump ---
  pumpPc,
  todo,         \* rest of the list this pass read: [id, attempt, hasBytes]
  cur,          \* the row between registration and spawn, or 0
  \* --- runners ---
  pc,           \* [Ids -> RunnerPc]
  err,          \* [Ids -> Err]: what the engine returned
  runAttempt,   \* [Ids -> Nat]: t.Attempt of the snapshot the runner holds
  done,         \* [Ids -> BOOLEAN]: its live byte count is > 0
  tail,         \* released runners that have not yet read their row back
  \* --- placeholder discards: [Kinds \X Ids -> DiscardPc] ---
  disc,
  \* --- user and lifetime ---
  click, toggle,
  stopPc, launches

rowVars  == <<state, hasBytes, attempt, backoff>>
memVars  == <<paused, stopping, cancels, ctxDone, requeue, activeDst>>
pumpVars == <<pumpPc, todo, cur>>
runVars  == <<pc, err, runAttempt, done, tail>>
userVars == <<click, toggle>>
lifeVars == <<stopPc, launches>>
vars == <<rowVars, setting, part, memVars, pumpVars, runVars, disc, userVars, lifeVars>>

\* 'dispatched' exists in the schema and the queries; no code writes it.
State == {"none", "pending", "active", "paused", "completed", "failed", "cancelled"}
Unfinished  == {"pending", "active", "paused"}     \* unfinishedStates
Cancellable == Unfinished \cup {"failed"}          \* cancellableStates
Owner       == Unfinished \cup {"failed"}          \* placeholderOwnerStates
QueuedState == {"pending", "paused"}               \* queuedStates

\* core.Classify over what a run returns. The last two exist only because the
\* context ended: "context canceled" is permanent, a connection the watchdog
\* closed is transient.
Err == {"none", "retry", "fatal", "ctxCanceled", "connClosed"}
Retryable  == {"retry", "connClosed"}
StopErr    == {"ctxCanceled", "connClosed"}

RunnerPc == {"idle", "dial", "open", "copy", "lost", "lostReset", "restart", "final",
             "complete", "fin", "mark", "requeue", "settleAgain", "ladder", "settle",
             "discard", "release"}
EnginePc == {"dial", "open", "copy"}
Writing  == {"open", "copy"}
Kinds == {"run", "rel", "batch"}   \* who discards: settleStopped, release, discardBatch
DiscardPc == {"idle", "read", "owners", "unlink", "reset"}
ClickPc == {"idle", "pause", "pauseStop", "resume", "stop", "read", "check"}
TogglePc == {"idle", "persistOn", "flagOn", "stopAll",
             "persistOff", "snapshot", "heal", "flagOff"}
Snapshot == [id : Ids, attempt : Nat, hasBytes : BOOLEAN]

\* The WaitGroups: running (Done comes after the tail's read-back) and sweeps.
Running == {i \in Ids : pc[i] # "idle"} \cup tail
Sweeping == {a \in {"rel", "batch"} \X Ids : disc[a] # "idle"}

RowsTypeOK ==
  /\ state \in [Ids -> State] /\ hasBytes \in [Ids -> BOOLEAN]
  /\ attempt \in [Ids -> Nat] /\ backoff \in [Ids -> BOOLEAN]
MemTypeOK ==
  /\ paused \in BOOLEAN /\ stopping \in BOOLEAN
  /\ cancels \subseteq Ids /\ ctxDone \subseteq Ids
  /\ requeue \subseteq Ids /\ activeDst \subseteq Files
PumpTypeOK ==
  /\ pumpPc \in {"idle", "list", "scan", "claim", "spawn", "release", "tail"}
  /\ todo \subseteq Snapshot /\ cur \in Ids \cup {0}
RunTypeOK ==
  /\ pc \in [Ids -> RunnerPc] /\ err \in [Ids -> Err]
  /\ runAttempt \in [Ids -> Nat] /\ done \in [Ids -> BOOLEAN] /\ tail \subseteq Ids
UserTypeOK ==
  /\ click \in [Clickers -> [pc : ClickPc, ids : SUBSET Ids, left : SUBSET Ids]]
  /\ toggle \in [Togglers -> [pc : TogglePc, keep : SUBSET Ids]]
WorldTypeOK ==
  /\ setting \in BOOLEAN /\ part \in [Files -> {"none", "empty", "data"}]
  /\ disc \in [Kinds \X Ids -> DiscardPc]
  /\ stopPc \in {"up", "stopAll", "waitRunning", "waitSweeps", "stopped", "expired"}
  /\ launches \in 1..MaxLaunches

TypeOK == RowsTypeOK /\ MemTypeOK /\ PumpTypeOK /\ RunTypeOK /\ UserTypeOK /\ WorldTypeOK

NoClick  == [pc |-> "idle", ids |-> {}, left |-> {}]
NoToggle == [pc |-> "idle", keep |-> {}]
IdleDiscards == [a \in Kinds \X Ids |-> "idle"]

\* dispatch.New over a store RecoverInterrupted has been through.
Init ==
  /\ state = [i \in Ids |-> IF i \in Queued THEN "pending" ELSE "none"]
  /\ hasBytes = [i \in Ids |-> FALSE]
  /\ attempt = [i \in Ids |-> 0] /\ backoff = [i \in Ids |-> FALSE]
  /\ setting = FALSE /\ part = [f \in Files |-> "none"]
  /\ paused = StartPaused /\ stopping = FALSE
  /\ cancels = {} /\ ctxDone = {} /\ requeue = {} /\ activeDst = {}
  /\ pumpPc = "idle" /\ todo = {} /\ cur = 0
  /\ pc = [i \in Ids |-> "idle"] /\ err = [i \in Ids |-> "none"]
  /\ runAttempt = [i \in Ids |-> 0] /\ done = [i \in Ids |-> FALSE] /\ tail = {}
  /\ disc = IdleDiscards
  /\ click = [k \in Clickers |-> NoClick] /\ toggle = [g \in Togglers |-> NoToggle]
  /\ stopPc = "up" /\ launches = 1

-----------------------------------------------------------------------------
(* Statements of the store. *)

SetState(i, s) == state' = [state EXCEPT ![i] = s]   \* SetTransferState: no guard

\* Mutant: the ladder is not wound back.
SlateKeepingAttempts(S) ==
  /\ state' = [i \in Ids |-> IF i \in S THEN "pending" ELSE state[i]]
  /\ backoff' = [i \in Ids |-> IF i \in S THEN FALSE ELSE backoff[i]]
  /\ UNCHANGED <<hasBytes, attempt>>

\* requeueSet: pending again, the ladder wound back, bytes kept.
CleanSlate(S) ==
  /\ state' = [i \in Ids |-> IF i \in S THEN "pending" ELSE state[i]]
  /\ attempt' = [i \in Ids |-> IF i \in S THEN 0 ELSE attempt[i]]
  /\ backoff' = [i \in Ids |-> IF i \in S THEN FALSE ELSE backoff[i]]
  /\ UNCHANGED hasBytes

InState(s) == {i \in Ids : state[i] = s}

\* Mutant: a destination nobody else is looked up for.
NoOtherLiveTransfers(i) == {}

\* The dst column alone: OtherLiveTransfersForDst asks neither site nor direction.
OtherLiveTransfersForDst(i) == {j \in Ids : DstOf[j] = DstOf[i] /\ state[j] \in Owner}

\* Mutants: the retry is counted down; the retry leaves the row active.
RetryCountingDown(i, later) ==
  /\ SetState(i, "pending")
  /\ attempt' = [attempt EXCEPT ![i] = @ - 1]
  /\ backoff' = [backoff EXCEPT ![i] = later]
  /\ UNCHANGED hasBytes
RetryLeavingActive(i, later) ==
  /\ attempt' = [attempt EXCEPT ![i] = @ + 1]
  /\ backoff' = [backoff EXCEPT ![i] = later]
  /\ UNCHANGED <<state, hasBytes>>

\* ScheduleRetryIfActive, the guarded write.
ScheduleRetry(i, later) ==
  /\ SetState(i, "pending")
  /\ attempt' = [attempt EXCEPT ![i] = @ + 1]
  /\ backoff' = [backoff EXCEPT ![i] = later]
  /\ UNCHANGED hasBytes

BackoffElapses(i) ==
  /\ backoff[i]
  /\ backoff' = [backoff EXCEPT ![i] = FALSE]
  /\ UNCHANGED <<state, hasBytes, attempt, setting, part, memVars, pumpVars, runVars,
                 disc, userVars, lifeVars>>

\* Mutant: taken on however late it comes.
StartSweepAnyTime(kind, S) ==
  disc' = [a \in Kinds \X Ids |->
             IF a[1] = kind /\ a[2] \in S /\ disc[a] = "idle" THEN "read" ELSE disc[a]]

\* startSweep, under d.mu: refused once Stop has begun.
StartSweep(kind, S) ==
  disc' = [a \in Kinds \X Ids |->
             IF ~stopping /\ a[1] = kind /\ a[2] \in S /\ disc[a] = "idle"
               THEN "read" ELSE disc[a]]

\* The critical section of release.
DropReservation(i) ==
  /\ cancels' = cancels \ {i}
  /\ ctxDone' = ctxDone \ {i}
  /\ requeue' = requeue \ {i}
  /\ activeDst' = activeDst \ {FileOf[i]}
  /\ runAttempt' = [runAttempt EXCEPT ![i] = 0]      \* the snapshot goes with it
  /\ done' = [done EXCEPT ![i] = FALSE]
  /\ UNCHANGED <<paused, stopping>>

\* Mutant: any row with bytes is taken for a cancelled one.
AnyWithBytes(i) == hasBytes[i]

\* release's read-back: a row cancelled where nobody else will discard it.
CancelledWithBytes(i) == state[i] = "cancelled" /\ hasBytes[i]

-----------------------------------------------------------------------------
(* pump. *)

PumpEnter ==
  /\ pumpPc = "idle" /\ ~paused /\ ~stopping
  /\ \E i \in Ids : state[i] = "pending" /\ ~backoff[i]    \* otherwise a pass is a no-op
  /\ pumpPc' = "list"
  /\ UNCHANGED <<rowVars, setting, part, memVars, todo, cur, runVars, disc, userVars, lifeVars>>

\* PendingTransfers(now).
PumpList ==
  /\ pumpPc = "list"
  /\ todo' = {[id |-> i, attempt |-> attempt[i], hasBytes |-> hasBytes[i]] :
                i \in {j \in Ids : state[j] = "pending" /\ ~backoff[j]}}
  /\ pumpPc' = "scan"
  /\ UNCHANGED <<rowVars, setting, part, memVars, cur, runVars, disc, userVars, lifeVars>>

\* Mutant: the flags are not looked at again.
HaltUnseen == FALSE

\* The re-check under d.mu, which is what makes a pause or a stop airtight.
Halted == paused \/ stopping

PumpReturn ==
  /\ pumpPc = "scan"
  /\ todo = {} \/ Halted
  /\ pumpPc' = "idle" /\ todo' = {}
  /\ UNCHANGED <<rowVars, setting, part, memVars, cur, runVars, disc, userVars, lifeVars>>

IsHead(r) == r \in todo /\ \A s \in todo : r.id <= s.id

\* Already running, lane blocked or no room (Admission), or its file is busy.
PumpSkip ==
  /\ pumpPc = "scan" /\ ~Halted
  /\ \E r \in todo : IsHead(r) /\ todo' = todo \ {r}
  /\ UNCHANGED <<rowVars, setting, part, memVars, pumpPc, cur, runVars, disc, userVars, lifeVars>>

\* Mutant: the file is not looked up.
NotRegistered(i) == i \notin cancels

\* Neither the row nor its file is taken.
Free(i) == i \notin cancels /\ FileOf[i] \notin activeDst

PumpRegister ==
  /\ pumpPc = "scan" /\ ~Halted
  /\ \E r \in todo :
       /\ IsHead(r) /\ Free(r.id)
       /\ todo' = todo \ {r} /\ cur' = r.id
       /\ cancels' = cancels \cup {r.id}
       /\ activeDst' = activeDst \cup {FileOf[r.id]}
       /\ runAttempt' = [runAttempt EXCEPT ![r.id] = r.attempt]
       /\ done' = [done EXCEPT ![r.id] = r.hasBytes]
  /\ pumpPc' = "claim"
  /\ UNCHANGED <<rowVars, setting, part, paused, stopping, ctxDone, requeue, pc, err, tail,
                 disc, userVars, lifeVars>>

\* Mutant: the claim is not guarded.
UnguardedClaim ==
  /\ pumpPc = "claim"
  /\ SetState(cur, "active")
  /\ pumpPc' = "spawn"
  /\ UNCHANGED <<hasBytes, attempt, backoff, setting, part, memVars, todo, cur, runVars,
                 disc, userVars, lifeVars>>

\* ClaimPending: guarded on the row still being pending.
PumpClaim ==
  /\ pumpPc = "claim"
  /\ state[cur] = "pending"
  /\ SetState(cur, "active")
  /\ pumpPc' = "spawn"
  /\ UNCHANGED <<hasBytes, attempt, backoff, setting, part, memVars, todo, cur, runVars,
                 disc, userVars, lifeVars>>

PumpLoseClaim ==
  /\ pumpPc = "claim"
  /\ state[cur] # "pending" \/ DbErrors
  /\ pumpPc' = "release"
  /\ UNCHANGED <<rowVars, setting, part, memVars, todo, cur, runVars, disc, userVars, lifeVars>>

PumpRelease ==
  /\ pumpPc = "release"
  /\ DropReservation(cur)
  /\ pumpPc' = "tail"
  /\ UNCHANGED <<rowVars, setting, part, todo, cur, pc, err, tail, disc, userVars, lifeVars>>

PumpTail ==
  /\ pumpPc = "tail"
  /\ StartSweep("rel", {i \in {cur} : CancelledWithBytes(i)})
  /\ pumpPc' = "scan" /\ cur' = 0
  /\ UNCHANGED <<rowVars, setting, part, memVars, todo, runVars, userVars, lifeVars>>

\* running.Add(1); go runTransfer.
PumpSpawn ==
  /\ pumpPc = "spawn"
  /\ pc' = [pc EXCEPT ![cur] = "dial"]
  /\ pumpPc' = "scan" /\ cur' = 0
  /\ UNCHANGED <<rowVars, setting, part, memVars, todo, err, runAttempt, done, tail, disc,
                 userVars, lifeVars>>

Pump == PumpEnter \/ PumpList \/ PumpReturn \/ PumpSkip \/ PumpRegister
        \/ PumpClaim \/ PumpLoseClaim \/ PumpRelease \/ PumpTail \/ PumpSpawn

-----------------------------------------------------------------------------
(* runTransfer. *)

Goto(i, there) == pc' = [pc EXCEPT ![i] = there]
Fail(i, there, es) == Goto(i, there) /\ \E e \in es : err' = [err EXCEPT ![i] = e]

\* Mutant: one attempt too many.
AttemptsLeftOffByOne(i) == runAttempt[i] < MaxAttempts

AttemptsLeft(i) == runAttempt[i] + 1 < MaxAttempts

\* Any failure of the network, the server or the disk; and, once the context
\* has ended, the errors that ending it causes.
EngineErr(i) == {"retry", "fatal"} \cup (IF i \in ctxDone THEN StopErr ELSE {})

DialOk(i) ==
  /\ pc[i] = "dial" /\ Goto(i, "open")
  /\ UNCHANGED <<rowVars, setting, part, memVars, pumpVars, err, runAttempt, done, tail,
                 disc, userVars, lifeVars>>

DialFails(i) ==
  /\ pc[i] = "dial" /\ Fail(i, "fin", EngineErr(i))
  /\ UNCHANGED <<rowVars, setting, part, memVars, pumpVars, runAttempt, done, tail,
                 disc, userVars, lifeVars>>

\* The engine opens the placeholder: kept and resumed, or dropped because it
\* belongs to the other engine or to a source that has changed. Where the drop
\* fails the run starts from zero all the same, with the leftover on disk.
OpenPart(i) ==
  /\ pc[i] = "open"
  /\ \/ \E p \in {"empty"} \cup {q \in {part[FileOf[i]]} : q = "data"} :
          /\ part' = [part EXCEPT ![FileOf[i]] = p]
          /\ done' = [done EXCEPT ![i] = (p = "data")]
     \/ /\ DropsFail /\ part[FileOf[i]] = "data" /\ UNCHANGED part
        /\ done' = [done EXCEPT ![i] = FALSE]
  /\ Goto(i, "copy")
  /\ UNCHANGED <<rowVars, setting, memVars, pumpVars, err, runAttempt, tail, disc,
                 userVars, lifeVars>>

\* A file unlinked under its writer stays unlinked.
WriteBytes(i) ==
  /\ pc[i] = "copy"
  /\ part' = [part EXCEPT ![FileOf[i]] = IF @ = "none" THEN "none" ELSE "data"]
  /\ done' = [done EXCEPT ![i] = TRUE]
  /\ UNCHANGED <<rowVars, setting, memVars, pumpVars, pc, err, runAttempt, tail, disc,
                 userVars, lifeVars>>

\* The throttled progress write (every dbEvery).
PersistProgress(i) ==
  /\ pc[i] = "copy" /\ done[i]
  /\ hasBytes' = [hasBytes EXCEPT ![i] = TRUE]
  /\ UNCHANGED <<state, attempt, backoff, setting, part, memVars, pumpVars, runVars, disc,
                 userVars, lifeVars>>

\* The engine's last act is to rename the placeholder into place.
EngineSucceeds(i) ==
  /\ pc[i] = "copy" /\ part[FileOf[i]] = "data" /\ done[i]
  /\ part' = [part EXCEPT ![FileOf[i]] = "none"]
  /\ Goto(i, "final")
  /\ UNCHANGED <<rowVars, setting, memVars, pumpVars, err, runAttempt, done, tail, disc,
                 userVars, lifeVars>>

EngineFails(i) ==
  /\ pc[i] \in Writing /\ Fail(i, "final", EngineErr(i))
  /\ UNCHANGED <<rowVars, setting, part, memVars, pumpVars, runAttempt, done, tail, disc,
                 userVars, lifeVars>>

\* ErrChunkStateLost: raised before the first byte of a resumed chunked run.
ChunkStateLost(i) ==
  /\ pc[i] = "open" /\ done[i] /\ Goto(i, "lost")
  /\ UNCHANGED <<rowVars, setting, part, memVars, pumpVars, err, runAttempt, done, tail,
                 disc, userVars, lifeVars>>

\* Nobody looks at whether the part really went: no connection, a server that
\* refuses, a locked file leave it where it is.
DropLostPart(i) ==
  /\ pc[i] = "lost" /\ Goto(i, "lostReset")
  /\ part' \in {part, [part EXCEPT ![FileOf[i]] = "none"]}
  /\ UNCHANGED <<rowVars, setting, memVars, pumpVars, err, runAttempt, done, tail, disc,
                 userVars, lifeVars>>

\* The count is zeroed; a run with a live context and attempts left restarts,
\* any other falls through to the ordinary failure path, live count and all.
ResetLost(i) ==
  /\ pc[i] = "lostReset"
  /\ hasBytes' = [hasBytes EXCEPT ![i] = FALSE]
  /\ IF i \notin ctxDone /\ AttemptsLeft(i)
       THEN Goto(i, "restart") /\ UNCHANGED err
       ELSE Fail(i, "final", {"fatal"})
  /\ UNCHANGED <<state, attempt, backoff, setting, part, memVars, pumpVars, runAttempt,
                 done, tail, disc, userVars, lifeVars>>

\* An immediate retry, if the row is still the engine's.
Restart(i) ==
  /\ pc[i] = "restart"
  /\ \/ state[i] = "active" /\ ScheduleRetry(i, FALSE) /\ Goto(i, "release")
     \/ (state[i] # "active" \/ DbErrors) /\ Goto(i, "settle") /\ UNCHANGED rowVars
  /\ UNCHANGED <<setting, part, memVars, pumpVars, err, runAttempt, done, tail, disc,
                 userVars, lifeVars>>

\* UpdateTransferProgress(final), whatever the outcome.
FinalProgress(i) ==
  /\ pc[i] = "final"
  /\ hasBytes' = [hasBytes EXCEPT ![i] = done[i]]
  /\ Goto(i, IF err[i] = "none" THEN "complete" ELSE "fin")
  /\ UNCHANGED <<state, attempt, backoff, setting, part, memVars, pumpVars, err,
                 runAttempt, done, tail, disc, userVars, lifeVars>>

\* Unguarded: the file is complete and real, whatever the row says by now.
Complete(i) ==
  /\ pc[i] = "complete" /\ Goto(i, "release")
  /\ \/ SetState(i, "completed")
     \/ DbErrors /\ UNCHANGED state
  /\ UNCHANGED <<hasBytes, attempt, backoff, setting, part, memVars, pumpVars, err,
                 runAttempt, done, tail, disc, userVars, lifeVars>>

-----------------------------------------------------------------------------
(* finishWithError and settleStopped. *)

\* Reads the row. No longer active: it is left as it stands and a cancelled
\* one discarded. Still active: the caller goes on at `otherwise`.
SettleStopped(i, otherwise) ==
  /\ IF state[i] = "active" THEN Goto(i, otherwise) /\ UNCHANGED disc
     ELSE IF state[i] = "cancelled"
       THEN Goto(i, "discard") /\ disc' = [disc EXCEPT ![<<"run", i>>] = "read"]
       ELSE Goto(i, "release") /\ UNCHANGED disc
  /\ UNCHANGED <<rowVars, setting, part, memVars, pumpVars, err, runAttempt, done, tail,
                 userVars, lifeVars>>

FinishStopped(i) == pc[i] = "fin" /\ i \in ctxDone /\ SettleStopped(i, "mark")
SettleAgain(i)   == pc[i] = "settleAgain" /\ SettleStopped(i, "ladder")
Settle(i)        == pc[i] = "settle" /\ SettleStopped(i, "release")

FinishFailed(i) ==
  /\ pc[i] = "fin" /\ i \notin ctxDone /\ Goto(i, "ladder")
  /\ UNCHANGED <<rowVars, setting, part, memVars, pumpVars, err, runAttempt, done, tail,
                 disc, userVars, lifeVars>>

\* Mutant: the mark of a queue pause is not looked at.
ReadNoMark(i) ==
  /\ pc[i] = "mark"
  /\ Goto(i, IF stopping THEN "requeue" ELSE "ladder")
  /\ UNCHANGED <<rowVars, setting, part, memVars, pumpVars, err, runAttempt, done, tail,
                 disc, userVars, lifeVars>>

\* byQueue || stopping.
ReadMark(i) ==
  /\ pc[i] = "mark"
  /\ Goto(i, IF i \in requeue \/ stopping THEN "requeue" ELSE "ladder")
  /\ UNCHANGED <<rowVars, setting, part, memVars, pumpVars, err, runAttempt, done, tail,
                 disc, userVars, lifeVars>>

\* store.Requeue; a failed write leaves the row active for recovery.
RequeueRow(i) ==
  /\ pc[i] = "requeue"
  /\ \/ state[i] = "active" /\ CleanSlate({i}) /\ Goto(i, "release")
     \/ state[i] # "active" /\ UNCHANGED rowVars /\ Goto(i, "settleAgain")
     \/ DbErrors /\ UNCHANGED rowVars /\ Goto(i, "release")
  /\ UNCHANGED <<setting, part, memVars, pumpVars, err, runAttempt, done, tail, disc,
                 userVars, lifeVars>>

\* The retry ladder: both writes are guarded on the row still being active.
Ladder(i) ==
  /\ pc[i] = "ladder"
  /\ \/ /\ state[i] = "active" /\ Goto(i, "release")
        /\ IF err[i] \in Retryable /\ AttemptsLeft(i)
             THEN ScheduleRetry(i, TRUE)
             ELSE SetState(i, "failed") /\ UNCHANGED <<hasBytes, attempt, backoff>>
     \/ (state[i] # "active" \/ DbErrors) /\ Goto(i, "settle") /\ UNCHANGED rowVars
  /\ UNCHANGED <<setting, part, memVars, pumpVars, err, runAttempt, done, tail, disc,
                 userVars, lifeVars>>

Discarded(i) ==
  /\ pc[i] = "discard" /\ disc[<<"run", i>>] = "idle" /\ Goto(i, "release")
  /\ UNCHANGED <<rowVars, setting, part, memVars, pumpVars, err, runAttempt, done, tail,
                 disc, userVars, lifeVars>>

\* The deferred release; running.Done follows the tail's read-back.
Release(i) ==
  /\ pc[i] = "release" /\ Goto(i, "idle")
  /\ err' = [err EXCEPT ![i] = "none"]
  /\ DropReservation(i)
  /\ tail' = tail \cup {i}
  /\ UNCHANGED <<rowVars, setting, part, pumpVars, disc, userVars, lifeVars>>

Tail(i) ==
  /\ i \in tail /\ tail' = tail \ {i}
  /\ StartSweep("rel", {j \in {i} : CancelledWithBytes(j)})
  /\ UNCHANGED <<rowVars, setting, part, memVars, pumpVars, pc, err, runAttempt, done,
                 userVars, lifeVars>>

\* What moves bytes, and what unwinds: the second is owed progress even when
\* the network is silent.
Engine(i) == DialOk(i) \/ DialFails(i) \/ OpenPart(i) \/ WriteBytes(i)
             \/ PersistProgress(i) \/ EngineSucceeds(i) \/ EngineFails(i) \/ ChunkStateLost(i)
Unwind(i) == DropLostPart(i) \/ ResetLost(i) \/ Restart(i) \/ FinalProgress(i) \/ Complete(i)
             \/ FinishStopped(i) \/ FinishFailed(i) \/ ReadMark(i) \/ RequeueRow(i)
             \/ SettleAgain(i) \/ Settle(i) \/ Ladder(i) \/ Discarded(i) \/ Release(i)

-----------------------------------------------------------------------------
(* discardPartials, one goroutine per <<kind, row>>. *)

DiscardGoto(a, there) == disc' = [disc EXCEPT ![a] = there]

\* A stopping app leaves remote placeholders alone; otherwise the row is
\* re-read and must still be cancelled with bytes recorded.
DiscardRead(a) ==
  /\ disc[a] = "read"
  /\ DiscardGoto(a, IF CancelledWithBytes(a[2]) /\ ~(stopping /\ a[2] \in Uploads)
                      THEN "owners" ELSE "idle")
  /\ UNCHANGED <<rowVars, setting, part, memVars, pumpVars, runVars, userVars, lifeVars>>

DiscardOwners(a) ==
  /\ disc[a] = "owners"
  /\ DiscardGoto(a, IF OtherLiveTransfersForDst(a[2]) # {} THEN "idle" ELSE "unlink")
  /\ UNCHANGED <<rowVars, setting, part, memVars, pumpVars, runVars, userVars, lifeVars>>

DiscardUnlink(a) ==
  /\ disc[a] = "unlink"
  /\ part' = [part EXCEPT ![FileOf[a[2]]] = "none"]
  /\ DiscardGoto(a, "reset")
  /\ UNCHANGED <<rowVars, setting, memVars, pumpVars, runVars, userVars, lifeVars>>

\* Mutant: the count is zeroed although the files stayed.
DiscardForgets(a) ==
  /\ disc[a] \in {"owners", "unlink"}
  /\ DiscardGoto(a, "reset")
  /\ UNCHANGED <<rowVars, setting, part, memVars, pumpVars, runVars, userVars, lifeVars>>

\* No connection, a server that refuses, a locked file: the count stays.
DiscardFails(a) ==
  /\ disc[a] \in {"owners", "unlink"}
  /\ DiscardGoto(a, "idle")
  /\ UNCHANGED <<rowVars, setting, part, memVars, pumpVars, runVars, userVars, lifeVars>>

DiscardReset(a) ==
  /\ disc[a] = "reset"
  /\ hasBytes' = [hasBytes EXCEPT ![a[2]] = FALSE]
  /\ DiscardGoto(a, "idle")
  /\ UNCHANGED <<state, attempt, backoff, setting, part, memVars, pumpVars, runVars,
                 userVars, lifeVars>>

Discard(a) == DiscardRead(a) \/ DiscardOwners(a) \/ DiscardUnlink(a) \/ DiscardFails(a)
              \/ DiscardReset(a)

-----------------------------------------------------------------------------
(* Wails calls on rows. A click acts on what the screen shows; the write of  *)
(* Pause and Resume comes later and carries no guard, so it is a step of its *)
(* own. The guarded statements re-check in SQL and need none.                *)

Idle(k) == click[k].pc = "idle" /\ stopPc = "up"
ClickGoto(k, there, ids, left) ==
  click' = [click EXCEPT ![k] = [pc |-> there, ids |-> ids, left |-> left]]
ClickDone(k) == click' = [click EXCEPT ![k] = NoClick]
ClickOn(k, i) == click[k].ids = {i}

ClickPause(k, i) ==
  /\ "pause" \in Ops /\ Idle(k) /\ state[i] \in {"pending", "active"}
  /\ ClickGoto(k, "pause", {i}, {})
  /\ UNCHANGED <<rowVars, setting, part, memVars, pumpVars, runVars, disc, toggle, lifeVars>>

PauseWrite(k, i) ==
  /\ click[k].pc = "pause" /\ ClickOn(k, i)
  /\ SetState(i, "paused")
  /\ ClickGoto(k, "pauseStop", {i}, {i})
  /\ UNCHANGED <<hasBytes, attempt, backoff, setting, part, memVars, pumpVars, runVars,
                 disc, toggle, lifeVars>>

ClickResume(k, i) ==
  /\ "resume" \in Ops /\ Idle(k) /\ state[i] \in {"paused", "failed"}
  /\ ClickGoto(k, "resume", {i}, {})
  /\ UNCHANGED <<rowVars, setting, part, memVars, pumpVars, runVars, disc, toggle, lifeVars>>

ResumeWrite(k, i) ==
  /\ click[k].pc = "resume" /\ ClickOn(k, i)
  /\ SetState(i, "pending")
  /\ ClickDone(k)
  /\ UNCHANGED <<hasBytes, attempt, backoff, setting, part, memVars, pumpVars, runVars,
                 disc, toggle, lifeVars>>

\* CancelByID (a batch of ids) and CancelQueued: one guarded UPDATE ... RETURNING id.
MarkCancelled(k, marked) ==
  /\ Idle(k) /\ marked # {}
  /\ state' = [i \in Ids |-> IF i \in marked THEN "cancelled" ELSE state[i]]
  /\ ClickGoto(k, "stop", marked, marked)
  /\ UNCHANGED <<hasBytes, attempt, backoff, setting, part, memVars, pumpVars, runVars,
                 disc, toggle, lifeVars>>

Cancel(k, S) == "cancel" \in Ops /\ MarkCancelled(k, {j \in S : state[j] \in Cancellable})
CancelQueued(k) ==
  "cancelQueued" \in Ops /\ MarkCancelled(k, {i \in Ids : state[i] \in QueuedState})

\* cancelIfRunning, for a pause or for each row a cancel marked.
StopRow(k, i) ==
  /\ click[k].pc \in {"pauseStop", "stop"}
  /\ i \in click[k].left /\ \A j \in click[k].left : i <= j
  /\ ctxDone' = ctxDone \cup ({i} \cap cancels)
  /\ LET left == click[k].left \ {i} IN
       IF left # {} THEN ClickGoto(k, "stop", click[k].ids, left)
       ELSE IF click[k].pc = "stop" THEN ClickGoto(k, "read", click[k].ids, {})
       ELSE ClickDone(k)
  /\ UNCHANGED <<rowVars, setting, part, paused, stopping, cancels, requeue, activeDst,
                 pumpVars, runVars, disc, toggle, lifeVars>>

\* sweepCancelled: TransfersByID, then under d.mu the rows nobody is running.
SweepRead(k) ==
  /\ click[k].pc = "read"
  /\ ClickGoto(k, "check", {i \in click[k].ids : hasBytes[i]}, {})
  /\ UNCHANGED <<rowVars, setting, part, memVars, pumpVars, runVars, disc, toggle, lifeVars>>

SweepIdle(k) ==
  /\ click[k].pc = "check"
  /\ StartSweep("batch", click[k].ids \ cancels)
  /\ ClickDone(k)
  /\ UNCHANGED <<rowVars, setting, part, memVars, pumpVars, runVars, toggle, lifeVars>>

\* RetryFailedTransfers: one statement over every failed row.
RetryFailed(k) ==
  /\ "retryFailed" \in Ops /\ Idle(k) /\ InState("failed") # {}
  /\ CleanSlate(InState("failed"))
  /\ UNCHANGED <<setting, part, memVars, pumpVars, runVars, disc, userVars, lifeVars>>

\* The INSERT of EnqueueTransfer, for a row its duplicate check let through:
\* rows that share a destination here have different sources.
Enqueue(k, i) ==
  /\ "enqueue" \in Ops /\ Idle(k) /\ state[i] = "none"
  /\ SetState(i, "pending")
  /\ UNCHANGED <<hasBytes, attempt, backoff, setting, part, memVars, pumpVars, runVars,
                 disc, userVars, lifeVars>>

Click(k) ==
  \/ \E i \in Ids : ClickPause(k, i) \/ ClickResume(k, i) \/ Enqueue(k, i)
  \/ \E S \in SUBSET Ids : Cancel(k, S)
  \/ CancelQueued(k) \/ RetryFailed(k)
Follow(k) ==
  \/ \E i \in Ids : PauseWrite(k, i) \/ ResumeWrite(k, i) \/ StopRow(k, i)
  \/ SweepRead(k) \/ SweepIdle(k)

-----------------------------------------------------------------------------
(* SetPaused(on). The button sends the opposite of what it shows. *)

ToggleGoto(g, there, keep) == toggle' = [toggle EXCEPT ![g] = [pc |-> there, keep |-> keep]]

TogglePause(g) ==
  /\ toggle[g].pc = "idle" /\ stopPc = "up"
  /\ ToggleGoto(g, IF paused THEN "persistOff" ELSE "persistOn", {})
  /\ UNCHANGED <<rowVars, setting, part, memVars, pumpVars, runVars, disc, click, lifeVars>>

\* Mutant: only a pause is persisted.
PersistOnlyPause(g) ==
  /\ toggle[g].pc \in {"persistOn", "persistOff"}
  /\ setting' = (setting \/ toggle[g].pc = "persistOn")
  /\ ToggleGoto(g, IF toggle[g].pc = "persistOn" THEN "flagOn" ELSE "snapshot", {})
  /\ UNCHANGED <<rowVars, part, memVars, pumpVars, runVars, disc, click, lifeVars>>

PersistPause(g) ==
  /\ toggle[g].pc \in {"persistOn", "persistOff"}
  /\ setting' = (toggle[g].pc = "persistOn")
  /\ ToggleGoto(g, IF toggle[g].pc = "persistOn" THEN "flagOn" ELSE "snapshot", {})
  /\ UNCHANGED <<rowVars, part, memVars, pumpVars, runVars, disc, click, lifeVars>>

FlagPaused(g) ==
  /\ toggle[g].pc = "flagOn" /\ paused' = TRUE /\ ToggleGoto(g, "stopAll", {})
  /\ UNCHANGED <<rowVars, setting, part, stopping, cancels, ctxDone, requeue, activeDst,
                 pumpVars, runVars, disc, click, lifeVars>>

\* stopAll(true)
StopAllForPause(g) ==
  /\ toggle[g].pc = "stopAll"
  /\ ctxDone' = cancels /\ requeue' = cancels
  /\ ToggleGoto(g, "idle", {})
  /\ UNCHANGED <<rowVars, setting, part, paused, stopping, cancels, activeDst, pumpVars,
                 runVars, disc, click, lifeVars>>

SnapshotRunning(g) ==
  /\ toggle[g].pc = "snapshot" /\ ToggleGoto(g, "heal", cancels)
  /\ UNCHANGED <<rowVars, setting, part, memVars, pumpVars, runVars, disc, click, lifeVars>>

\* Mutant: every active row is requeued, running or not.
HealEveryone(g) ==
  /\ toggle[g].pc = "heal"
  /\ CleanSlate(InState("active"))
  /\ ToggleGoto(g, "flagOff", {})
  /\ UNCHANGED <<setting, part, memVars, pumpVars, runVars, disc, click, lifeVars>>

\* RequeueExcept(running)
HealOrphans(g) ==
  /\ toggle[g].pc = "heal"
  /\ CleanSlate(InState("active") \ toggle[g].keep)
  /\ ToggleGoto(g, "flagOff", {})
  /\ UNCHANGED <<setting, part, memVars, pumpVars, runVars, disc, click, lifeVars>>

FlagResumed(g) ==
  /\ toggle[g].pc = "flagOff" /\ paused' = FALSE /\ ToggleGoto(g, "idle", {})
  /\ UNCHANGED <<rowVars, setting, part, stopping, cancels, ctxDone, requeue, activeDst,
                 pumpVars, runVars, disc, click, lifeVars>>

SetPaused(g) == PersistPause(g) \/ FlagPaused(g) \/ StopAllForPause(g)
                \/ SnapshotRunning(g) \/ HealOrphans(g) \/ FlagResumed(g)

-----------------------------------------------------------------------------
(* Shutdown, crash and the next launch. *)

BeginStop ==
  /\ MayStop /\ stopPc = "up" /\ stopping' = TRUE /\ stopPc' = "stopAll"
  /\ UNCHANGED <<rowVars, setting, part, paused, cancels, ctxDone, requeue, activeDst,
                 pumpVars, runVars, disc, userVars, launches>>

\* Mutant: Stop waits without stopping anything.
WaitForExit ==
  /\ stopPc = "stopAll" /\ stopPc' = "waitRunning"
  /\ UNCHANGED <<rowVars, setting, part, memVars, pumpVars, runVars, disc, userVars, launches>>

\* stopAll(false): the rows are not marked, `stopping` says it for all.
StopAllForExit ==
  /\ stopPc = "stopAll" /\ ctxDone' = cancels /\ stopPc' = "waitRunning"
  /\ UNCHANGED <<rowVars, setting, part, paused, stopping, cancels, requeue, activeDst,
                 pumpVars, runVars, disc, userVars, launches>>

\* running.Wait, then sweeps.Wait: each returns when its count is zero.
AwaitStop ==
  /\ \/ stopPc = "waitRunning" /\ Running = {} /\ stopPc' = "waitSweeps"
     \/ stopPc = "waitSweeps" /\ Sweeping = {} /\ stopPc' = "stopped"
  /\ UNCHANGED <<rowVars, setting, part, memVars, pumpVars, runVars, disc, userVars, launches>>

GraceExpires ==
  /\ stopPc \in {"waitRunning", "waitSweeps"} /\ stopPc' = "expired"
  /\ UNCHANGED <<rowVars, setting, part, memVars, pumpVars, runVars, disc, userVars, launches>>

\* The process ends - killed, or after Stop - and is started again:
\* RecoverInterrupted, then dispatch.New.
Relaunch ==
  /\ launches < MaxLaunches /\ launches' = launches + 1
  /\ CleanSlate(InState("active"))
  /\ paused' = (setting \/ StartPaused) /\ stopping' = FALSE /\ stopPc' = "up"
  /\ cancels' = {} /\ ctxDone' = {} /\ requeue' = {} /\ activeDst' = {}
  /\ pumpPc' = "idle" /\ todo' = {} /\ cur' = 0
  /\ pc' = [i \in Ids |-> "idle"] /\ err' = [i \in Ids |-> "none"]
  /\ runAttempt' = [i \in Ids |-> 0] /\ done' = [i \in Ids |-> FALSE] /\ tail' = {}
  /\ disc' = IdleDiscards
  /\ click' = [k \in Clickers |-> NoClick] /\ toggle' = [g \in Togglers |-> NoToggle]
  /\ UNCHANGED <<setting, part>>

-----------------------------------------------------------------------------
Next ==
  \/ Pump
  \/ \E i \in Ids : BackoffElapses(i) \/ Engine(i) \/ Unwind(i) \/ Tail(i)
  \/ \E a \in Kinds \X Ids : Discard(a)
  \/ \E k \in Clickers : Click(k) \/ Follow(k)
  \/ \E g \in Togglers : TogglePause(g) \/ SetPaused(g)
  \/ BeginStop \/ StopAllForExit \/ AwaitStop \/ GraceExpires \/ Relaunch

Spec == Init /\ [][Next]_vars

\* Mutant: no watchdog; a copy stuck inside pkg/sftp never returns.
NeverReturns(i) == FALSE

\* The watchdog: once the context ends it closes the connections, and the
\* engine must return. While it lives, a silent network lasts as long as it
\* likes.
EngineReturns(i) == i \in ctxDone /\ (DialFails(i) \/ EngineFails(i))

\* Every goroutine is scheduled; retry deadlines pass; the pump runs at least
\* every two seconds.
Fairness ==
  /\ WF_vars(Pump)
  /\ \A i \in Ids : WF_vars(EngineReturns(i)) /\ WF_vars(Unwind(i)) /\ WF_vars(Tail(i))
                    /\ WF_vars(BackoffElapses(i))
  /\ \A a \in Kinds \X Ids : WF_vars(Discard(a))
  /\ \A k \in Clickers : WF_vars(Follow(k))
  /\ \A g \in Togglers : WF_vars(SetPaused(g))
  /\ WF_vars(StopAllForExit) /\ WF_vars(AwaitStop)
FairSpec == Spec /\ Fairness

-----------------------------------------------------------------------------
(* Safety. *)

\* Every active row is somebody's: the pump is about to spawn its runner, or
\* its runner has not released it. A row that stayed active with nobody behind
\* it would never be listed again (RequeueExcept's comment).
ActiveHasRunner ==
  ~DbErrors => \A i \in InState("active") :
                 i \in cancels /\ (pc[i] # "idle" \/ (pumpPc = "spawn" /\ cur = i))

\* Two engines never have the same placeholder open: activeDst is taken before
\* the claim and given back only after the engine has returned.
OneWriterPerFile ==
  \A i, j \in Ids : pc[i] \in EnginePc /\ pc[j] \in EnginePc /\ i # j
                      => FileOf[i] # FileOf[j]

\* Once a pause or a shutdown has swept the running set, nothing runs with a
\* live context: the pump's re-check under d.mu lets no registration slip in
\* behind the sweep.
StoppedMeansStopped ==
  /\ paused /\ (\A g \in Togglers : toggle[g].pc # "stopAll") => cancels = ctxDone
  /\ stopping /\ stopPc # "stopAll" => cancels = ctxDone

\* The ladder gives up after maxAttempts however often the row is paused,
\* resumed, requeued or re-listed, and the snapshot the runner decides with is
\* the row's own count although it was read before the claim.
LadderBounded ==
  \A i \in Ids : /\ attempt[i] < MaxAttempts
                 /\ state[i] = "active" /\ pc[i] # "idle" => runAttempt[i] = attempt[i]

\* Cancelling throws the part-transferred data away. Data on disk therefore
\* belongs to a row that may resume it, to a run that has not ended, or to a
\* cancelled row that still records bytes; never to a cancelled row that claims
\* it has none, which every later discard would skip. (Between crashes.)
Accounted(f) == \E i \in Ids : FileOf[i] = f /\ (state[i] \in Owner \/ CancelledWithBytes(i)
                                                  \/ pc[i] # "idle")
NoForgottenData == \A f \in Files : part[f] = "data" => Accounted(f)

\* SetPaused writes the setting first, so a crash at any point comes back as the
\* user last asked: a queue that is paused says so on disk unless a resume is
\* under way, and a queue that runs says that unless a pause is.
Toggling(pcs) == \E g \in Togglers : toggle[g].pc \in pcs
PauseMirrored ==
  /\ paused => setting \/ StartPaused \/ Toggling({"snapshot", "heal", "flagOff"})
  /\ ~paused => ~setting \/ Toggling({"flagOn"})

\* When Stop has returned, no discard is under way or will start: whoever owes
\* one - a cancel call, a release, the pump - is refused once Stop has begun, so
\* the second Wait misses none and the store can be closed.
StopOutlivesDiscards == stopPc = "stopped" => Sweeping = {}

-----------------------------------------------------------------------------
(* The inductive invariant behind ActiveHasRunner, OneWriterPerFile and       *)
(* LadderBounded, and with HealOnlyWhilePaused behind the refinement.         *)

\* Every registration has exactly one owner, the pump or a runner, and every
\* runner a registration.
HeldByPump == {i \in {cur} : pumpPc \in {"claim", "spawn", "release"}}
Ownership ==
  /\ pumpPc \in {"claim", "spawn", "release", "tail"} => cur \in Ids
  /\ \A i \in HeldByPump : i \in cancels /\ pc[i] = "idle"
  /\ \A i \in Ids : pc[i] # "idle" => i \in cancels
  /\ \A i \in cancels : pc[i] # "idle" \/ i \in HeldByPump
  /\ ctxDone \subseteq cancels /\ requeue \subseteq cancels

\* Registrations hold pairwise different files.
FileLocks ==
  /\ \A i \in cancels : FileOf[i] \in activeDst
  /\ \A i, j \in cancels : i # j => FileOf[i] # FileOf[j]

\* Past its guarded write a runner no longer has an active row to leave behind.
ActiveOwned ==
  ~DbErrors => \A i \in InState("active") :
                 \/ pc[i] \notin {"idle", "settle", "discard", "release"}
                 \/ pumpPc = "spawn" /\ cur = i

\* What the pump read about a row is still true of it when it claims it: only a
\* claim makes a row active and only an active row's attempts move, so no row
\* on the list can have changed.
Listed(i) == state[i] \notin {"none", "active", "failed"}
Snapshots ==
  /\ pumpPc \in {"idle", "list"} => todo = {}
  /\ pumpPc \in {"idle", "list", "scan"} => cur = 0
  /\ \A r, s \in todo : r.id = s.id => r = s
  /\ \A r \in todo : r.id # cur /\ Listed(r.id) /\ r.attempt = attempt[r.id]
  /\ pumpPc = "claim" => Listed(cur) /\ runAttempt[cur] = attempt[cur]
  /\ \A i \in cancels : state[i] = "active" => runAttempt[i] = attempt[i]
  /\ \A i \in Ids : attempt[i] < MaxAttempts
  /\ \A i \in Ids : pc[i] = "restart" => AttemptsLeft(i)

IInv == TypeOK /\ Ownership /\ FileLocks /\ ActiveOwned /\ Snapshots

\* With one SetPaused at a time, a heal sees a queue that stays paused: nothing
\* is registered after its snapshot.
HealOnlyWhilePaused ==
  \A g \in Togglers :
    /\ toggle[g].pc \in {"persistOff", "snapshot", "heal", "flagOff"} => paused
    /\ toggle[g].pc = "heal" => cancels \subseteq toggle[g].keep

-----------------------------------------------------------------------------
(* Action properties. *)

UserWrote == click' # click

\* What the user decided stands: only the user, or a file that was already
\* finished, moves a row out of paused or cancelled. Every other writer - the
\* claim, the ladder, a requeue, a heal, recovery - must lose the race.
IntentStands ==
  [][\A i \in Ids : state[i] \in {"paused", "cancelled"} /\ state'[i] # state[i]
        => UserWrote \/ (pc[i] = "complete" /\ state'[i] = "completed")]_vars

\* Stopping a transfer is not a failure: no run ended by a pause, a cancel or a
\* shutdown fails its row or spends one of its attempts.
StopIsNotFailure ==
  [][\A i \in Ids : err[i] \in StopErr /\ pc[i] = "ladder"
        => state'[i] # "failed" /\ attempt'[i] <= attempt[i]]_vars

Unlinks(f) == part[f] # "none" /\ part'[f] = "none" /\ disc' # disc

\* A discard never unlinks a file that a row nobody cancelled is writing.
DiscardSparesWriters ==
  [][\A f \in Files, i \in Ids : Unlinks(f) /\ FileOf[i] = f /\ pc[i] \in Writing
        => state[i] = "cancelled"]_vars

\* A discard never zeroes the count of a row somebody may still resume.
DiscardSparesRows ==
  [][\A i \in Ids : hasBytes[i] /\ ~hasBytes'[i] /\ disc' # disc => state[i] \notin Owner]_vars

\* Resuming the queue heals orphans only: a row with a goroutine behind it is
\* never wound back to pending underneath it.
HealSparesRunners ==
  [][\A i \in Ids : state[i] = "active" /\ state'[i] = "pending" /\ toggle' # toggle /\ launches' = launches
        => pc[i] = "idle" /\ cur # i]_vars

-----------------------------------------------------------------------------
(* Liveness. *)

\* A stopped run always lets go of its connections and its file: the watchdog
\* ends the engine and every path from there ends in release.
StopFreesSlot == \A i \in Ids : (i \in ctxDone) ~> (i \notin ctxDone)

\* Shutdown drains: the runners Stop waits for end, and so do the discards they
\* leave behind, to which a stopping dispatcher adds no more.
ShutdownDrains ==
  (stopPc = "waitRunning") ~> ((Running = {} /\ Sweeping = {}) \/ stopPc = "up")

-----------------------------------------------------------------------------
(* What the queue promises about a row, with the goroutines left out: a      *)
(* registered row is a held one.                                             *)

Lifecycle == INSTANCE TransferLifecycle WITH held <- cancels, WritesMayFail <- DbErrors
LifecycleSpec == Lifecycle!Spec
=============================================================================
