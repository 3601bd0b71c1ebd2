------------------------- MODULE TransferLifecycle --------------------------
(***************************************************************************)
(* What the queue promises about a transfer row, with the goroutines left  *)
(* out: a row is moved by its one holder, by the user, or by recovery, and *)
(* each may move it only where the table of queue/transfers.go says so.    *)
(* Dispatcher implements this specification with held <- cancels.          *)
(***************************************************************************)
EXTENDS Naturals

CONSTANTS
  Ids,            \* transfer rows
  Files,          \* destination files
  FileOf,         \* [Ids -> Files]
  MaxAttempts,    \* attempts a row gets before it fails
  WritesMayFail   \* may a holder lose a terminal write and leave its row active?

VARIABLES state, attempt, held
vars == <<state, attempt, held>>

Init == /\ state \in [Ids -> {"none", "pending"}]
        /\ attempt = [i \in Ids |-> 0] /\ held = {}

Move(S, s) == state' = [i \in Ids |-> IF i \in S THEN s ELSE state[i]]

\* The engine's side: one holder per file, and only the holder of an active
\* row may end the run.
Take(i) == /\ \A j \in held : FileOf[j] # FileOf[i]
           /\ held' = held \cup {i} /\ UNCHANGED <<state, attempt>>
Start(i) == i \in held /\ state[i] = "pending" /\ Move({i}, "active") /\ UNCHANGED <<attempt, held>>
Fail(i) == i \in held /\ state[i] = "active" /\ Move({i}, "failed") /\ UNCHANGED <<attempt, held>>
Retry(i) == /\ i \in held /\ state[i] = "active" /\ attempt[i] + 1 < MaxAttempts
            /\ Move({i}, "pending") /\ attempt' = [attempt EXCEPT ![i] = @ + 1]
            /\ UNCHANGED held
\* A finished file is finished, whatever was asked of the row meanwhile.
Complete(i) == i \in held /\ Move({i}, "completed") /\ UNCHANGED <<attempt, held>>
LetGo(i) == /\ i \in held /\ (state[i] = "active" => WritesMayFail)
            /\ held' = held \ {i} /\ UNCHANGED <<state, attempt>>

\* A clean slate: for the holder of a stopped run, for active rows nobody
\* holds, and for failed rows the user retries.
Requeue(S) == /\ Move(S, "pending")
              /\ attempt' = [i \in Ids |-> IF i \in S THEN 0 ELSE attempt[i]]
RequeueOwn(i) == i \in held /\ state[i] = "active" /\ Requeue({i}) /\ UNCHANGED held
Heal(S) == /\ \A i \in S : i \notin held /\ state[i] = "active"
           /\ Requeue(S) /\ UNCHANGED held
RetryFailed(S) == (\A i \in S : state[i] = "failed") /\ Requeue(S) /\ UNCHANGED held

\* The user's side. Pause and resume are unguarded writes.
Enqueue(i) == state[i] = "none" /\ Move({i}, "pending") /\ UNCHANGED <<attempt, held>>
Pause(i)  == state[i] # "none" /\ Move({i}, "paused") /\ UNCHANGED <<attempt, held>>
Resume(i) == state[i] # "none" /\ Move({i}, "pending") /\ UNCHANGED <<attempt, held>>
Cancel(S) == /\ \A i \in S : state[i] \in {"pending", "active", "paused", "failed"}
             /\ Move(S, "cancelled") /\ UNCHANGED <<attempt, held>>

\* A process that ends holds nothing; what it was running is requeued.
Relaunch == Requeue({i \in Ids : state[i] = "active"}) /\ held' = {}

Next ==
  \/ \E i \in Ids : \/ Take(i) \/ Start(i) \/ Fail(i) \/ Retry(i) \/ Complete(i) \/ LetGo(i)
                    \/ RequeueOwn(i) \/ Enqueue(i) \/ Pause(i) \/ Resume(i)
  \/ \E S \in SUBSET Ids : Heal(S) \/ RetryFailed(S) \/ Cancel(S)
  \/ Relaunch

Spec == Init /\ [][Next]_vars
=============================================================================
