----------------------------- MODULE QueueViews -----------------------------
(***************************************************************************)
(* What the frontend reads out of a list of transfers, and what the store  *)
(* and the dispatcher read out of the same rows: frontend/src/lib/         *)
(* claimOrder.ts and the derivations at the head of QueueDock, DeckView,   *)
(* FlightView, TimelineView, MiniView and App.  A view is the sets of rows *)
(* it shows as active, queued and so on; its counts are their sizes.       *)
(*                                                                         *)
(* A list maps every id to a row; ids without a row map to NoRow.  An      *)
(* order of rows maps each of them to the rows that come before it.  Bytes *)
(* are "some" or "none".  A retry deadline is named by the write that set  *)
(* it (0: none); "due" is the set of deadlines that have passed.  Nothing  *)
(* writes a priority other than the default, so the id alone orders rows.  *)
(***************************************************************************)
EXTENDS Integers, FiniteSets, Sequences

CONSTANTS
  Ids,          \* row ids, as SQLite hands them out
  PendingCap, FailedCap, FinishedCap   \* rows of a kind that one list holds
ASSUME IdAssumption == Ids \subseteq Nat \ {0}
ASSUME CapAssumption == {PendingCap, FailedCap, FinishedCap} \subseteq Nat \ {0}

State == {"pending", "dispatched", "active", "paused", "completed", "failed", "cancelled"}

Row == [state : State, moved : BOOLEAN, held : BOOLEAN, retry : Nat]
NoRow == [state |-> "none", moved |-> FALSE, held |-> FALSE, retry |-> 0]

Listed(list) == {i \in Ids : list[i] # NoRow}
InState(list, S) == {i \in Ids : list[i].state \in S}
HeldRows(list) == {i \in Ids : list[i].held}

Backoff(row, due) == row.retry # 0 /\ row.retry \notin due

(* --- what the backend lists --- *)

OldestOf(S, cap) == {i \in S : Cardinality({j \in S : j < i}) < cap}
NewestOf(S, cap) == {i \in S : Cardinality({j \in S : j > i}) < cap}

\* Mutant: the newest rows, whatever their state.
NewestRows(list) == NewestOf(Listed(list), FinishedCap)

\* transfersWindowSQL: rows in flight are never left out.
InWindow(list) ==
  InState(list, {"active", "dispatched", "paused"})
    \cup OldestOf(InState(list, {"pending"}), PendingCap)
    \cup NewestOf(InState(list, {"failed"}), FailedCap)
    \cup NewestOf(InState(list, {"completed", "cancelled"}), FinishedCap)

Window(list) == [i \in Ids |-> IF i \in InWindow(list) THEN list[i] ELSE NoRow]

(* --- what the backend takes next --- *)

Claimable(rows, due) ==
  {i \in InState(rows, {"pending"}) : ~rows[i].held /\ ~Backoff(rows[i], due)}

PendingTransfers(rows, due) ==
  [i \in Claimable(rows, due) |-> {j \in Claimable(rows, due) : j < i}]

(* --- what the frontend says goes next --- *)

\* Mutant: the deadline of a retry is not looked at.
ClaimOrderById(list, due, i, j) == i < j

Armed(list) == InState(list, {"pending", "dispatched"}) \ HeldRows(list)

ClaimOrder(list, due, i, j) ==
  \/ ~Backoff(list[i], due) /\ Backoff(list[j], due)
  \/ Backoff(list[i], due) = Backoff(list[j], due) /\ i < j

NextUp(list, due) ==
  [i \in Armed(list) |-> {j \in Armed(list) : ClaimOrder(list, due, j, i)}]

(* --- one operator per view --- *)

DockView(list) ==
  [active |-> InState(list, {"active"}),
   held   |-> HeldRows(list),
   queued |-> InState(list, {"pending", "dispatched"}) \ HeldRows(list),
   failed |-> InState(list, {"failed"}) \ HeldRows(list)]

Waiting(list) == InState(list, {"pending", "dispatched", "paused"})
Cancellable(list) == Listed(list) \ InState(list, {"completed", "cancelled"})

DeckView(list, due) ==
  [active |-> InState(list, {"active"}),
   queued |-> DOMAIN NextUp(list, due),
   failed |-> InState(list, {"failed"}),
   done   |-> InState(list, {"completed"})]

FlightView(list) ==
  [active |-> InState(list, {"active"}),
   queued |-> InState(list, {"pending", "dispatched"}) \ HeldRows(list),
   failed |-> InState(list, {"failed"}),
   done   |-> InState(list, {"completed"})]

TimelineView(list, due) ==
  [active |-> InState(list, {"active"}),
   queued |-> DOMAIN NextUp(list, due),
   failed |-> InState(list, {"failed"}),
   done   |-> InState(list, {"completed"})]

MiniView(list) ==
  [active |-> InState(list, {"active"}),
   queued |-> {i \in Ids : ~list[i].held /\ list[i].state \in {"pending", "dispatched"}},
   failed |-> InState(list, {"failed"})]

\* App: the Flight button exists while something is unfinished.
FlightAvailable(list) == Listed(list) \ InState(list, {"completed", "cancelled"}) # {}
=============================================================================
