---------------------------- MODULE QueueMirror ----------------------------
(***************************************************************************)
(* The transfer list of the frontend (store.ts, and the subscriptions of   *)
(* QueueDock.tsx) as a mirror of the transfer rows of the backend.         *)
(*                                                                         *)
(*   backend   writes a row, then announces it; goroutines announce        *)
(*             independently, each its own writes in order                 *)
(*   wire      events, delivered in the order they were emitted            *)
(*   reads     transfersList() answers, overtaken by events and by one     *)
(*             another; only the newest ticket may land                    *)
(*   calls     what the user asked for and the backend has not yet done    *)
(*                                                                         *)
(* The backend is the dispatcher as the frontend can see it: which writes  *)
(* there are, who makes them, and what each announces.  How rows come to   *)
(* be claimed, retried and settled is Dispatcher's subject.                *)
(***************************************************************************)
EXTENDS QueueViews

CONSTANTS
  Scenes,       \* the instances checked; every behaviour belongs to one
  MaxReads,     \* bound: list reads in flight
  MaxCalls      \* bound: Wails calls under way

\* A scene: the rows the table holds at the start, none of them dispatched,
\* a state the schema allows and no code writes; whether the behaviour
\* starts with the launch or with a frontend that has settled; what the user
\* may press and how often; how many row writes there are; whether list reads
\* may fail; whether an enqueued row may have to be asked about.
ASSUME SceneAssumption ==
  \A s \in Scenes :
    /\ s.rows \in [Ids -> Row \cup {NoRow}] /\ InState(s.rows, {"dispatched"}) = {}
    /\ s.launch \in BOOLEAN
    /\ s.presses \in Nat /\ s.writes \in Nat /\ s.fails \in BOOLEAN /\ s.asks \in BOOLEAN
ASSUME BoundAssumption == MaxReads \in Nat \ {0} /\ MaxCalls \in Nat \ {0}

VARIABLES
  scene,        \* the instance this behaviour belongs to
  \* --- backend ---
  rows,         \* the transfers table
  due,          \* retry deadlines that have passed
  holding,      \* rows whose hold for a decision is yet to be written (due), and
                \* those that had run by the time it was (late: history)
  paused,       \* the queue-wide pause
  writes,       \* row writes so far; the version of the table
  calls,        \* Wails calls under way
  out,          \* announcements of writes made and not yet emitted
  wire,         \* events emitted and not yet delivered
  \* --- frontend ---
  reads,        \* list reads in flight
  ticket,       \* refreshTicket
  timer,        \* a coalesced refetch is scheduled
  view,         \* transfers: the list every view shows
  viewDue,      \* deadlines passed when the list was last derived from
  viewVer,      \* version of the rows the list was read from
  patches,      \* states received by event, with the ticket of the time
  progress,     \* did the last progress event of a row say it has bytes?
  uiPaused,     \* queuePaused
  hydrate,      \* the first read of the pause: not sent, answered, done
  \* --- history ---
  unheard       \* a write nobody announced, or a read that failed, is the last word

backVars  == <<scene, rows, due, holding, paused, writes, out>>
listVars  == <<view, viewDue, viewVer, patches>>
readVars  == <<reads, ticket, timer>>
pauseVars == <<uiPaused, hydrate>>
mirrorVars == <<scene, rows, due, holding, paused, writes, calls, out, wire, reads, ticket, timer,
                view, viewDue, viewVer, patches, progress, uiPaused, hydrate, unheard>>

NoList == [i \in Ids |-> NoRow]
NoPatch == [state |-> "none", ticket |-> 0]

StateEv(i, s)    == [ev |-> "state", id |-> i, val |-> s]
Changed          == [ev |-> "changed", id |-> 0, val |-> ""]
ProgressEv(i, b) == [ev |-> "progress", id |-> i, val |-> IF b THEN "some" ELSE "none"]
PausedEv(on)     == [ev |-> "paused", id |-> 0, val |-> IF on THEN "on" ELSE "off"]

Holding == [due : SUBSET Ids, late : SUBSET Ids]

Event == {StateEv(i, s) : i \in Ids, s \in State} \cup {Changed}
           \cup {ProgressEv(i, b) : i \in Ids, b \in BOOLEAN} \cup {PausedEv(on) : on \in BOOLEAN}

-----------------------------------------------------------------------------
(* Writing and announcing.  A write by row i's runner carries by = i, one  *)
(* by a Wails call or a sweep by = 0; "settle" is an announcement whose    *)
(* state is read when it is made.                                          *)

Owes(i) == \E a \in out : a.by = i

Says(i, evs) == {[by |-> i, at |-> writes + 1, evs |-> evs]}
SettleEv(i)  == <<[ev |-> "settle", id |-> i, val |-> ""]>>
Settles(i)   == Says(i, SettleEv(i))

Write(next, said) ==
  /\ writes < scene.writes
  /\ writes' = writes + 1
  /\ rows' = next
  /\ out' = out \cup said

EmitState(i, s) == <<StateEv(i, s), Changed>>

Announced(next, said) == Write(next, said) /\ unheard' = FALSE

Runner(i, row, evs) ==
  /\ ~Owes(i)
  /\ Announced([rows EXCEPT ![i] = row], Says(i, evs))
  /\ UNCHANGED <<scene, due, holding, paused, calls, wire, reads, ticket, timer, listVars,
                 progress, pauseVars>>

(* --- runTransfer, and the claim before it --- *)

Claim(i) ==
  /\ ~paused
  /\ i \in Claimable(rows, due)
  /\ Runner(i, [rows[i] EXCEPT !.state = "active"], EmitState(i, "active"))

Running(i) == rows[i].state = "active"

\* The recorded byte count and the event that carries the live one.
Progress(i) ==
  /\ Running(i) /\ ~rows[i].moved /\ ~Owes(i)
  /\ rows' = [rows EXCEPT ![i].moved = TRUE]
  /\ out' = out \cup {[by |-> i, at |-> writes, evs |-> <<ProgressEv(i, TRUE)>>]}
  /\ UNCHANGED <<scene, due, holding, paused, writes, calls, wire, reads, ticket, timer, listVars,
                 progress, pauseVars, unheard>>

Complete(i) ==
  /\ Running(i)
  /\ Runner(i, [rows[i] EXCEPT !.state = "completed", !.moved = TRUE],
            <<ProgressEv(i, TRUE), StateEv(i, "completed"), Changed>>)

Fail(i) ==
  /\ Running(i)
  /\ Runner(i, [rows[i] EXCEPT !.state = "failed"], EmitState(i, "failed"))

ScheduleRetry(i) ==
  /\ Running(i)
  /\ Runner(i, [rows[i] EXCEPT !.state = "pending", !.retry = writes + 1],
            EmitState(i, "pending"))

\* Lost chunk state: the row starts over at once.
Restart(i) ==
  /\ Running(i) /\ rows[i].moved
  /\ Runner(i, [rows[i] EXCEPT !.state = "pending", !.moved = FALSE],
            <<StateEv(i, "pending"), Changed, ProgressEv(i, FALSE)>>)

Requeue(i) ==
  /\ Running(i) /\ paused
  /\ Runner(i, [rows[i] EXCEPT !.state = "pending", !.retry = 0], EmitState(i, "pending"))

DeadlinePasses(i) ==
  /\ Backoff(rows[i], due)
  /\ due' = due \cup {rows[i].retry}
  /\ UNCHANGED <<scene, rows, holding, paused, writes, calls, out, wire, readVars, listVars,
                 progress, pauseVars, unheard>>

\* discardBatch: the leftovers of a cancelled row without a runner.
Sweep(i) ==
  /\ rows[i].state = "cancelled" /\ rows[i].moved /\ ~Owes(i)
  /\ Announced([rows EXCEPT ![i].moved = FALSE], Says(0, <<ProgressEv(i, FALSE), Changed>>))
  /\ UNCHANGED <<scene, due, holding, paused, calls, wire, readVars, listVars, progress, pauseVars>>

Emit ==
  \E a \in out :
    LET i == a.by
        discards == a.evs = SettleEv(i) /\ rows[i].state = "cancelled" /\ rows[i].moved
        settled == IF rows[i] = NoRow THEN <<>>
                   ELSE IF discards THEN <<ProgressEv(i, FALSE), StateEv(i, "cancelled"), Changed>>
                   ELSE EmitState(i, rows[i].state)
    IN /\ a.by # 0 => \A b \in out : b.by = a.by => b.at >= a.at
       /\ out' = out \ {a}
       /\ wire' = wire \o (IF a.evs = SettleEv(i) THEN settled ELSE a.evs)
       /\ rows' = IF discards THEN [rows EXCEPT ![i].moved = FALSE] ELSE rows
       /\ UNCHANGED <<scene, due, holding, paused, writes, calls, readVars, listVars, progress,
                      pauseVars, unheard>>

-----------------------------------------------------------------------------
(* Wails calls.  The user's click put the call into calls (QueueDock); here *)
(* the backend performs it.                                                *)

Op == {"pause", "resume", "cancel", "cancelMany", "cancelQueued", "retryFailed",
       "clearDone", "clearFailed", "overwrite", "rename", "skip", "setPaused", "none"}
Call == [op : Op, ids : SUBSET Ids, on : BOOLEAN]

CallFrame == UNCHANGED <<wire, readVars, listVars, progress, pauseVars>>
Answered(c) == calls' = calls \ {c}

\* A call that finds nothing to change.
NoEffect(c) ==
  /\ Answered(c)
  /\ UNCHANGED <<backVars, unheard>>

\* A runner whose row was taken from it may still be about to report progress.
AtWork(i) == Running(i) \/ \E a \in out : a.by = i /\ a.evs = <<ProgressEv(i, TRUE)>>

\* Runners of these rows are stopped and settle; the rest have none.
Stopped(S) == UNION {Settles(i) : i \in {j \in S : AtWork(j)}}

Pause(c) ==
  \E i \in c.ids :
    /\ c.op = "pause"
    /\ IF rows[i] = NoRow THEN NoEffect(c)
       ELSE /\ Write([rows EXCEPT ![i].state = "paused"], Stopped({i}))
            /\ unheard' = ~(Running(i) \/ Owes(i))
            /\ Answered(c) /\ UNCHANGED <<scene, due, holding, paused>>

Resume(c) ==
  \E i \in c.ids :
    /\ c.op = "resume"
    /\ IF rows[i] = NoRow THEN NoEffect(c)
       ELSE /\ Announced([rows EXCEPT ![i].state = "pending"], Says(0, EmitState(i, "pending")))
            /\ Answered(c) /\ UNCHANGED <<scene, due, holding, paused>>

\* CancelMany, CancelQueued and Cancel: mark, stop what runs, announce.
CancelRows(c, S) ==
  IF S = {} THEN NoEffect(c)
  ELSE /\ Announced([i \in Ids |-> IF i \in S
                                   THEN [rows[i] EXCEPT !.held = FALSE,
                                           !.state = IF i \in Cancellable(rows)
                                                     THEN "cancelled" ELSE rows[i].state]
                                   ELSE rows[i]],
                    Stopped(S) \cup Says(0, <<Changed>>))
       /\ Answered(c) /\ UNCHANGED <<scene, due, holding, paused>>

\* Skip takes the hold off rows that are past cancelling, too.
Cancel(c) ==
  \/ c.op \in {"cancel", "cancelMany"} /\ CancelRows(c, c.ids \cap Cancellable(rows))
  \/ c.op = "cancelQueued" /\ CancelRows(c, Waiting(rows))
  \/ c.op = "skip" /\ CancelRows(c, c.ids \cap HeldRows(rows))

RetryFailed(c) ==
  /\ c.op = "retryFailed"
  /\ Announced([i \in Ids |-> IF rows[i].state = "failed"
                              THEN [rows[i] EXCEPT !.state = "pending", !.retry = 0]
                              ELSE rows[i]], Says(0, <<Changed>>))
  /\ Answered(c) /\ UNCHANGED <<scene, due, holding, paused>>

\* Clear failed takes the rows it was given, Clear done what it finds; a
\* cancelled row whose data is still there may have to stay (Kept).
Clear(c) ==
  \E kept \in SUBSET {i \in Ids : rows[i].state \in {"failed", "cancelled"} /\ rows[i].moved} :
    LET gone == IF c.op = "clearFailed" THEN c.ids \cap InState(rows, {"failed"})
                ELSE InState(rows, {"completed", "cancelled"})
    IN /\ c.op \in {"clearDone", "clearFailed"}
       /\ Announced([i \in Ids |-> IF i \in gone \ kept THEN NoRow ELSE rows[i]],
                    Says(0, <<Changed>>))
       /\ Answered(c) /\ UNCHANGED <<scene, due, holding, paused>>

\* ResolveConflict: only rows that are held; a rename may find no name.
ResolveConflicts(c) ==
  \E S \in SUBSET (c.ids \cap HeldRows(rows)) :
    /\ c.op \in {"overwrite", "rename"}
    /\ c.op = "overwrite" => S = c.ids \cap HeldRows(rows)
    /\ Announced([i \in Ids |-> IF i \in S THEN [rows[i] EXCEPT !.held = FALSE] ELSE rows[i]],
                 Says(0, <<Changed>>))
    /\ Answered(c) /\ UNCHANGED <<scene, due, holding, paused>>

\* The call returns after its announcement.  Two calls of SetPaused that
\* overlap may announce in the wrong order; here they take turns.
SetPaused(c) ==
  /\ c.op = "setPaused"
  /\ \A a \in out : a.evs \notin {<<PausedEv(TRUE)>>, <<PausedEv(FALSE)>>}
  /\ paused' = c.on
  /\ out' = out \cup {[by |-> 0, at |-> writes, evs |-> <<PausedEv(c.on)>>]}
  /\ Answered(c)
  /\ UNCHANGED <<scene, rows, due, holding, writes, unheard>>

Exec ==
  \E c \in calls :
    /\ Pause(c) \/ Resume(c) \/ Cancel(c) \/ RetryFailed(c) \/ Clear(c)
         \/ ResolveConflicts(c) \/ SetPaused(c)
    /\ CallFrame

\* SQLite hands out the id after the largest in use, so a cleared id returns.
\* enqueueWithPolicy: the row is inserted; one to be asked about is held in
\* a second statement, and the call announces itself after that.
Enqueue(i, ask) ==
  /\ \A j \in Listed(rows) : j < i
  /\ \A j \in Ids : j < i => \E l \in Listed(rows) : j <= l
  /\ Write([rows EXCEPT ![i] = [NoRow EXCEPT !.state = "pending"]],
           IF ask THEN {} ELSE Says(0, <<Changed>>))
  /\ unheard' = ask
  /\ holding' = [due |-> IF ask THEN holding.due \cup {i} ELSE holding.due,
                 late |-> holding.late \ {i}]
  /\ UNCHANGED <<scene, due, paused, calls>> /\ CallFrame

\* EnqueueTransfer finds the same file queued already, and that row is asked about.
EnqueueAgain(i) ==
  /\ i \in Cancellable(rows) \ InState(rows, {"failed"}) /\ i \notin holding.due
  /\ holding' = [holding EXCEPT !.due = @ \cup {i}]
  /\ UNCHANGED <<scene, rows, due, paused, writes, calls, out, unheard>> /\ CallFrame

\* SetConflict writes the hold whatever has become of the row.
Hold(i) ==
  /\ i \in holding.due
  /\ Announced(IF rows[i] = NoRow THEN rows ELSE [rows EXCEPT ![i].held = TRUE],
               Says(0, <<Changed>>))
  /\ holding' = [due |-> holding.due \ {i},
                 late |-> IF Running(i) \/ rows[i].moved THEN holding.late \cup {i}
                          ELSE holding.late]
  /\ UNCHANGED <<scene, due, paused, calls>> /\ CallFrame

\* The hold could not be written: a row still untouched goes, and the call
\* fails before it announces anything.
HoldFails(i) ==
  /\ scene.fails /\ i \in holding.due
  /\ holding' = [holding EXCEPT !.due = @ \ {i}]
  /\ IF rows[i].state = "pending" /\ ~rows[i].moved
     THEN Write([rows EXCEPT ![i] = NoRow], {}) /\ unheard' = TRUE
     ELSE UNCHANGED <<rows, writes, out, unheard>>
  /\ UNCHANGED <<scene, due, paused, calls>> /\ CallFrame

-----------------------------------------------------------------------------
(* The frontend.                                                           *)

\* refreshTransfers, up to the call.
RefreshTransfers ==
  /\ Cardinality(reads) < MaxReads
  /\ ticket' = ticket + 1
  /\ reads' = reads \cup {[ticket |-> ticket + 1, done |-> FALSE, list |-> NoList, ver |-> 0]}

\* fetchNow: cancels the scheduled fetch and reads at once.
FetchNow == timer' = FALSE /\ RefreshTransfers

\* transfersList runs in the backend.
ReadRows ==
  \E r \in reads :
    /\ ~r.done
    /\ reads' = (reads \ {r}) \cup {[r EXCEPT !.done = TRUE, !.list = Window(rows), !.ver = writes]}
    /\ UNCHANGED <<backVars, calls, wire, ticket, timer, listVars, progress, pauseVars, unheard>>

Overlay(list, kept) ==
  [i \in Ids |-> IF list[i] # NoRow /\ kept[i] # NoPatch
                 THEN [list[i] EXCEPT !.state = kept[i].state] ELSE list[i]]

\* Mutant: whatever arrives, lands.
NeverSuperseded(r) == FALSE

Superseded(r) == r.ticket # ticket

\* The answer arrives: refreshTransfers after the call.  Tickets are only ever
\* compared, so the model numbers them anew when nothing holds one.
Land ==
  \E r \in reads :
    /\ r.done
    /\ reads' = reads \ {r}
    /\ IF Superseded(r) THEN UNCHANGED listVars
       ELSE LET kept == [i \in Ids |-> IF patches[i].ticket <= r.ticket THEN NoPatch
                                       ELSE patches[i]]
            IN /\ patches' = kept
               /\ view' = Overlay(r.list, kept)
               /\ viewDue' = due
               /\ viewVer' = r.ver
    /\ ticket' = IF reads' = {} /\ patches' = [i \in Ids |-> NoPatch] THEN 0 ELSE ticket
    /\ UNCHANGED <<backVars, calls, wire, timer, progress, pauseVars, unheard>>

ReadFails ==
  \E r \in reads :
    /\ scene.fails
    /\ reads' = reads \ {r}
    /\ unheard' = (unheard \/ r.ticket = ticket)
    /\ UNCHANGED <<backVars, calls, wire, ticket, timer, listVars, progress, pauseVars>>

\* Mutant: a read that is under way is taken for fresh enough.
TimerFiresWhenIdle ==
  /\ timer
  /\ IF reads = {} THEN FetchNow ELSE timer' = FALSE /\ UNCHANGED <<reads, ticket>>
  /\ UNCHANGED <<backVars, calls, wire, listVars, progress, pauseVars, unheard>>

TimerFires ==
  /\ timer
  /\ FetchNow
  /\ UNCHANGED <<backVars, calls, wire, listVars, progress, pauseVars, unheard>>

Receives(kind) == wire # <<>> /\ Head(wire).ev = kind /\ wire' = Tail(wire)

\* Mutant: a change announced during a read is left to that read.
OnChangedWhenIdle ==
  /\ Receives("changed")
  /\ timer' = (timer \/ reads = {})
  /\ UNCHANGED <<backVars, calls, reads, ticket, listVars, progress, pauseVars, unheard>>

OnChanged ==
  /\ Receives("changed")
  /\ timer' = TRUE
  /\ UNCHANGED <<backVars, calls, reads, ticket, listVars, progress, pauseVars, unheard>>

\* An unknown row is fetched at once; then patchTransferState.
OnState ==
  LET e == Head(wire) IN
  /\ Receives("state")
  /\ IF view[e.id] = NoRow THEN FetchNow ELSE UNCHANGED readVars
  /\ patches' = [patches EXCEPT ![e.id] = [state |-> e.val, ticket |-> ticket']]
  /\ view' = IF view[e.id] = NoRow THEN view ELSE [view EXCEPT ![e.id].state = e.val]
  /\ viewDue' = due
  /\ UNCHANGED <<backVars, calls, viewVer, progress, pauseVars, unheard>>

OnProgress ==
  /\ Receives("progress")
  /\ progress' = [progress EXCEPT ![Head(wire).id] = Head(wire).val = "some"]
  /\ UNCHANGED <<backVars, calls, readVars, listVars, pauseVars, unheard>>

\* The event wins over the first read's answer, whenever that arrives.
OnPaused ==
  /\ Receives("paused")
  /\ uiPaused' = (Head(wire).val = "on")
  /\ hydrate' = [hydrate EXCEPT !.fresh = FALSE]
  /\ UNCHANGED <<backVars, calls, readVars, listVars, progress, unheard>>

QueryPause ==
  /\ hydrate.at = "sent"
  /\ hydrate' = [hydrate EXCEPT !.at = "answered", !.on = paused]
  /\ UNCHANGED <<backVars, calls, wire, readVars, listVars, progress, uiPaused, unheard>>

HydratePause ==
  /\ hydrate.at = "answered"
  /\ hydrate' = [hydrate EXCEPT !.at = "done"]
  /\ uiPaused' = IF hydrate.fresh THEN hydrate.on ELSE uiPaused
  /\ UNCHANGED <<backVars, calls, wire, readVars, listVars, progress, unheard>>
-----------------------------------------------------------------------------
(* Properties.                                                             *)

Announcement == [by : Ids \cup {0}, at : 0..scene.writes + 1,
                 evs : Seq(Event) \cup {SettleEv(i) : i \in Ids}]
Read == [ticket : Nat, done : BOOLEAN, list : [Ids -> Row \cup {NoRow}], ver : 0..scene.writes]

\* Types of the mirror's state (store.ts:40-115, and the backend it mirrors).
MirrorTypeOK ==
  /\ scene \in Scenes
  /\ rows \in [Ids -> Row \cup {NoRow}] /\ view \in [Ids -> Row \cup {NoRow}]
  /\ due \subseteq Nat /\ viewDue \subseteq due /\ holding \in Holding
  /\ paused \in BOOLEAN /\ uiPaused \in BOOLEAN /\ timer \in BOOLEAN /\ unheard \in BOOLEAN
  /\ writes \in 0..scene.writes /\ viewVer \in 0..writes
  /\ calls \subseteq Call /\ wire \in Seq(Event)
  /\ \A a \in out : a \in Announcement
  /\ \A r \in reads : r \in Read /\ r.ticket <= ticket
  /\ ticket \in Nat
  /\ patches \in [Ids -> [state : State \cup {"none"}, ticket : 0..ticket]]
  /\ progress \in [Ids -> BOOLEAN]
  /\ hydrate \in [at : {"sent", "answered", "done"}, on : BOOLEAN, fresh : BOOLEAN]

SameRow(r, s) == [r EXCEPT !.moved = FALSE] = [s EXCEPT !.moved = FALSE]
Current == \A i \in Ids : SameRow(view[i], Window(rows)[i])
Quiet == out = {} /\ wire = <<>> /\ reads = {} /\ ~timer

\* With no announcement, event, scheduled fetch or read under way, the list
\* shows every row of the window as it is, unless the last word was a write nobody
\* announces or a read that failed: no coalescing, superseding or patching
\* may swallow the last change (store.ts:137-157, QueueDock.tsx:229-249).  The
\* pause button shows the queue's pause, also when its first read and a toggle
\* cross (QueueDock.tsx:162-176).
QuietIsCurrent ==
  Quiet => /\ unheard \/ Current
           /\ hydrate.at = "done" /\ calls = {} => uiPaused = paused

\* The list on screen never goes back to an older reading of the table
\* (store.ts:27-28, :141).
ListNeverRewinds == [][viewVer' >= viewVer]_mirrorVars

\* Whatever order answers and events arrive in, the list ends up current once
\* the rows stop changing (store.ts:2-3).
MirrorSettles == <>[](unheard \/ Current)

\* When the list is current, every view calls exactly those rows of the window
\* queued that the dispatcher may yet claim; a row waiting for a decision is
\* nobody's queued work (claimOrder.ts:16-19).  No view hides a running row,
\* however many rows there are (transfers.go:208-212).  What the pump would
\* claim comes first in "up next" and in the pump's order, with no row of the
\* queue left out before it, once it was derived after the last deadline passed
\* (transfers.go:130-137, :143-150).
ViewsMatchQueue ==
  LET inSight == InWindow(rows)
      mayRun == {i \in InState(rows, {"pending"}) \cap inSight : ~rows[i].held}
  IN Current =>
    /\ \A v \in {DockView(view), DeckView(view, viewDue), FlightView(view),
                  TimelineView(view, viewDue), MiniView(view)} :
         v.queued = mayRun /\ v.active = {i \in Ids : rows[i].state = "active"}
    /\ viewDue = due => \A i \in Claimable(rows, due) \cap inSight :
                          NextUp(view, viewDue)[i] = PendingTransfers(rows, due)[i]

\* "A read that started before a transfer:state patch would also roll that row
\* back, so patches are remembered [...] and overlaid on any list whose read
\* started earlier" (store.ts:28-32): a state that an event brought while a read
\* was under way, and that still holds, is not taken back by the list of that read.
PatchOutlivesRead ==
  [][\A r \in reads \ reads', i \in Ids :
       /\ r.done /\ view[i] # NoRow /\ view'[i] # NoRow
       /\ patches[i].ticket >= r.ticket /\ patches[i].state = rows[i].state
       => view'[i].state = rows[i].state]_mirrorVars
=============================================================================
