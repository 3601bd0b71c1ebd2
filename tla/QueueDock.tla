----------------------------- MODULE QueueDock -----------------------------
(***************************************************************************)
(* The queue dock on top of the mirrored list: selection, row and bulk     *)
(* buttons, the confirmation dialog every destructive action goes through, *)
(* and the views App switches between.  (QueueDock.tsx, confirmCancel.ts,  *)
(* PromptDialog.tsx, CommandPalette.tsx, App.tsx, and the confirmation     *)
(* part of store.ts.)                                                      *)
(*                                                                         *)
(* The user acts on the list as it is shown; the call reaches the backend  *)
(* later and finds the rows as they are by then.  The sort order is left   *)
(* open: what a Shift+click spans between its ends may be any rows.        *)
(***************************************************************************)
EXTENDS QueueMirror

VARIABLES
  selected, anchor,   \* rows selected in the dock; where a range starts (0: none)
  confirm,            \* the confirmation on screen
  suppressed,         \* warnings silenced for this run
  reply,              \* "Cancel selected" was answered; the selection goes
  viewMode,
  presses             \* what the user has done so far

dockVars == <<selected, anchor, confirm, suppressed, reply, viewMode, presses>>
vars == <<mirrorVars, dockVars>>

NoDialog == [op |-> "none", ids |-> {}]

-----------------------------------------------------------------------------

\* The dock mounts: it reads the list and the pause.
Launch ==
  /\ view = NoList /\ viewDue = {} /\ uiPaused = FALSE
  /\ reads = {[ticket |-> 1, done |-> FALSE, list |-> NoList, ver |-> 0]} /\ ticket = 1
  /\ hydrate = [at |-> "sent", on |-> FALSE, fresh |-> TRUE]

Settled ==
  /\ view = Window(rows) /\ viewDue = due /\ uiPaused = paused
  /\ reads = {} /\ ticket = 0
  /\ hydrate = [at |-> "done", on |-> FALSE, fresh |-> FALSE]

LateHeld(list) == {i \in HeldRows(list) : list[i].moved \/ list[i].state = "active"}

Init ==
  /\ scene \in Scenes /\ rows = scene.rows
  /\ due = {} /\ holding = [due |-> {}, late |-> LateHeld(rows)] /\ paused \in BOOLEAN /\ writes = 0
  /\ calls = {} /\ out = {} /\ wire = <<>>
  /\ timer = FALSE /\ viewVer = 0 /\ patches = [i \in Ids |-> NoPatch]
  /\ progress = [i \in Ids |-> FALSE]
  /\ IF scene.launch THEN Launch ELSE Settled
  /\ unheard = FALSE
  /\ selected = {} /\ anchor = 0 /\ confirm = NoDialog /\ suppressed = {} /\ reply = FALSE
  /\ viewMode = "browse" /\ presses = 0

\* The effects that follow a new list: selected rows that are gone are
\* dropped, and a flight view whose button disappears is left.
Effects ==
  /\ selected' = selected \cap Listed(view')
  /\ viewMode' = IF viewMode = "flight" /\ FlightAvailable(view) /\ ~FlightAvailable(view')
                 THEN "browse" ELSE viewMode

Mirror(A) == A /\ Effects /\ UNCHANGED <<anchor, confirm, suppressed, presses>>
Quietly(A) == Mirror(A) /\ reply' = reply

Send(op, ids, on) ==
  /\ Cardinality(calls) < MaxCalls
  /\ calls' = calls \cup {[op |-> op, ids |-> ids, on |-> on]}
  /\ UNCHANGED <<backVars, wire, readVars, listVars, progress, pauseVars, unheard>>

NoCall == UNCHANGED mirrorVars

Modal == confirm # NoDialog
Can(b) == b \in scene.buttons

-----------------------------------------------------------------------------
(* Selection.                                                              *)

SelectRow(i, key) ==
  /\ Can("select") /\ i \in Listed(view)
  /\ LET start == IF key = "ctrl" THEN selected ELSE {}
         range == key = "shift" /\ anchor \in Listed(view)
     IN IF range
        THEN /\ \E S \in SUBSET Listed(view) : {anchor, i} \subseteq S /\ selected' = S
             /\ anchor' = anchor
        ELSE /\ selected' = IF key = "ctrl" /\ i \in start THEN start \ {i} ELSE start \cup {i}
             /\ anchor' = i
  /\ NoCall /\ UNCHANGED <<confirm, suppressed, reply, viewMode>>

SelectAll ==
  /\ Can("select")
  /\ selected' \in {Listed(view), {}}      \* Ctrl+A; Escape
  /\ NoCall /\ UNCHANGED <<anchor, confirm, suppressed, reply, viewMode>>

\* The promise of "Cancel selected" resolves, whatever was selected since.
ReplyArrives ==
  /\ reply
  /\ reply' = FALSE /\ selected' = {}
  /\ NoCall /\ UNCHANGED <<anchor, confirm, suppressed, viewMode, presses>>

-----------------------------------------------------------------------------
(* What the buttons do; where each is to be found comes after.             *)

\* Mutant: only the list is asked, never the progress events.
HasDataByList(i) == view[i].moved

HasData(i) == progress[i] \/ view[i].moved

Silenceable == {"cancel", "cancelMany", "clearFailed", "clearDone", "overwrite"}

\* askConfirm: a silenced warning is answered on the spot.
AskConfirm(op, ids) ==
  IF op \in suppressed THEN Send(op, ids, FALSE) /\ confirm' = confirm
  ELSE NoCall /\ confirm' = [op |-> op, ids |-> ids]

Straight(op, ids, on) == Send(op, ids, on) /\ confirm' = confirm

Frame == UNCHANGED <<selected, anchor, suppressed, reply, viewMode>>

PauseRow(i) ==
  /\ Can("pause") /\ view[i].state \in {"active", "pending"}
  /\ Straight("pause", {i}, FALSE) /\ Frame

ResumeRow(i) ==
  /\ Can("resume") /\ view[i].state \in {"paused", "failed"}
  /\ Straight("resume", {i}, FALSE) /\ Frame

ConfirmCancel(i) ==
  /\ Can("cancel") /\ i \in Cancellable(view)
  /\ IF HasData(i) THEN AskConfirm("cancel", {i}) ELSE Straight("cancel", {i}, FALSE)
  /\ Frame

CancelSelected ==
  LET ids == selected \cap Cancellable(view) IN
  /\ Can("cancelMany") /\ ids # {}
  /\ IF \E i \in ids : HasData(i) THEN AskConfirm("cancelMany", ids)
     ELSE Straight("cancelMany", ids, FALSE)
  /\ Frame

\* From the palette it may replace the question on screen; it cannot be
\* silenced itself.
CancelQueued ==
  /\ Can("cancelQueued") /\ Waiting(view) # {}
  /\ confirm' = [op |-> "cancelQueued", ids |-> Waiting(view)]
  /\ NoCall /\ Frame

TogglePause ==
  /\ Can("setPaused")
  /\ Straight("setPaused", {}, ~uiPaused) /\ Frame

RetryAll ==
  /\ Can("retryFailed") /\ DockView(view).failed # {}
  /\ Straight("retryFailed", {}, FALSE) /\ Frame

ClearFailed ==
  /\ Can("clearFailed") /\ DockView(view).failed # {}
  /\ AskConfirm("clearFailed", InState(view, {"failed"})) /\ Frame

ClearDone ==
  /\ Can("clearDone")
  /\ IF InState(view, {"cancelled"}) # {} THEN AskConfirm("clearDone", {})
     ELSE Straight("clearDone", {}, FALSE)
  /\ Frame

ResolveAll(action) ==
  /\ Can("resolve") /\ HeldRows(view) # {}
  /\ IF action = "overwrite" THEN AskConfirm("overwrite", HeldRows(view))
     ELSE Straight(action, HeldRows(view), FALSE)
  /\ Frame

ResolveOne(i, action) ==
  /\ Can("resolve")
  /\ Straight(action, {i}, FALSE) /\ Frame

\* Mutant: every question has the box to tick.
AcceptConfirmSilencing(silence) ==
  /\ Modal
  /\ suppressed' = IF silence THEN suppressed \cup {confirm.op} ELSE suppressed
  /\ Send(confirm.op, confirm.ids, FALSE)
  /\ confirm' = NoDialog
  /\ UNCHANGED <<selected, anchor, reply, viewMode>>

\* PromptDialog: confirm, with the box ticked or not; or close.
AcceptConfirm(silence) ==
  /\ Modal
  /\ silence => confirm.op \in Silenceable
  /\ suppressed' = IF silence THEN suppressed \cup {confirm.op} ELSE suppressed
  /\ Send(confirm.op, confirm.ids, FALSE)
  /\ confirm' = NoDialog
  /\ UNCHANGED <<selected, anchor, reply, viewMode>>

CloseConfirm ==
  /\ Modal
  /\ confirm' = NoDialog
  /\ NoCall /\ UNCHANGED <<selected, anchor, suppressed, reply, viewMode>>

\* The view buttons; the deck refreshes the list as it mounts.
SetViewMode(m) ==
  /\ Can("view") /\ m # viewMode
  /\ m = "flight" => FlightAvailable(view)
  /\ viewMode' = m
  /\ IF m = "deck"
     THEN /\ RefreshTransfers
          /\ UNCHANGED <<backVars, calls, wire, timer, listVars, progress, pauseVars, unheard>>
     ELSE NoCall
  /\ UNCHANGED <<selected, anchor, confirm, suppressed, reply>>

-----------------------------------------------------------------------------

\* A click never lands on two rows, so only the reply needs care here.
ExecCall ==
  /\ Mirror(Exec)
  /\ reply' = (reply \/ \E c \in calls \ calls' : c.op = "cancelMany")

Backend ==
  \/ \E i \in Ids :
       \/ Quietly(Claim(i)) \/ Quietly(Progress(i)) \/ Quietly(Complete(i))
       \/ Quietly(Fail(i)) \/ Quietly(ScheduleRetry(i)) \/ Quietly(Restart(i))
       \/ Quietly(Requeue(i)) \/ Quietly(DeadlinePasses(i)) \/ Quietly(Sweep(i))
       \/ Quietly(Hold(i)) \/ Quietly(HoldFails(i)) \/ (scene.asks /\ Quietly(EnqueueAgain(i)))
       \/ \E ask \in {FALSE, scene.asks} : "enqueue" \in scene.buttons /\ Quietly(Enqueue(i, ask))
  \/ Quietly(Emit) \/ ExecCall

Frontend ==
  \/ Quietly(ReadRows) \/ Quietly(Land) \/ Quietly(ReadFails) \/ Quietly(TimerFires)
  \/ Quietly(OnChanged) \/ Quietly(OnState) \/ Quietly(OnProgress) \/ Quietly(OnPaused)
  \/ Quietly(QueryPause) \/ Quietly(HydratePause) \/ ReplyArrives

\* The bar above the list, and the one about conflicts below it.
Header ==
  \/ TogglePause \/ CancelSelected \/ CancelQueued \/ RetryAll \/ ClearFailed \/ ClearDone
  \/ \E action \in {"overwrite", "skip", "rename"} : ResolveAll(action)

\* A row, and the buttons it offers: a row that is held only asks.
RowButtons(i) ==
  \/ \E key \in {"", "ctrl", "shift"} : SelectRow(i, key)
  \/ view[i].held /\ \E action \in {"overwrite", "skip", "rename"} : ResolveOne(i, action)
  \/ ~view[i].held /\ (PauseRow(i) \/ ResumeRow(i) \/ ConfirmCancel(i))

OnListKey == SelectAll \/ CancelSelected

\* The palette opens over any dialog.
QueueCommands == TogglePause \/ CancelQueued

\* "Retry now" and "Skip" of a failed row, in the deck and in the timeline;
\* neither looks whether the row is held.
DeckButtons(i) ==
  viewMode = "deck" /\ i \in DeckView(view, viewDue).failed /\ (ResumeRow(i) \/ ConfirmCancel(i))

TimelineButtons(i) ==
  viewMode = "timeline" /\ i \in TimelineView(view, viewDue).failed
    /\ (ResumeRow(i) \/ ConfirmCancel(i))

ViewButtons == \E m \in {"browse", "flight", "deck", "timeline"} : SetViewMode(m)

Dialog == CloseConfirm \/ \E silence \in BOOLEAN : AcceptConfirm(silence)

Press ==
  \/ ~Modal /\ \/ Header \/ OnListKey \/ ViewButtons
               \/ \E i \in Ids : RowButtons(i) \/ DeckButtons(i) \/ TimelineButtons(i)
  \/ QueueCommands \/ Dialog

User == presses < scene.presses /\ presses' = presses + 1 /\ Press

Next == Backend \/ Frontend \/ User

\* What was emitted is delivered and what was asked is answered; neither the
\* user nor the engines have to do anything.
Fairness == /\ WF_vars(Quietly(Emit))
            /\ WF_vars(Quietly(ReadRows)) /\ WF_vars(Quietly(Land)) /\ WF_vars(Quietly(TimerFires))
            /\ WF_vars(Quietly(OnChanged) \/ Quietly(OnState) \/ Quietly(OnProgress)
                       \/ Quietly(OnPaused))

Spec == Init /\ [][Next]_vars /\ Fairness
-----------------------------------------------------------------------------
(* Properties.                                                             *)

\* Types of the dock's own state; the flight view is on screen only while its
\* button is, also when the list empties under it (App.tsx:183-195).
TypeOK ==
  /\ MirrorTypeOK
  /\ selected \subseteq Ids /\ anchor \in Ids \cup {0}
  /\ confirm \in [op : Op, ids : SUBSET Ids]
  /\ suppressed \subseteq Silenceable /\ reply \in BOOLEAN
  /\ viewMode \in {"browse", "flight", "deck", "timeline"}
  /\ viewMode = "flight" => FlightAvailable(view)

\* What a call would throw away, judged by the rows as they are now.
Doomed(c) ==
  {i \in Ids : rows[i].moved /\
     \/ c.op \in {"cancel", "cancelMany"} /\ i \in c.ids \cap Cancellable(rows)
     \/ c.op = "cancelQueued" /\ i \in Waiting(rows)
     \/ c.op = "clearFailed" /\ i \in c.ids /\ rows[i].state = "failed"
     \/ c.op = "clearDone" /\ rows[i].state = "cancelled"
     \/ c.op = "skip" /\ i \in c.ids \cap HeldRows(rows) \cap Cancellable(rows)}

\* What no click can ask about: Clear done takes cancelled rows the list does
\* not reach, and Skip takes it that a held row has nothing to lose.
OutOfSight(c) ==
  {i \in Ids : \/ c.op = "clearDone" /\ view[i] = NoRow
               \/ c.op = "skip" /\ i \in holding.late}

\* While the mirror is quiet and heard every write, no click destroys
\* recorded bytes unasked, unless that very warning was silenced: "nothing
\* transferred yet" is judged from progress events and the list, and both
\* must have caught up (confirmCancel.ts:13-23, QueueDock.tsx:502-525).  Skip
\* never asks, and need not for a row that was held before it ran: nobody may
\* start it meanwhile (app.go:1521-1523, transfers.go:130-137).
AsksFirst ==
  [][\A c \in calls' \ calls :
       Quiet /\ ~unheard /\ confirm = NoDialog /\ c.op \notin suppressed
         => Doomed(c) \subseteq OutOfSight(c)]_vars
=============================================================================
