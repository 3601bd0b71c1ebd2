---------------------------- MODULE MCQueueDock ----------------------------
(***************************************************************************)
(* The scenes of QueueDock that TLC runs: three rows at most, and each     *)
(* scene with the buttons whose interplay it is about.                     *)
(***************************************************************************)
EXTENDS QueueDock

Is(s, moved) == [state |-> s, moved |-> moved, held |-> FALSE, retry |-> 0]
Asked == [state |-> "pending", moved |-> FALSE, held |-> TRUE, retry |-> 0]
Just(row) == [i \in Ids |-> IF i = 1 THEN row ELSE NoRow]
Both(row, other) == [i \in Ids |-> IF i = 1 THEN row ELSE IF i = 2 THEN other ELSE NoRow]
All(row) == [i \in Ids |-> row]

Scene(list, buttons, k, n) ==
  [rows |-> list, launch |-> FALSE, buttons |-> buttons, presses |-> k, writes |-> n,
   fails |-> FALSE, asks |-> FALSE]

Running1 == Just(Is("active", FALSE))
Queue2 == Both(Is("pending", FALSE), Is("pending", FALSE))

MirrorScenes ==
  {\* the launch: events cross the first read of the list, toggles that of the pause
   [Scene(Just(Is("pending", FALSE)), {}, 0, 2) EXCEPT !.launch = TRUE],
   [Scene(Just(Is("pending", FALSE)), {"setPaused"}, 2, 0) EXCEPT !.launch = TRUE],
   \* rows live and arrive; reads are overtaken, or fail
   Scene(Running1, {}, 0, 3),
   Scene(Queue2, {}, 0, 2),
   \* more rows than a list holds: the window moves on
   Scene(All(Is("pending", FALSE)), {}, 0, 2),
   Scene([All(Is("failed", FALSE)) EXCEPT ![1] = Is("active", FALSE)], {}, 0, 1),
   Scene(Running1, {"enqueue"}, 0, 2),
   [Scene(Running1, {}, 0, 3) EXCEPT !.fails = TRUE],
   \* rows to be asked about; the hold comes late, on a row queued before, or never
   [Scene(NoList, {"enqueue"}, 0, 2) EXCEPT !.asks = TRUE, !.fails = TRUE],
   \* one row under its own buttons and under the pause of the queue
   Scene(Running1, {"pause", "resume"}, 2, 2),
   \* a button pressed on a row that is already gone
   Scene(Running1, {"pause", "clearDone"}, 2, 2),
   Scene(Just(Is("failed", TRUE)), {"resume", "clearFailed"}, 3, 1),
   Scene(Running1, {"setPaused"}, 2, 1)}

DockScenes ==
  {Scene(Running1, {"cancel"}, 2, 2),
   Scene(Just(Is("pending", FALSE)), {"cancel", "cancelQueued"}, 3, 2),
   Scene(Both(Is("paused", TRUE), Is("pending", FALSE)), {"select", "cancelMany"}, 4, 1),
   Scene(Just(Is("failed", TRUE)), {"retryFailed", "clearFailed"}, 3, 2),
   Scene(Just(Is("cancelled", TRUE)), {"clearDone", "enqueue"}, 3, 2),
   Scene(Running1, {"clearDone", "view"}, 2, 2),
   \* a failed row under the buttons of the deck and the timeline
   Scene(Just(Is("failed", TRUE)), {"view", "resume", "cancel"}, 3, 1),
   Scene(Both(Asked, Asked), {"resolve"}, 3, 1),
   [Scene(Running1, {"resolve"}, 2, 2) EXCEPT !.asks = TRUE],
   \* cancelled rows, one of them beyond the window
   Scene(Both(Is("cancelled", TRUE), Is("cancelled", TRUE)), {"clearDone"}, 3, 2),
   Scene(Both(Is("cancelled", TRUE), Is("completed", TRUE)), {"clearDone"}, 1, 1)}

AllScenes == MirrorScenes \cup DockScenes
=============================================================================
