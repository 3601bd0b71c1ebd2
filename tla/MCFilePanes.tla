---------------------------- MODULE MCFilePanes ----------------------------
(***************************************************************************)
(* The scenes of FilePanes that TLC runs.  The folders are 1 and 4, the    *)
(* files 2 and 3; size and date order the files differently.               *)
(***************************************************************************)
EXTENDS FilePanes

SizeColumn == [n \in {2, 3} |-> n]
DateColumn == [n \in 1..4 |-> IF n = 3 THEN 0 ELSE 1]

Small == {<<>>, <<2>>}
Tree == {<<>>, <<1>>, <<2>>, <<1, 3>>}
Deep == {<<>>, <<1>>, <<2>>, <<4>>, <<4, 1>>, <<4, 3>>}
Flat == {<<>>, <<1>>, <<2>>, <<3>>}

Scene(local, site, at, buttons, k) ==
  [disk |-> [src \in {"local", "site"} |-> IF src = "local" THEN local ELSE site],
   at |-> at, buttons |-> buttons, presses |-> k, sides |-> {0},
   changes |-> 0, lands |-> {}, paths |-> {<<>>, <<1>>}, fails |-> FALSE, launch |-> FALSE]

Locals == [s \in {0, 1} |-> "local"]
Mixed == [s \in {0, 1} |-> IF s = 0 THEN "local" ELSE "site"]

SiteLeft == [s \in {0, 1} |-> IF s = 0 THEN "site" ELSE "local"]

AllScenes ==
  {\* the launch crosses clicks on headings, and connects
   [Scene(Small, Small, Locals, {"sort", "switch"}, 2) EXCEPT !.launch = TRUE],
   \* a folder is visited, left and reloaded while transfers put files there
   [Scene(Tree, Small, Mixed, {"navigate", "up", "travel", "reload"}, 3) EXCEPT
      !.changes = 2, !.lands = {<<3>>, <<1, 2>>}],
   \* two panes on one folder
   [Scene(Tree, Small, Locals, {"navigate", "up"}, 2) EXCEPT
      !.changes = 1, !.lands = {<<1, 2>>}, !.sides = {0, 1}],
   \* rows marked, filtered and sorted while the list changes
   [Scene(Flat, Small, Mixed, {"select", "move", "filter", "sort"}, 4) EXCEPT
      !.changes = 1, !.lands = {<<4>>}],
   \* up under a filter
   [Scene(Deep, Small, Mixed, {"navigate", "filter", "up"}, 3) EXCEPT
      !.changes = 1, !.lands = {<<3>>}, !.paths = {<<>>, <<4>>, <<4, 1>>}],
   \* operations, and what the pane does before they are answered
   [Scene(Small, Tree, SiteLeft, {"delete", "menu", "navigate", "up"}, 4) EXCEPT !.fails = TRUE],
   [Scene(Tree, Small, Mixed, {"rename", "mkdir", "navigate", "up"}, 4) EXCEPT
      !.changes = 1, !.lands = {<<4>>}],
   [Scene(Small, Small, Locals, {"enqueue", "select", "switch"}, 3) EXCEPT !.sides = {0, 1}],
   \* the menu of a row, on a list that changes under it
   [Scene(Flat, Small, Mixed, {"menu", "enqueue", "rename", "mkdir", "reload", "sort", "select"}, 2)
      EXCEPT !.changes = 1, !.lands = {<<4>>}],
   \* sites come, fail and come back
   [Scene(Small, Small, Mixed, {"typed", "switch", "reconnect", "reload"}, 3) EXCEPT
      !.sides = {1}, !.fails = TRUE]}
=============================================================================
