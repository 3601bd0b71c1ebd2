---------------------------- MODULE MCAdmission ----------------------------
(***************************************************************************)
(* The scenes of Admission that TLC runs.                                  *)
(***************************************************************************)
EXTENDS Admission

CONSTANTS s1, s2

Caps(global, site, lanes) ==
  [global |-> global, def |-> site, own |-> [s \in Sites |-> 0],
   lanes |-> [d \in {"download", "upload"} |-> lanes]]

Row(site, dir, wide, dst) == [site |-> site, dir |-> dir, wide |-> wide, dst |-> dst]
Wide(dst) == Row(s1, "download", TRUE, dst)
Small(dst) == Row(s1, "download", FALSE, dst)

Scene(r1, r2, r3, caps) ==
  [row |-> [i \in Ids |-> CASE i = 1 -> r1 [] i = 2 -> r2 [] OTHER -> r3],
   budgets |-> {caps}, queued |-> Ids, stream |-> {}, endless |-> {}, burst |-> 9, limit |-> 9,
   changes |-> 0, faults |-> 0, withdraws |-> FALSE]

AllScenes ==
  {\* a large file behind and before small ones that keep coming, tried again
   [Scene(Small(1), Wide(2), Small(3), Caps(2, 2, 2)) EXCEPT !.stream = {3}],
   [Scene(Wide(1), Small(2), Small(3), Caps(3, 3, 3)) EXCEPT !.stream = {2, 3}, !.faults = 1],
   \* both directions and another site share what there is in all
   Scene(Wide(1), Row(s1, "upload", TRUE, 2), Row(s2, "download", TRUE, 3), Caps(3, 2, 3)),
   \* the settings change while rows run
   [Scene(Wide(1), Wide(2), Small(3), Caps(4, 4, 3)) EXCEPT
      !.budgets = {Caps(4, 4, 3), Caps(2, 3, 2), [Caps(3, 2, 4) EXCEPT !.own[s1] = 3]},
      !.changes = 2],
   \* the server grants a row two connections, or one
   [Scene(Wide(1), Wide(2), Wide(3), Caps(4, 4, 3)) EXCEPT !.burst = 2, !.faults = 1],
   [Scene(Wide(1), Wide(2), Small(3), Caps(3, 3, 3)) EXCEPT !.burst = 1],
   \* or so many in all, and fails
   [Scene(Wide(1), Wide(2), Small(3), Caps(4, 4, 2)) EXCEPT !.limit = 3, !.faults = 1],
   \* two rows of one file, which the user may withdraw
   [Scene(Wide(1), Small(1), Wide(3), Caps(3, 3, 2)) EXCEPT !.withdraws = TRUE]}

\* A transfer that takes hours, on fewer connections than were asked for.
LongScenes ==
  {[Scene(Wide(1), Wide(2), Wide(3), Caps(4, 4, 4)) EXCEPT
      !.burst = 2, !.endless = {1}, !.queued = {1}]}
=============================================================================
