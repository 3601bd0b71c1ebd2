----------------------------- MODULE MCSessions -----------------------------
(***************************************************************************)
(* The scenes of Sessions that TLC runs.                                   *)
(***************************************************************************)
EXTENDS Sessions

Scene(saved, up, keys, buttons, k) ==
  [sites |-> saved, up |-> up, keys |-> keys, buttons |-> buttons, presses |-> k,
   fails |-> FALSE, deaths |-> FALSE]

Kept(saved, buttons, k) == [Scene(saved, saved, {1}, buttons, k) EXCEPT !.deaths = TRUE]

AllScenes ==
  {\* two dials of one site, each with its prompt, and a server whose key changes
   Scene({1}, {}, {1, 2}, {"connect"}, 4),
   [Scene({1}, {}, {1}, {"connect"}, 3) EXCEPT !.fails = TRUE],
   \* a connection dies under its pings while others are dialled
   Kept({1}, {"connect", "disconnect"}, 3),
   \* a site is deleted, and its id given to another, while a dial is under way
   Scene({1}, {1}, {1}, {"connect", "remove", "save"}, 3),
   Scene({1}, {}, {1, 2}, {"connect", "remove", "save"}, 4),
   \* the tree across disconnects, deaths and changes
   Kept({1}, {"tree", "fs", "disconnect"}, 4),
   Kept({1}, {"tree", "connect"}, 2)}
=============================================================================
