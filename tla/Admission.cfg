\* The budget of connections, the lanes and the ceiling of a server.
CONSTANTS
  s1 = s1
  s2 = s2
  Ids = {1, 2, 3}
  Sites = {s1, s2}
  MaxAttempts = 2
  Scenes <- AllScenes
SPECIFICATION Spec
CHECK_DEADLOCK FALSE
INVARIANTS
  TypeOK
  CapsHold
PROPERTIES
  PlanKept
  EveryRowGetsItsTurn
