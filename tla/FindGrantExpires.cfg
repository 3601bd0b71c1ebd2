\* A row that runs for hours on fewer connections than it asked for.
CONSTANTS
  s1 = s1
  s2 = s2
  Ids = {1, 2, 3}
  Sites = {s1, s2}
  MaxAttempts = 2
  Scenes <- LongScenes
SPECIFICATION Spec
CHECK_DEADLOCK FALSE
PROPERTIES
  EveryRowGetsItsTurn
