\* Two rows for one file, or a replaced source, on the linear engine.
CONSTANTS
  Rows = {1, 2}
  Size = 5
  Lanes = 2
  Scenes <- LinearScenes
SPECIFICATION Spec
CHECK_DEADLOCK FALSE
PROPERTIES
  PublishedIsTheSource
