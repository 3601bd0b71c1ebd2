SPECIFICATION Spec
CONSTANTS
  SiteIds = {1}
  Keys = {1, 2}
  Connects = {1, 2}
  Panes = {0, 1}
  Scenes <- AllScenes
  MaxLists = 2
  MaxWire = 3
CHECK_DEADLOCK FALSE
INVARIANTS
  TypeOK
  NoLeakedSession
  PurgedTreeStaysPurged
PROPERTIES
  WorkingSessionStays
  NoPinUnasked
