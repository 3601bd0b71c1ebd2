SPECIFICATION Spec
CONSTANTS
  Folders = {1, 4}
  Files = {2, 3}
  Size <- SizeColumn
  Date <- DateColumn
  Sources = {"local", "site"}
  Scenes <- AllScenes
  HistoryCap = 2
  MaxLoads = 2
CHECK_DEADLOCK FALSE
INVARIANTS
  ListingCatchesUp
  PrefIsTheUsers
PROPERTIES
  ActsOnListedRows
  UpLandsOnFolderLeft
  PaneSettles
