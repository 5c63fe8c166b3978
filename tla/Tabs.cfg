SPECIFICATION Spec
CONSTANTS
  Keys = {1, 2, 3}
  Values <- MCValues
  Hidden <- MCHidden
  h1 = h1
  h2 = h2
  Hosts <- MCHosts
  Tabs = {"tasks", "projects", "transfers", "events"}
  MaxRows = 3
  MaxUpdates = 3
  MaxEvents = 2
SYMMETRY HostSymmetry
INVARIANTS
  MergeIsExact
  ListsViewKnowsTheRows
  SelectionIsTheUsers
  PanelActsOnSelection
PROPERTIES
  AbortsOnlyWhatWasConfirmed
CHECK_DEADLOCK FALSE
