SPECIFICATION GuiSpec
CONSTANTS
  Hosts = {1, 2}
  NoHost = 0
  Projects = {1, 2}
  Scenarios <- MCScenarios
INVARIANTS
  ShownIsSelected
  EventsFindTheirHost
  OwnPassword
  ChartsShowSelection
CHECK_DEADLOCK FALSE
PROPERTIES
  TabsCatchUp
  GuiThaws
