SPECIFICATION GuiSpec
CONSTANTS
  Hosts = {1, 2}
  NoHost = 0
  Projects = {1, 2}
  Scenarios <- MCTabScenario
INVARIANT SelectedHaveStatistics
CHECK_DEADLOCK FALSE
