SPECIFICATION FairSpec
CONSTANTS
  Scenarios <- MCScenarios
  CacheTicks = 1
  MaxMessages = 2
  MaxNotices = 2
INVARIANT
  FeedsInOrder
PROPERTIES
  MessagesAreShown
  LatestSettingIsShown
  FallsSilent
