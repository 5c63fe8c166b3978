SPECIFICATION WoinccmdSpec
CONSTANTS
  MaxRequests = 5
  Failures = {"timeout", "send", "close"}
  Lines <- MCLines
  HostTexts <- MCHostTexts
  MaxPolls = 2
INVARIANTS
  TrueUntilFailure
  GoodPasswordAccepted
  ArgumentsAreReadAsDocumented
  WoinccmdTellsTheTruth
PROPERTIES
  EverythingEnds
