SPECIFICATION MCSpec
CONSTANTS
  Groups <- MCGroups
  Amounts = {0, 1, 2}
  Apps = {"a"}
  MaxOthers = 1
  MaxDialogs = 2
  MaxJobs = 2
  Urls = {u1, u2}
  NoUrl = NoUrl
  MaxVisits = 4
  MaxPolls = 1
  MaxGivenUp = 2
INVARIANTS
  DeliveredAsShown
  DialogOutlivesItsAnswers
  AttachedAsShown
  WaitingIsDriven
PROPERTY
  UnreadOptionsSurvive
CHECK_DEADLOCK FALSE
