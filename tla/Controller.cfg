SPECIFICATION Spec
CONSTANTS
  h1 = h1
  h2 = h2
  Hosts = {h1, h2}
  Tasks = {t1}
  Callers = {ui}
  None = None
  Scenarios <- MCScenarios
  MaxAdds = 2
  MaxRemovals = 1
  MaxQueue = 2
  MaxErrors = 1
INVARIANTS
  BookkeepingAgrees
  CallbacksExclusive
  WorkerOutlivedByHost
  NoCircularWait
CHECK_DEADLOCK FALSE
