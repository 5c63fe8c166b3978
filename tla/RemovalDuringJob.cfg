SPECIFICATION Spec
CONSTANTS
  h1 = h1
  h2 = h2
  Hosts = {h1}
  Tasks = {t1}
  Callers = {ui}
  None = None
  Scenarios <- MCAddAndRemove
  MaxAdds = 1
  MaxRemovals = 1
  MaxQueue = 2
  MaxErrors = 1
INVARIANT RemovalWaitsForJobs
