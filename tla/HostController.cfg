SPECIFICATION FairSpec
CONSTANTS
  Producers = {api, scheduler}
  AsyncJobs = {a1, a2}
  BackJobs = {b1, b2}
  NoJob = NoJob
INVARIANTS
  EveryJobHasOnePlace
  JobSeesConnectedClient
  NoLostWakeup
  NoUseAfterDestroy
PROPERTIES
  ServedInOrder
  QueuedJobIsServed
  ShutdownTerminates
  ImplementsService
