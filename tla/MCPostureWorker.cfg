SPECIFICATION PostureSpec
CONSTANTS
  c1 = c1
  c2 = c2
  JobIds <- MCJobIds
  Workers = {w1}
  NoJob = NoJob
  NoWorker = NoWorker
  MaxAttempts = 2
  BaseBackoff = 1
  LeaseSeconds = 1
  MaxTime = 3
  MaxCrashes = 1
  FaultUntil = 1
  Connectors = {c1, c2}
  Schedules = {2, 3}
  Threads = {t1}
  MaxRun = 1
INVARIANTS
  AttemptsBounded
PROPERTIES
  FollowsLifecycle
  JobSettles
  RetryHonoursBackoff
  DueConnectorGetsAJob
  DueConnectorIsServed
