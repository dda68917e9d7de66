SPECIFICATION PostureSpec
CONSTANTS
  c1 = c1
  c2 = c2
  JobIds <- MCJobIds
  Workers = {w1}
  NoJob = NoJob
  NoWorker = NoWorker
  MaxAttempts = 2
  BaseBackoff = 1
  LeaseSeconds = 1
  MaxTime = 4
  MaxCrashes = 0
  FaultUntil = 0
  Connectors = {c1, c2}
  Schedules = {2}
  Threads = {t1}
  MaxRun = 2
PROPERTIES
  DueConnectorGetsAJob
