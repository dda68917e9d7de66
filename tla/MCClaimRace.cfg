SPECIFICATION Spec
CONSTANTS
  JobIds = {j1}
  Workers = {w1, w2}
  NoJob = NoJob
  NoWorker = NoWorker
  MaxAttempts = 2
  BaseBackoff = 1
  LeaseSeconds = 1
  MaxTime = 3
  MaxCrashes = 0
  FaultUntil = 2
SYMMETRY Symmetry
PROPERTIES
  ClaimerHoldsLease
