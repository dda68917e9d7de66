SPECIFICATION ReportsSpec
CONSTANTS
  e1 = e1
  e2 = e2
  r1 = r1
  r2 = r2
  Procs = {p1}
  Reports = {r1, r2}
  Evidence = {e1, e2}
  Files <- MCFiles
  NoFile <- MCNoFile
  EvidenceOf <- MCEvidenceOf
  EarlyOf <- MCEarlyOf
  KindOf <- MCKindOf
  NoReport = NoReport
  NoEvidence = NoEvidence
  MaxDeaths = 1
INVARIANT SavedIsIndexed
