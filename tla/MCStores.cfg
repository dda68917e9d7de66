SPECIFICATION StoresSpec
CONSTANTS
  JobIds = {j1, j2}
  Workers = {w1, w2}
  NoJob = NoJob
  NoWorker = NoWorker
  MaxAttempts = 2
  BaseBackoff = 1
  LeaseSeconds = 1
  FaultUntil = 1
  e1 = e1
  e2 = e2
  r1 = r1
  r2 = r2
  Procs = {p1, p2}
  Reports = {r1, r2}
  Evidence = {e1, e2}
  Files <- MCFiles
  NoFile <- MCNoFile
  EvidenceOf <- MCEvidenceOf
  EarlyOf <- MCEarlyOf
  KindOf <- MCKindOf
  NoReport = NoReport
  NoEvidence = NoEvidence
  MaxCrashes = 1
  MaxDeaths = 1
  People = {ann, bob, cy}
  Approvers = {ann, bob, cy}
  Specs = {training, pentest}
  Keys = {k1}
  Cadence = 1
  MaxTime = 2
  LastTime = 2
  MaxRows = 1
  NoAtt = NoAtt
  Callers = {c1, c2}
  Exhibits = {x2}
  MaxRequests = 1
  MaxReports = 1
  MaxSignoffs = 2
  NoRef = NoRef
  Writers = {s1, s2}
  Deeds = {approve, release}
  MaxEntries = 3
  Clerks = {g1, g2}
  Objects = {o1}
  Retention = 0
  MaxDay = 1
  NoCopy = NoCopy
  Editors = {d1, d2}
  Owners = {""}
  Cadences = {0, 1}
  LastDay = 2
  NoValue = NoValue
  Feeds = {f1, f2}
  Users = {u1}
  Roles = {"auditor", "analyst"}
  NoFeed = NoFeed
  Tenants = {"acme", "globex"}
  Subjects = {"admin", "analyst", "auditor", "mssp", "service", "readonly", "intern"}
  RoleOf <- MCRoleOf
  HomeOf <- MCHomeOf
  Leeway = 1
  MaxTick = 4
  Nobody = Nobody
  Limit = 2
  Window = 3
  MaxSecond = 6
  MaxChecks = 6
  Findings = {x1}
  Requests = {q1, q2}
  Expiries = {1}
  MaxEvents = 4
SYMMETRY CallersAlike
INVARIANTS
  LeaseIffRunning
  DoneMeansExecuted
  DeadMeansExhausted
  ReportIsBacked
  IndexedIsStored
  RunLinksResolve
  PassIsBacked
  SignoffsAlternate
  FreshIsRecent
  DutiesApart
  RateBound
  ClosedWasRetested
  AcceptanceLapses
PROPERTIES
  ImplementsArchive
  DecisionFinal
  EventsTakeEffectAtOnce
  RowsAreAppended
CHECK_DEADLOCK FALSE
