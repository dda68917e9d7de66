SPECIFICATION IngestionSpec
CONSTANTS
  Jobs = {j1, j2, j3}
  MaxJobs = 1
  MaxFaults = 1
  MaxStarts = 1
  NoJob = NoJob
  Entries = {l1, l2}
  MaxCrashes = 2
  Accounts = {a1, a2, a3}
  PageCount <- MCPageCount
  MaxAttempts = 2
  MaxMoves = 3
  NoPage = NoPage
  Sheet <- MCSheet
  MapsTo <- MCMapsTo
  BatchSize = 1
  MaxIngests = 3
  NoTable = NoTable
  CisControls = {"C1", "C2"}
  SafeguardsOf <- MCSafeguards
  Related <- MCRelated
  CisNist <- MCCisNist
  HipaaNist <- MCHipaaNist
  Categories <- MCCategories
  HipaaSpecs = {"AS-1"}
  Size = 7
  Overlap = 3
  MinPiece = 2
  ChunkBatch = 2
  Lengths = {0, 2, 3, 7, 8, 9, 10, 11, 12, 13, 14, 20}
  MaxRuns = 2
  MaxSkips = 1
  Ingests = {i1, i2}
  Verdicts = {"quiet", "late", "snapshot"}
  StatusOf <- MCStatusOf
  ShareOf <- MCShareOf
  ViolationsOf <- MCViolationsOf
  WindowOf <- MCWindowOf
  PathOf <- MCPathOf
  Threshold = 50
  MaxBuilds = 3
  MaxSilent = 1
  NoVerdict = NoVerdict
  NoShare = NoShare
  NistOf <- MCNistOf
  HipaaOf <- MCHipaaOf
  Logs <- MCLogs
  Structured = {"vpn", "cisco_asa"}
  FloorOf <- MCFloorOf
  CeilingOf <- MCCeilingOf
  FalseFor <- MCFalseFor
  BenignFalseFor <- MCBenignFalseFor
  SeedOf <- MCSeedOf
  SigmaLevel <- MCSigmaLevel
  SigmaControls <- MCSigmaControls
  AttackPivot = TRUE
  LlmEnrich = TRUE
  RagDisabled = FALSE
  Guidance <- MCGuidance
  MaxRaised = 1
  ChunkOf <- MCChunkOf
  Corpora <- MCCorpora
  Near <- MCNear
  ControlOrder <- MCControlOrder
  SpecsOfNist <- MCSpecsOfNist
  SpecsOfFlag <- MCSpecsOfFlag
  SectionOf <- MCSectionOf
  NoSection = ""
  GraphNist <- MCGraphNist
  Scores = {30, 60, 80}
  TopK = 3
  TopKPerCtrl = 3
  TopKRerank = 4
  RerankSpare = 1
  CisGuaranteed = 2
  NistGuaranteed = 1
  HipaaGuaranteed = 1
  NistFloor = 40
  HipaaFloor = 68
  CoverageFloor = 50
  CrossThreshold = 75
INVARIANTS
  ActiveStaysListed
  OnlyRetriesAreLost
  SnapshotIsWhole
  LoadIsWhole
  NoTwins
  PiecesCover
  RegressionIsTold
  ConfirmedIsHigh
  BenignIsQuiet
  OrderDoesNotMatter
  FrameworksServed
PROPERTIES
  JobsSettle
CHECK_DEADLOCK FALSE
