SPECIFICATION MarketSpec
CONSTANTS
  Parts <- Trade
  r1 = r1
  r2 = r2
  r3 = r3
  RtRequests = {r1, r2, r3}
  Streamed = {r1, r3}
  RequestKey <- RequestKeys
  Offers = {o1}
  MaxSeqs = 2
  RtMaxAttempts = 2
  MaxTroubles = 1
  RtMaxReports = 1
  NoOffer = none
  CoCallers = {c1, c2}
  LeaseTTL = 2
  ResultTTL = 3
  MaxElections = 2
  MaxLosses = 1
  MaxEvictions = 1
  NoCaller = none
  h1 = h1
  h2 = h2
  l1 = l1
  l2 = l2
  Leases = {l1, l2}
  Hosts = {h1, h2}
  AskOf <- HostAsks
  Spread = 2
  Hour = 2
  Npu = 2
  BuyerCeiling = 4
  SlReplicas = 1
  Capacity = 1
  LeaseTerm = 2
  Silence = 0
  SlHorizon = 3
  NoHost = none
  JsCalls = {1, 2}
  JsKeys = {"k"}
  JsBodies <- Submissions
  JsFunds = 2
  JsEpochs = 2
  JsNone = JsNone
  QbModels = {"a", "b"}
  QbProcs = {p1, p2}
  QbReleases <- Releases
  ReceiptBuild <- Measured
  ReceiptUntil <- FreshUntil
  BoardUntil <- Boards
  QuoteTTL = 3
  FirstRelease <- BaseRelease
  QbHorizon = 2
  QbMaxQuotes = 1
  QbMaxJobs = 1
  PoClients = {"c1", "c2"}
  PoRoots <- Roots
  PoUpstream <- Upstream
  PoRounds <- Quotings
  PoPrices = {1}
  PoCeiling = 2
  PoEdited = edited
  PoNone = none
  PgSteps <- StepNames
  PgFile = "x"
  PgKind <- KindOf
  PgSecs <- SecsOf
  PgShapes <- Shapes
  SamplesPerUnit = 2
  MaxUnits = 16
  MaxTries = 2
  PgUnits = 2
  PgMaxAttempts = 3
  PgSizes = {0, 1, 2, 3}
  FileLimit = 2
  InspectLimit = 4
  ProbeLimit = 3
  PgMaxFiles = 4
  PrBuyers = {"b1", "b2"}
  PrProjects = {"p"}
  PrCompiles = {"k1"}
  PrCells <- CellSets
  PrManifests = {"m"}
  PrWorkers = {"w1", "w3"}
  PrAccount <- Owners
  PrRuns = {"r"}
  PrScores = {1, 2}
  PrBaseline = 2
  PrMaxEvidence = 2
  PrNone = none
  JeGrain = 20
  JeScale = 20
  JePer = 1
  JeRequests <- PricedRequests
  JeSchedules <- PricedSchedules
  JeReports = {0, 2, 3, 7}
  JeMaxLifts = 3
  JeNothing = none
CHECK_DEADLOCK FALSE
INVARIANTS EconomicsHold RealtimeKept ReuseIsVerified LeasesReconcile SubmittedOnce QuotesBind OrderKept GraphPlans ReceiptsStand
