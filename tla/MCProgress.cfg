SPECIFICATION ProgressSpec
CONSTANTS
  Parts <- AllParts
  small = small
  large = large
  r1 = r1
  r2 = r2
  w1 = w1
  w2 = w2
  jb = jb
  jp = jp
  m1 = m1
  c1 = c1
  WlReplicas = {r1, r2}
  WlNone = WlNone
  WlMaxFaults = 2
  Jobs = {small, large}
  ChargeBatches = {b1}
  Sweepers = {sweep}
  Handlers = {}
  Owed <- OwedAmounts
  Threshold = 2
  CcMaxAttempts = 1
  CcMaxFaults = 1
  CcNone = CcNone
  TopUps = {t1}
  Earlier = {t1}
  Refs = {r1}
  Operators = {admin}
  Recoverers = {sweep}
  AmountCents = 1
  MicrosPerCent = 2
  MaxUses = 1
  MaxMishaps = 1
  NoSlice = NoSlice
  RtRequests = {r1, r2}
  Streamed = {r1}
  RequestKey <- RequestKeys
  Offers = {o1}
  MaxSeqs = 2
  RtMaxAttempts = 2
  MaxTroubles = 1
  RtMaxReports = 1
  NoOffer = none
  CoCallers = {c1, c2}
  LeaseTTL = 2
  ResultTTL = 3
  MaxElections = 2
  MaxLosses = 1
  MaxEvictions = 1
  NoCaller = none
  Erasers = {s1}
  Purgers = {r1}
  Window = 0
  Retention = 1
  UrlLife = 0
  Grace = 1
  MaxCrashes = 0
  Hooks = {h1}
  Deliverers = {d1, d2}
  HookLimit = 1
  MaxAttempts = 2
  MaxStalls = 1
  MaxDeliveryCrashes = 1
  MaxRotations = 1
  Buyers = {b1}
  PeSuppliers = {}
  Askers = {a1}
  MaxObjects = 1
  MaxEvents = 2
  Stamps = {1, 2}
  RiskEvents <- NoWarnings
  RiskHandlers = {}
  NoPI = NoPI
  HbOffers = {o1}
  HbStatuses = {"active", "draining"}
  ClockStep = 1
  HbWindow = 2
  Refresh = 1
  MaxBatch = 2
  QueueDepth = 1
  MaxReports = 2
  HbHorizon = 2
  MaxHbFaults = 1
  DpWorkers = {w1, w2}
  DpJobs = {jb, jp}
  DpTasks = {2, 3}
  DpJobOf <- TaskJob
  Machine <- Machines
  Order <- PlacedOrders
  Matrix = m1
  Currency = "usd"
  AskWindow = 1
  MaxStreak = 1
  DpPins <- Pins
  Steady = {w1}
  NoOne = NoOne
  NoTask = NoTask
  RmChunks = 2
  RmMergers = {m1, m2}
  RmCopied = {}
  RmBody <- MergeBodies
  RmMaxFaults = 1
  RmUnmetered = unmetered
  RmNone = none
CHECK_DEADLOCK FALSE
PROPERTIES AllConclude
