SPECIFICATION PlatformSpec
CONSTANTS
  Parts <- AllParts
  WlReplicas = {r1, r2}
  WlNone = WlNone
  WlMaxFaults = 3
  Devices = {d1, d2}
  MaxCodes = 3
  MaxCreds = 3
  MaxFailed = 0
  Procs = {p1, p2}
  MaxReads = 4
  Logins = {e1, e2, e3}
  Clients = {c1}
  GuardCap = 2
  MaxFails = 1
  Lockout = 1
  LockoutMax = 2
  MaxChecks = 1
  Burst = 2
  Rate = 1
  AlHorizon = 3
  Erasers = {s1}
  Purgers = {r1}
  Window = 0
  Retention = 1
  UrlLife = 0
  Grace = 1
  MaxCrashes = 1
  Hooks = {h1, h2}
  Deliverers = {d1, d2}
  HookLimit = 1
  MaxAttempts = 2
  MaxStalls = 1
  MaxDeliveryCrashes = 1
  MaxRotations = 1
  Buyers = {b1}
  PeSuppliers = {s1}
  Askers = {a1, a2}
  MaxObjects = 2
  MaxEvents = 2
  Stamps = {1, 2}
  RiskEvents <- Warnings
  RiskHandlers = {h1, h2}
  NoPI = NoPI
  HbOffers = {o1}
  HbStatuses = {"active", "draining"}
  ClockStep = 1
  HbWindow = 2
  Refresh = 1
  MaxBatch = 2
  QueueDepth = 1
  MaxReports = 3
  HbHorizon = 3
  MaxHbFaults = 1
  ApProcs = {p1, p2}
  ApCells = {"a", "b"}
  ApProfile = "*"
  ApDocs <- Documents
  ApHistory <- Histories
  ApWrites <- PolicyWrites
  ApMaxEpochs = 3
  ApNone = none
  ArRequests = {1, 2, 3}
  ArLanes = {k}
  ArSizes = {1, 3}
  ArSpans = {0, 4}
  ArBudget = 3
  ArWindow = 1
  ArSafety = 1
  ArSlowest = 1
  ArHorizon = 2
  ArNone = ArNone
  PbWorkers = {w1}
  PbCommits = {1, 2}
  PbChain <- Chains
  PbLegacy <- LegacyIds
  PbDepth <- Depths
  PbTTL = 1
  PbKeep = 1
  PbBudget = 3
  PbHorizon = 2
  PbMaxHits = 2
  PbNone = PbNone
  OcCalls = {1, 2, 3, 4, 5, 6}
  OcProcs = {"p1"}
  OcControls = {"intake"}
  OcSuppliers = {"sup"}
  OcActors = {"ann", "bob"}
  OcRefs = {"t1", "t2"}
  OcKind <- AskKinds
  OcTarget <- AskTargets
  OcReason <- AskReasons
  OcRef <- AskRefs
  OcActor <- AskActors
  OcProc <- AskProcs
  OcAsked <- AskValues
  OcSealed = {}
  OcDocks <- DockBy
  OcTop = 2
  OcMaxDocks = 1
  OcNone = OcNone
  WrWorkers = {"u", "v"}
  WrSupplier <- WorkerSuppliers
  WrCells = {"x", "y"}
  WrLanes <- Lanes
  WrFloor <- Floors
  WrDeclarations <- Declarations
  WrCalls = {1, 2, 3}
  WrSender <- Senders
  WrAges = {0, 1}
  WrMaxAge = 1
  WrSkew = 0
  WrHorizon = 3
  WrNone = none
SYMMETRY AskerSymmetry
CHECK_DEADLOCK FALSE
INVARIANTS NoOverlapWithoutSessionLoss CredentialsHold AccessHolds ObjectsAccounted EventsKept PolicyHolds ArrivalsKept BeliefsEarned OperatorsHeard
PROPERTIES StepsPermitted
