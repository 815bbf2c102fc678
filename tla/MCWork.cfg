SPECIFICATION WorkSpec
CONSTANTS
  Parts <- Work
  h1 = h1
  h2 = h2
  w1 = w1
  w2 = w2
  jb = jb
  jp = jp
  m1 = m1
  c1 = c1
  c2 = c2
  DpWorkers = {w1, w2}
  DpJobs = {jb, jp}
  DpTasks = {1, 2, 3}
  DpJobOf <- TaskJob
  Machine <- Machines
  Order <- PlacedOrders
  Matrix = m1
  Currency = "usd"
  AskWindow = 1
  MaxStreak = 1
  DpPins <- Pins
  Steady = {}
  NoOne = NoOne
  NoTask = NoTask
  a0 = a0
  p1 = p1
  p3 = p3
  DyWorkers = {p1, p3}
  DySupplier <- PeerSuppliers
  Anchor = a0
  Builds = {1, 2}
  AnchorBuild = 1
  DyJobs = {"j"}
  PlacedV3 = {"j"}
  Reserved = 2
  CapRoom = 3
  Inserters = {"sweep", "verifier"}
  DyIds = {1, 2}
  DyTries = 1
  DyNobody = DyNobody
  RmChunks = 2
  RmMergers = {m1, m2}
  RmCopied = {0}
  RmBody <- MergeBodies
  RmMaxFaults = 1
  RmUnmetered = unmetered
  RmNone = none
  FeWorkers = {w1, w2}
  FeStrangers = {}
  FeCerts = {c1, c2}
  FeKinds = {"link", "collective"}
  FeLatencies = {1}
  FeMaxP95 = 1
  FeMinSamples = 2
  FeRoundLimit = 2
  FeSessionLife = 1
  FeFresh = 1
  FeRetention = 1
  FeAhead = 0
  FeMaxSessions = 2
  FeMaxReceipts = 2
  FeMaxEvals = 1
  FeHorizon = 2
  FeErased = FALSE
  FeNone = FeNone
  TpDegrees = {0, 1, 2, 3}
  TpDevices = {0, 2}
  TpNone = TpNone
  Works = {a}
  Chunks = {"c"}
  ChunkOf <- OneChunk
  Procs = {p1, p2}
  Contents = {"body", "rewritten"}
  Draws = {"selected", "unselected"}
  Decisions = {"pass", "fail"}
  UnavailableAfter = 2
  LockLoss = TRUE
  TaskLeaves = TRUE
  MaxFaults = 2
  LiOffers = {o1, o2}
  LiSlots = {0, 1}
  LiBuckets = 3
  LiWindow = 1
  Beats = {h1, h2}
  LiHorizon = 2
  MaxBeats = 4
CONSTRAINT FabricBegins
CHECK_DEADLOCK FALSE
INVARIANTS ClaimsWithinTerms PeersStand ArtifactKept PlacementOnEvidence IndexKept
PROPERTIES WorkSteps
