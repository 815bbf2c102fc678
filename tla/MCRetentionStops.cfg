SPECIFICATION FeSpec
CONSTANTS
  FeWorkers = {w1, w2}
  FeStrangers = {}
  FeCerts = {c1, c2}
  FeKinds = {"link"}
  FeLatencies = {1}
  FeMaxP95 = 1
  FeMinSamples = 1
  FeRoundLimit = 1
  FeSessionLife = 1
  FeFresh = 1
  FeRetention = 1
  FeAhead = 0
  FeMaxSessions = 1
  FeMaxReceipts = 1
  FeMaxEvals = 1
  FeHorizon = 2
  FeErased = TRUE
  FeNone = FeNone
PROPERTIES DeletionQueueDrains
CHECK_DEADLOCK FALSE
