SPECIFICATION PaymentsSpec
CONSTANTS
  Parts <- AllParts
  small = small
  large = large
  Jobs = {small, large}
  ChargeBatches = {b1}
  Sweepers = {sweep}
  Handlers = {api}
  Owed <- OwedAmounts
  Threshold = 2
  CcMaxAttempts = 2
  CcMaxFaults = 1
  CcNone = CcNone
  FundBatches = {j1}
  Calls = {c1, c2}
  Grants = {0, 3}
  Npm = 2
  JobReserve = 2
  FundPremium = 1
  CallCeiling = 3
  EnvelopeCap = 5
  LeaseReserve = 1
  TopUp = 4
  MaxTopUps = 1
  TopUps = {t1, t2}
  Earlier = {t1}
  Refs = {r1}
  Operators = {admin}
  Recoverers = {sweep}
  AmountCents = 1
  MicrosPerCent = 2
  MaxUses = 1
  MaxMishaps = 1
  NoSlice = NoSlice
  CsJobs = {1, 2}
  CsDisputes = {d1, d2}
  CsNoTask = none
  CsNanos = 3
  CsAccepted <- AcceptedJobs
  ChargeMicros = 8
  CreditMicros = 5
  FeeMicros = 3
  SubsidyMicros = 1
SYMMETRY CallSymmetry
CHECK_DEADLOCK FALSE
INVARIANTS CollectedOnce FundsCover TopUpsReconcile ReserveReconciles
