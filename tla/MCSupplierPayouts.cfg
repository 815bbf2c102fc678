SPECIFICATION SpSpec
CONSTANTS
    e1 = e1
    e2 = e2
    s1 = s1
    s2 = s2
    SpNone = SpNone
    Entries = {e1, e2}
    Sweeps = {s1, s2}
    Liability <- OneAndThree
    Factor = 2
    Received = 2
    Disputes = 1
    CashEvents = 1
    Target = e2
    SpMaxFaults = 1
SYMMETRY SweepSymmetry
CONSTRAINT OverlapFirst
INVARIANTS PayoutsSettle
PROPERTIES BackedUnlessRejected
