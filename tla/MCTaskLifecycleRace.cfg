SPECIFICATION FairSpec
CONSTANTS
    Chunks = {c1}
    Checked = {}
    Probes = {}
    Workers = {w1, w2}
    Results = {"good", "bad", "invalid"}
    Nobody = Nobody
    MaxRetries = 1
    Reserved = 1
    Cap = 3
    MaxAttempt = 1
INVARIANTS PaidOnce
PROPERTIES ClaimsReleased TerminalIsFrozen
CHECK_DEADLOCK FALSE
