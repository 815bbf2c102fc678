SPECIFICATION Spec
CONSTANTS
    Chunks = {c1}
    Checked = {c1}
    Probes = {}
    Workers = {w1, w2, w3, w4}
    Results = {"good", "bad"}
    Nobody = Nobody
    MaxRetries = 0
    Reserved = 2
    Cap = 5
    MaxAttempt = 0
SYMMETRY Symmetry
INVARIANTS VotesSettle
CHECK_DEADLOCK FALSE
