SPECIFICATION Spec
CONSTANTS
    Chunks = {c1, c2}
    Checked = {c1}
    Probes = {c2}
    Workers = {w1, w2, w3}
    Results = {"good", "bad"}
    Nobody = Nobody
    MaxRetries = 0
    Reserved = 1
    Cap = 3
    MaxAttempt = 0
SYMMETRY Symmetry
INVARIANTS EndsDeliverable WithinBudget
CHECK_DEADLOCK FALSE
