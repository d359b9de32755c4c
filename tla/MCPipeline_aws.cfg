SPECIFICATION Spec
CONSTANTS
    Nobody = Nobody
    Batches = {b1, b2}
    Workers = {w1, w2}
    OnAws = TRUE
    MaxAttempts = 2
    FaultyPublish = TRUE
    MaxVersion = 4
    MaxFaults = 2
SYMMETRY MCSymmetry
INVARIANTS AckedWasServed
CHECK_DEADLOCK FALSE
