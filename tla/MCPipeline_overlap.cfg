SPECIFICATION Spec
CONSTANTS
    Nobody = Nobody
    Batches = {b1, b2}
    Workers = {w1, w2}
    OnAws = TRUE
    MaxAttempts = 2
    FaultyPublish = FALSE
    MaxVersion = 3
    MaxFaults = 0
PROPERTIES HeadNeverForgets
CHECK_DEADLOCK FALSE
