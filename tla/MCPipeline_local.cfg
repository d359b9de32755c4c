SPECIFICATION FairSpec
CONSTANTS
    Nobody = Nobody
    Batches = {b1, b2, b3}
    Workers = {w1}
    OnAws = FALSE
    MaxAttempts = 2
    FaultyPublish = TRUE
    MaxVersion = 5
    MaxFaults = 2
INVARIANTS NoAcceptedBatchLost
PROPERTIES HeadNeverForgets AcceptedBecomesSearchable
CHECK_DEADLOCK FALSE
