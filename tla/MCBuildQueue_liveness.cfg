SPECIFICATION FairSpec
CONSTANTS
    NoToken = NoToken
    Batches = {b1, b2}
    Workers = {w1}
    Nonces <- MCNonces
    Lease = 2
    Backoff = 1
    MaxAttempts = 2
    MaxEnqueue = 2
    MaxFaults = 2
PROPERTIES EveryJobSettles
CHECK_DEADLOCK FALSE
