SPECIFICATION Spec
CONSTANTS
    NoToken = NoToken
    Batches = {b1}
    Workers = {w1, w2, w3}
    Nonces <- MCNonces
    Lease = 2
    Backoff = 1
    MaxAttempts = 2
    MaxEnqueue = 2
    MaxFaults = 1
INVARIANTS TypeOK OneEffectiveDelivery LeaseExclusive SettledForCause AttemptsAreFailures
PROPERTIES ImplementsLedger
CHECK_DEADLOCK FALSE
