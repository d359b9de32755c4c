SPECIFICATION MCSpec
CONSTANTS
    Workers = {w1}
    Callers = {}
    LocalWorkers = {w1}
    LocalCallers = {}
    Operators = {}
    Sites <- OwnSites
    Site <- OwnSite
    OnS3 = TRUE
    MaxVersion = 2
    MaxBuilds = 2
    MaxAt = 1
    MaxFaults = 1
INVARIANTS RetryUsesFreshVersion
CHECK_DEADLOCK FALSE
