SPECIFICATION MCSpec
CONSTANTS
    Workers = {w1, w2}
    Callers = {}
    LocalWorkers = {w1}
    LocalCallers = {c1}
    Operators = {o1}
    Sites <- OwnSites
    Site <- OwnSite
    OnS3 = TRUE
    MaxVersion = 2
    MaxBuilds = 3
    MaxAt = 2
    MaxFaults = 1
INVARIANTS TypesOK HeadServable VersionsNotMixed
PROPERTIES ActivationsInOrder ImplementsCatalog
CHECK_DEADLOCK FALSE
