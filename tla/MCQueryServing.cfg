SPECIFICATION Spec
CONSTANTS
    Requests = {r1, r2}
    Releases = {s1, s2}
    NoRelease = none
    MaxVersion = 2
    MaxMoves <- Moves
SYMMETRY Symmetry
CHECK_DEADLOCK FALSE
INVARIANTS TypeOK PointerComplete HealthPairBuilt
PROPERTIES AnswersFresh RefusedOnlyWhenMoving
