SPECIFICATION Spec
CONSTANTS
    Metre = 2
    Decade = 20
    Lo = 0
    Hi = 111
    Limit <- MCLimit
    Drawings <- MCDrawings
    Crossings <- MCCrossings
    Nil = Nil
    MaxCrossings = 1
    MaxRuns = 2
INVARIANTS
    TypeOK
    UndefinedOnlyAtHull
    StaysNearDrawn
    PathButWhereCrossed
PROPERTIES
    NeverTwiceTheLimit
    JoinsItsEnds
CHECK_DEADLOCK FALSE
