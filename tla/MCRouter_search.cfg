SPECIFICATION FairSpec
CONSTANTS
    Vertices <- MCVertices
    Faces <- MCFaces
    Terrains <- SearchTerrains
    Calculate <- MCCalculate
    SafeRegions <- SearchRegions
    Queries <- SearchQueries
    Inf = Inf
    Nil = Nil
    MaxCalls = 1
INVARIANTS
    TypeOK
    ParentsClosed
    ClosedAreBest
    ClosedCostsAreDistances
    FrontierComplete
PROPERTIES
    ClosedInCostOrder
    KeepsContract
CHECK_DEADLOCK FALSE
