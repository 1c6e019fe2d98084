SPECIFICATION Spec
CONSTANTS
    Vertices <- MCVertices
    Faces <- MCFaces
    Terrains <- SearchTerrains
    Calculate <- MCCalculate
    SafeRegions <- SearchRegions
    Queries <- SearchQueries
    Inf = Inf
    Nil = Nil
    MaxCalls = 1
INVARIANT
    NeverPopsEmptyQueue
CHECK_DEADLOCK FALSE
