SPECIFICATION Spec
CONSTANTS
    Boundaries <- MCBoundaries
    Safe = 30
    TileSize <- MCTileSize
    Unit <- MCUnit
    Convergences <- MCConvergences
    Drifts <- MCDrifts
    MaxFailures = 1
INVARIANTS
    TypeOK
    InStepWithGrid
    MissesOnlySliver
    EndsSafeFromDistance
    ReadsOwnChunk
    DatasetsReleasedOnce
    IntermediatesRemoved
PROPERTY
    FetchEnds
CHECK_DEADLOCK FALSE
