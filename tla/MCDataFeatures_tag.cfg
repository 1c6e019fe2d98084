SPECIFICATION Spec
CONSTANTS
    c1 = c1
    c2 = c2
    c3 = c3
    f1 = f1
    f2 = f2
    f3 = f3
    f4 = f4
    f5 = f5
    Nil = Nil
    Required <- MCRequired
    Faces <- MCFaces
    ChunkOf <- MCChunkOf
    Truth <- MCTruth
    TornReads = {"throws", "partial"}
    MaxFailures = 0
    MaxCrashes = 0
INVARIANT
    TagsEachFace
CHECK_DEADLOCK FALSE
