SPECIFICATION FairSpec
CONSTANTS
    p = p
    q = q
    c1 = c1
    c2 = c2
    Nobody = Nobody
    Procs = {p, q}
    Required <- SharedChunks
    TornReads = {"throws", "partial"}
    MaxCalls = 1
    MaxFailures = 1
    MaxCrashes = 1
INVARIANTS
    TypeOK
    ReturnsEveryChunk
    NoBodyOutlivesCall
    TornOnlyByCrash
PROPERTIES
    RecoversFromTornCache
CHECK_DEADLOCK FALSE
