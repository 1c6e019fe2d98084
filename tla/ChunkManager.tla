---------------------------- MODULE ChunkManager ----------------------------
(***************************************************************************)
(* ChunkManager::GetRequiredChunks (src/src/tsr/ChunkManager.cpp): which   *)
(* tiles of the grid of latitudes and longitudes cover a boundary.         *)
(*                                                                         *)
(* Two corners of the boundary's box are converted, and the tiles are      *)
(* enumerated by adding the tile size to the least latitude and longitude. *)
(* Meridians do not run along the grid north of the projection, and 0.1    *)
(* is no binary fraction: both are inputs here.  Angles are integers.      *)
(***************************************************************************)
EXTENDS MeshBoundary, Sequences

CONSTANTS
    TileSize,       \* tile_size
    Unit,           \* units of an angle per metre
    Convergences,   \* by how many units the latitude rises with every metre east
    Drifts          \* what rounding adds to tile_size: <<latitude, longitude>>

ASSUME TileAssumption ==
    /\ TileSize \in Nat \ {0, 1} /\ Unit \in Nat \ {0}
    /\ Convergences \subseteq Int
    /\ Drifts \subseteq (-1 .. 1) \X (-1 .. 1)

VARIABLES
    boundary,       \* input: the boundary
    convergence,    \* input: where on the zone it lies
    drift,          \* input: the rounding of this run
    lat, lng,       \* the loops' variables
    chunks,         \* the result so far
    listed          \* whether it has been returned

inputs == <<boundary, convergence, drift>>
list   == <<lat, lng, chunks, listed>>

\* TranslateUtmPointToWgs84(p, 30, true): the northing makes the latitude, which
\* comes first; to first order the convergence turns the axes.
ToWgs84(p, turn) == <<Unit * p[2] + turn * p[1], Unit * p[1] - turn * p[2]>>

\* GetChunkInfo: the tile of a position, by its row and its column.
GetChunkInfoRound(position) ==                          \* a bug: rounded, not floored
    <<(position[1] + TileSize \div 2) \div TileSize, (position[2] + TileSize \div 2) \div TileSize>>
GetChunkInfo(position) == <<position[1] \div TileSize, position[2] \div TileSize>>

Ends == {ToWgs84(GetUpperRightPoint(boundary), convergence),
         ToWgs84(GetLowerLeftPoint(boundary), convergence)}
MinLat == Min({e[1] : e \in Ends})
MaxLat == Max({e[1] : e \in Ends})
MinLng == Min({e[2] : e \in Ends})
MaxLng == Max({e[2] : e \in Ends})

ListInit ==
    /\ boundary \in Boundaries
    /\ convergence \in Convergences
    /\ drift \in Drifts
    /\ lat = MinLat /\ lng = MinLng
    /\ chunks = <<>>
    /\ listed = FALSE

\* The loops' conditions.
Reached(x, max) == x < max + TileSize

\* The body of the inner loop.
Push ==
    /\ ~listed
    /\ Reached(lat, MaxLat) /\ Reached(lng, MaxLng)
    /\ chunks' = Append(chunks, GetChunkInfo(<<lat, lng>>))
    /\ lng' = lng + TileSize + drift[2]
    /\ UNCHANGED <<lat, listed, inputs>>

\* The inner loop ends: the next row begins at the first longitude again.
NextRowOn ==                                            \* a bug: lng not reset
    /\ ~listed
    /\ Reached(lat, MaxLat) /\ ~Reached(lng, MaxLng)
    /\ lat' = lat + TileSize + drift[1]
    /\ UNCHANGED <<lng, chunks, listed, inputs>>
NextRow ==
    /\ ~listed
    /\ Reached(lat, MaxLat) /\ ~Reached(lng, MaxLng)
    /\ lat' = lat + TileSize + drift[1]
    /\ lng' = MinLng
    /\ UNCHANGED <<chunks, listed, inputs>>

ReturnList ==
    /\ ~listed
    /\ ~Reached(lat, MaxLat)
    /\ listed' = TRUE
    /\ UNCHANGED <<lat, lng, chunks, inputs>>

GetRequiredChunks == Push \/ NextRow \/ ReturnList

-----------------------------------------------------------------------------
\* How far the additions of one loop may have strayed, at most.
Strayed(first, last, d) == IF d = 0 THEN 0 ELSE (last - first) \div (TileSize - 1) + 2

\* Where the least latitude (or longitude) lies this close to a tile's edge, the
\* next additions may stray over it.
AtEdge(first, last, d) ==
    LET offset == first % TileSize
        slack  == Strayed(first, last, d) IN
    offset < slack \/ offset >= TileSize - slack
Rounded == AtEdge(MinLat, MaxLat, drift[1]) \/ AtEdge(MinLng, MaxLng, drift[2])

\* The loops have ended.
Enumerated == ~listed /\ ~Reached(lat, MaxLat)

Required == {chunks[i] : i \in DOMAIN chunks}

\* No tile is listed twice, and none between two listed ones is left out: the
\* additions of tile_size (ChunkManager.cpp:63-66) stay in step with the grid,
\* unless the first position lies within the rounding errors of a tile's edge.
InStepWithGrid ==
    Enumerated /\ ~Rounded =>
        /\ \A i, j \in DOMAIN chunks : i # j => chunks[i] # chunks[j]
        /\ Required = (MinLat \div TileSize .. Max({c[1] : c \in Required}))
                 \X (MinLng \div TileSize .. Max({c[2] : c \in Required}))

\* The bounded points of a grid of samples.
Every8th(first, last) == {8 * k : k \in (first \div 8) .. (last \div 8)}
Samples == {p \in Every8th(MinX(boundary), MaxX(boundary)) \X
                  Every8th(MinY(boundary), MaxY(boundary)) : IsBounded(boundary, p)}

\* How far a side of the box strays from its parallel, or from its meridian.
Sliver == LET turn == IF convergence < 0 THEN -convergence ELSE convergence IN
          <<turn * (MaxX(boundary) - MinX(boundary)), turn * (MaxY(boundary) - MinY(boundary))>>

\* What the enumeration does guarantee (ChunkManager.cpp:47-71): a bounded point
\* that no required tile holds lies beside one by no more than the sides of the box
\* stray between its corners, two of which alone are converted.
MissesOnlySliver ==
    Enumerated /\ ~Rounded =>
        \A p \in Samples : \E c \in Required : \A axis \in {1, 2} :
            LET x == ToWgs84(p, convergence)[axis] IN
            /\ x < (c[axis] + 1) * TileSize + Sliver[axis]
            /\ x >= c[axis] * TileSize - Sliver[axis]

\* Source and target lie in the part of the boundary that is safe to route in,
\* or the router cannot leave the one and reach the other (MeshBoundary.cpp:115,
\* Router.cpp:134), exactly if they are 80 metres apart.
EndsSafeFromDistance ==
    boundary.distance >= 80 <=>
        IsBoundedSafe(boundary, boundary.source) /\ IsBoundedSafe(boundary, boundary.target)
=============================================================================
