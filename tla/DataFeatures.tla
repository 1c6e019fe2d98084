---------------------------- MODULE DataFeatures ----------------------------
(***************************************************************************)
(* The features that bring map data into the mesh, as SetupTimePreset      *)
(* (src/src/tsr/Presets.cpp) runs them: CEHTerrainFeature ("terrain"),     *)
(* BoolWaterFeature ("water") and PathFeature ("paths").  Each first adds  *)
(* the contours of every required chunk to the mesh, from the cache or     *)
(* from its API; then terrain and water tag the faces from the cached      *)
(* datasets.  What is cached outlives the program: a run may end by an     *)
(* exception or be killed at any step, and the user starts it again, with  *)
(* or without --disable-cache.                                             *)
(*                                                                         *)
(* A file, or what was read from one, is "whole" or "torn": incomplete.    *)
(***************************************************************************)
EXTENDS Naturals, Sequences

CONSTANTS
    Required,       \* GetRequiredChunks: the chunks of the boundary, in order
    Faces,          \* all_face_handles: the finite faces, in order
    ChunkOf,        \* the chunk of a face's circumcenter; Nil: cannot be converted
    Truth,          \* what the whole dataset of a feature says of a face
    Nil,            \* no chunk: nullptr, or an uninitialised ChunkInfo like no other
    TornReads,      \* what opening a torn dataset may do: "throws", "partial"
    MaxFailures,    \* bound: calls of an API or of the file system that fail
    MaxCrashes      \* bound: runs killed

Range(s) == {s[i] : i \in DOMAIN s}
Chunks   == Range(Required) \cup (Range([i \in DOMAIN Faces |-> ChunkOf[Faces[i]]]) \ {Nil})
Labels   == {"WATER", "LAND", "BOG", "URBAN", "NODATA"}
Tagging  == {"terrain", "water"}
Features == Tagging \cup {"paths"}

ASSUME InputAssumption ==
    /\ Required \in Seq(Range(Required)) /\ Required # <<>> /\ Nil \notin Range(Required)
    /\ Faces \in Seq(Range(Faces)) /\ Faces # <<>>
    /\ \A f \in Tagging : \A i \in DOMAIN Faces : Truth[f][Faces[i]] \in Labels
ASSUME TornReadsAssumption == TornReads # {} /\ TornReads \subseteq {"throws", "partial"}
ASSUME BoundsAssumption == MaxFailures \in Nat /\ MaxCrashes \in Nat

VARIABLES
    data,       \* the cached dataset of a chunk: "absent", "torn" or "whole"
    contour,    \* its cached contours
    status,     \* "off", "running", "threw" or "killed"
    enabled,    \* g_cache_enabled of this run
    at,         \* the call of SetupTimePreset that is running
    next,       \* the chunk, or the face, its loop has come to
    step,       \* where in the loop's body it is
    held,       \* how complete the dataset or the contours in hand are
    inserted,   \* the contours added to the mesh by each feature
    loaded,     \* dataset_chunk
    dataset,    \* dataset: "none" for nullptr
    tags,       \* terrain_map and waterMap
    failures, crashes

files  == <<data, contour>>
loop   == <<at, next, step, held, loaded, dataset>>
vars   == <<files, status, enabled, loop, inserted, tags, failures, crashes>>

\* SetupTimePreset from "initializing features" on.
PlanByFeature ==                                \* a bug: each feature set up in one go
    << <<"Initialize", "terrain">>, <<"Tag", "terrain">>, <<"Initialize", "water">>,
       <<"Tag", "water">>, <<"Initialize", "paths">> >>
Plan ==
    << <<"Initialize", "terrain">>, <<"Initialize", "water">>, <<"Initialize", "paths">>,
       <<"Tag", "terrain">>, <<"Tag", "water">> >>

Ready == status = "running" /\ at > Len(Plan)

At(call, f) == status = "running" /\ at <= Len(Plan) /\ Plan[at] = <<call, f>>

\* The loop goes on to the next of n elements, or SetupTimePreset to the next call.
AdvancePast(n) ==                               \* a bug: one element too many
    /\ step' = "look"
    /\ held' = "none"
    /\ IF next <= n
         THEN next' = next + 1 /\ UNCHANGED at
         ELSE next' = 1 /\ at' = at + 1
Advance(n) ==
    /\ step' = "look"
    /\ held' = "none"
    /\ IF next < n
         THEN next' = next + 1 /\ UNCHANGED at
         ELSE next' = 1 /\ at' = at + 1

SameDataset == UNCHANGED <<loaded, dataset>>

\* Tag begins: dataset_chunk is not initialised and may happen to be any chunk.
NewDataset ==
    IF at' # at THEN dataset' = "none" /\ loaded' \in Chunks \cup {Nil} ELSE SameDataset

Throws == status' = "threw" /\ UNCHANGED <<loop, inserted, tags>>
Goes(to) == step' = to /\ UNCHANGED <<status, at, next, loaded, dataset, inserted, tags>>

-----------------------------------------------------------------------------
Init ==
    /\ data = [f \in Tagging |-> [c \in Chunks |-> "absent"]]
    /\ contour = [f \in Features |-> [c \in Chunks |-> "absent"]]
    /\ status = "off"
    /\ enabled = TRUE
    /\ at = 1 /\ next = 1 /\ step = "look" /\ held = "none"
    /\ inserted = [f \in Features |-> [c \in Chunks |-> "nothing"]]
    /\ loaded = Nil /\ dataset = "none"
    /\ tags = [f \in Tagging |-> <<>>]
    /\ failures = 0 /\ crashes = 0

\* The program is started, again after an exception or a kill; its memory is new.
Start ==
    /\ status \in {"off", "threw", "killed"}
    /\ status' = "running"
    /\ enabled' \in BOOLEAN
    /\ at' = 1 /\ next' = 1 /\ step' = "look" /\ held' = "none"
    /\ inserted' = [f \in Features |-> [c \in Chunks |-> "nothing"]]
    /\ loaded' \in Chunks \cup {Nil} /\ dataset' = "none"
    /\ tags' = [f \in Tagging |-> <<>>]
    /\ UNCHANGED <<files, failures, crashes>>

Crash ==
    /\ status = "running" /\ ~Ready
    /\ crashes < MaxCrashes
    /\ crashes' = crashes + 1
    /\ status' = "killed"
    /\ UNCHANGED <<files, enabled, loop, inserted, tags, failures>>

-----------------------------------------------------------------------------
(* Initialize of the three features, for the next required chunk.           *)

chunk == Required[next]

\* IsAvailableInCache
HasContours(f) == enabled /\ contour[f][chunk] # "absent"

\* Only terrain looks for a cached dataset, and does so whatever g_cache_enabled is.
HasDatasetAlways(f) ==                          \* a bug: water does so too
    f # "paths" /\ data[f][chunk] # "absent"
HasDataset(f) == f = "terrain" /\ data[f][chunk] # "absent"

UseContours(f) ==
    /\ At("Initialize", f) /\ step = "look"
    /\ HasContours(f)
    /\ held' = contour[f][chunk]
    /\ Goes("insert")
    /\ UNCHANGED <<files, enabled, failures, crashes>>

UseDataset(f) ==
    /\ At("Initialize", f) /\ step = "look"
    /\ ~HasContours(f) /\ HasDataset(f)
    /\ \/ /\ data[f][chunk] = "whole" \/ "partial" \in TornReads
          /\ held' = data[f][chunk]
          /\ Goes("contours")
       \/ /\ data[f][chunk] = "torn" /\ "throws" \in TornReads
          /\ Throws
    /\ UNCHANGED <<files, enabled, failures, crashes>>

\* Paths arrive as GeoJSON: there is no dataset to cache.
Fetch(f) ==
    /\ At("Initialize", f) /\ step = "look"
    /\ ~HasContours(f) /\ ~HasDataset(f)
    /\ held' = "whole"
    /\ Goes(IF f = "paths" THEN "contours" ELSE "data")
    /\ UNCHANGED <<files, enabled, failures, crashes>>

\* Water goes on without the chunk; the other two end the program.
FetchFails(f) ==
    /\ At("Initialize", f) /\ step = "look"
    /\ ~HasContours(f) /\ ~HasDataset(f)
    /\ failures < MaxFailures
    /\ failures' = failures + 1
    /\ IF f = "water"
         THEN Advance(Len(Required)) /\ NewDataset /\ UNCHANGED <<status, inserted, tags>>
         ELSE Throws
    /\ UNCHANGED <<files, enabled, crashes>>

\* CacheChunk of a dataset: GDAL creates the file and fills it.
BeginData(f) ==
    /\ At("Initialize", f) /\ step = "data"
    /\ data' = [data EXCEPT ![f][chunk] = "torn"]
    /\ Goes("filling")
    /\ UNCHANGED <<contour, enabled, held, failures, crashes>>

EndData(f) ==
    /\ At("Initialize", f) /\ step = "filling"
    /\ data' = [data EXCEPT ![f][chunk] = "whole"]
    /\ Goes("contours")
    /\ UNCHANGED <<contour, enabled, held, failures, crashes>>

\* "GDAL copy failed": nobody removes the file.
DataFails(f) ==
    /\ At("Initialize", f) /\ step = "filling"
    /\ failures < MaxFailures
    /\ failures' = failures + 1
    /\ Throws
    /\ UNCHANGED <<files, enabled, crashes>>

\* The cache directory cannot be made: CacheChunk returns, the contours are used.
SkipData(f) ==
    /\ At("Initialize", f) /\ step = "data"
    /\ failures < MaxFailures
    /\ failures' = failures + 1
    /\ Goes("contours")
    /\ UNCHANGED <<files, enabled, held, crashes>>

\* The contours are extracted and WriteContoursToFile truncates their file.
BeginContours(f) ==
    /\ At("Initialize", f) /\ step = "contours"
    /\ contour' = [contour EXCEPT ![f][chunk] = "torn"]
    /\ Goes("writing")
    /\ UNCHANGED <<data, enabled, held, failures, crashes>>

EndContours(f) ==
    /\ At("Initialize", f) /\ step = "writing"
    /\ contour' = [contour EXCEPT ![f][chunk] = held]
    /\ Goes("insert")
    /\ UNCHANGED <<data, enabled, held, failures, crashes>>

\* The dataset cannot be read as an image, or the response as JSON.
ExtractFails(f) ==
    /\ At("Initialize", f) /\ step = "contours"
    /\ failures < MaxFailures
    /\ failures' = failures + 1
    /\ Throws
    /\ UNCHANGED <<files, enabled, crashes>>

\* The file cannot be opened: terrain and paths log it, water does not catch it.
ContoursFail(f) ==
    /\ At("Initialize", f) /\ step = "contours"
    /\ failures < MaxFailures
    /\ failures' = failures + 1
    /\ IF f = "water" THEN Throws ELSE Goes("insert") /\ UNCHANGED held
    /\ UNCHANGED <<files, enabled, crashes>>

\* AddContourConstraint for every contour of the chunk.
Insert(f) ==
    /\ At("Initialize", f) /\ step = "insert"
    /\ inserted' = [inserted EXCEPT ![f][chunk] = held]
    /\ Advance(Len(Required)) /\ NewDataset
    /\ UNCHANGED <<files, status, enabled, tags, failures, crashes>>

Initialize ==
    \E f \in Features :
        \/ UseContours(f) \/ Fetch(f) \/ Insert(f) \/ BeginContours(f) \/ EndContours(f)
        \/ BeginData(f) \/ EndData(f) \/ UseDataset(f)

InitializeFails ==
    \E f \in Features :
        FetchFails(f) \/ ExtractFails(f) \/ ContoursFail(f) \/ SkipData(f) \/ DataFails(f)

-----------------------------------------------------------------------------
(* Tag, for the next face.                                                  *)

face == Faces[next]
home == ChunkOf[face]

InDatasetStale(f) ==                            \* a bug: whatever chunk it is of
    dataset # "none"
InDataset(f) == home = loaded

Put(map, key, value) == [k \in DOMAIN map \cup {key} |-> IF k = key THEN value ELSE map[k]]
Label(f, value) ==
    /\ tags' = [tags EXCEPT ![f] = Put(@, face, value)]
    /\ Advance(Len(Faces))

\* The circumcenter cannot be converted to WGS84; or terrain's `continue`, which
\* passes over a face of the dataset loaded last like one of a chunk not cached.
PassOver(f) ==
    /\ At("Tag", f)
    /\ \/ home = Nil
       \/ home # Nil /\ f = "terrain" /\ (InDataset(f) \/ data[f][home] = "absent")
    /\ Advance(Len(Faces)) /\ NewDataset
    /\ UNCHANGED <<files, status, enabled, inserted, tags, failures, crashes>>

NoData(f) ==
    /\ At("Tag", f) /\ f = "water" /\ home # Nil
    /\ ~InDataset(f) /\ data[f][home] = "absent"
    /\ Label(f, "NODATA") /\ NewDataset
    /\ UNCHANGED <<files, status, enabled, inserted, failures, crashes>>

\* GetPixelColour has GDAL write one byte into each of three doubles that are zero.  It
\* becomes the least byte of the double, which as an integer is zero still: the colour
\* of any pixel reads as 0x000000, and that is URBAN.  Outside the raster it is white.
PixelLabel(f, label) == IF f = "terrain" /\ label # "NODATA" THEN "URBAN" ELSE label

\* A torn dataset may read as anything.
Reads(f, from) ==
    {PixelLabel(f, label) : label \in IF from = "whole" THEN {Truth[f][face]} ELSE Labels}

Load(f) ==
    /\ At("Tag", f) /\ home # Nil
    /\ ~InDataset(f) /\ data[f][home] # "absent"
    /\ \/ /\ data[f][home] = "whole" \/ "partial" \in TornReads
          /\ \E value \in Reads(f, data[f][home]) : Label(f, value)
          /\ IF at' # at THEN NewDataset ELSE loaded' = home /\ dataset' = data[f][home]
          /\ UNCHANGED <<status, inserted>>
       \/ /\ data[f][home] = "torn" /\ "throws" \in TornReads
          /\ Throws
    /\ UNCHANGED <<files, enabled, failures, crashes>>

\* In a dataset of another chunk the face would lie outside the raster.
Read(f) ==
    /\ At("Tag", f) /\ f = "water" /\ home # Nil
    /\ InDataset(f) /\ dataset # "none"
    /\ \E value \in IF loaded = home THEN Reads(f, dataset) ELSE {"NODATA"} : Label(f, value)
    /\ NewDataset
    /\ UNCHANGED <<files, status, enabled, inserted, failures, crashes>>

\* "water dataset empty": the uninitialised dataset_chunk was the face's.
Unlucky ==
    /\ At("Tag", "water") /\ home # Nil
    /\ InDataset("water") /\ dataset = "none"

NoDataset ==
    /\ Unlucky
    /\ Throws
    /\ UNCHANGED <<files, enabled, failures, crashes>>

Tag == NoDataset \/ \E f \in Tagging : PassOver(f) \/ NoData(f) \/ Load(f) \/ Read(f)

-----------------------------------------------------------------------------
Next == Start \/ Crash \/ Initialize \/ InitializeFails \/ Tag

Spec == Init /\ [][Next]_vars

\* A run goes on, and the user starts the program again until it gets through;
\* nothing is bound to fail.
FairSpec == Spec /\ WF_vars(Start) /\ WF_vars(Initialize \/ Tag)

\* BoolWaterFeature::Calculate: is the face taken for water?
WaterUnlessKnown(f) == f \in DOMAIN tags["water"] /\ tags["water"][f] # "LAND"  \* a bug
Water(f) == f \in DOMAIN tags["water"] => tags["water"][f] # "LAND"

-----------------------------------------------------------------------------
(* Properties.                                                              *)

Files == {"absent", "torn", "whole"}

TypeOK ==
    /\ data \in [Tagging -> [Chunks -> Files]]
    /\ contour \in [Features -> [Chunks -> Files]]
    /\ status \in {"off", "running", "threw", "killed"}
    /\ enabled \in BOOLEAN
    /\ at \in 1 .. Len(Plan) + 1
    /\ next \in 1 .. (IF at <= 3 THEN Len(Required) ELSE Len(Faces))
    /\ step \in {"look", "data", "filling", "contours", "writing", "insert"}
    /\ held \in {"none", "torn", "whole"}
    /\ inserted \in [Features -> [Chunks -> {"nothing", "torn", "whole"}]]
    /\ loaded \in Chunks \cup {Nil}
    /\ dataset \in {"none", "torn", "whole"}
    /\ \A f \in Tagging : DOMAIN tags[f] \subseteq Range(Faces) /\ Range(tags[f]) \subseteq Labels
    /\ failures \in 0 .. MaxFailures /\ crashes \in 0 .. MaxCrashes

\* Water is never taken for land, whatever could not be fetched, cached or read,
\* unless the cached dataset itself was cut short (BoolWaterFeature.cpp:53-59,
\* 127-132, 173-179, 189-195, 223-241).
WaterIsAvoided ==
    Ready => \A i \in DOMAIN Faces :
        LET f == Faces[i] IN
        Truth["water"][f] = "WATER" /\ (ChunkOf[f] # Nil => data["water"][ChunkOf[f]] # "torn")
            => Water(f)

\* A face that is tagged bears what is read of it in the dataset of its own chunk, never
\* NODATA for having been looked up in the one opened for the face before it
\* (BoolWaterFeature.cpp:127-140, CEHTerrainFeature.cpp:199-209).
TaggedFromOwnChunk ==
    Ready => \A f \in Tagging : \A g \in DOMAIN tags[f] :
        data[f][ChunkOf[g]] = "whole" => tags[f][g] = PixelLabel(f, Truth[f][g])

\* The mesh is not changed any more once a face has been tagged: the maps are
\* keyed by Face_handle, and an insertion would replace faces (Presets.cpp:81-93).
TagsFinalMesh ==
    [][status = "running" /\ inserted' # inserted => \A f \in Tagging : tags[f] = <<>>]_vars

\* The preset gets through in the end, unless every new run throws: over a torn
\* terrain dataset, which is never deleted; over a torn water dataset whose contours
\* an earlier run has cached, so that it is not fetched anew; or over the
\* uninitialised dataset_chunk (CEHTerrainFeature.cpp:123-126,
\* BoolWaterFeature.cpp:46, 101, 127, 138, 142-145).
Wedging(c) ==
    \/ data["terrain"][c] = "torn"
    \/ data["water"][c] = "torn" /\ contour["water"][c] # "absent"
ReadyOrWedged == <>Ready \/ <>[](\E c \in Chunks : Wedging(c)) \/ []<>Unlucky

\* "Tag each face with a terrain feature" (CEHTerrainFeature.cpp:226): the terrain of
\* a face that is tagged is the one its chunk shows there.
TagsItsTerrain ==
    Ready => \A g \in DOMAIN tags["terrain"] :
        data["terrain"][ChunkOf[g]] = "whole" => tags["terrain"][g] = Truth["terrain"][g]

\* "Tag each face with a terrain feature" (CEHTerrainFeature.cpp:226): every face
\* whose chunk is cached is tagged.
TagsEachFace ==
    Ready => \A i \in DOMAIN Faces :
        ChunkOf[Faces[i]] # Nil /\ data["terrain"][ChunkOf[Faces[i]]] # "absent"
            => Faces[i] \in DOMAIN tags["terrain"]
=============================================================================
