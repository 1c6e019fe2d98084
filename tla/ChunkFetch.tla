----------------------------- MODULE ChunkFetch -----------------------------
(***************************************************************************)
(* What becomes of each required chunk that a feature does not find        *)
(* cached: ChunkManager requests it, opens the response, rasterizes it     *)
(* where a raster is wanted of vectors, and warps it to UTM; the feature   *)
(* caches and reads the result.  On the way there are up to three          *)
(* temporary files, each with a GDAL dataset on it for a while, and every  *)
(* step may fail.                                                          *)
(*                                                                         *)
(* A dataset that is created, rather than opened, is written through to    *)
(* its file only when it is released.                                      *)
(*                                                                         *)
(* The chunks are followed one after the other.  InitializeTinFromBoundary *)
(* fetches them concurrently; that interleaving is TinPipeline's.          *)
(***************************************************************************)
EXTENDS ChunkManager

CONSTANT MaxFailures    \* bound: steps that fail whatever the data

ASSUME FailuresAssumption == MaxFailures \in Nat

\* Who fetches: InitializeTinFromBoundary and Initialize of the data features.
Features == {"tin", "terrain", "water", "paths"}

\* The files of a chunk: ChunkManager's temporary ones, and its cached dataset.
Roles == {"response", "raster", "warped", "cached"}

\* What an API answers: data; data with nothing in it (no bands, no layer or no
\* polygons); a page GDAL takes for no data, as curl reports no HTTP status.
Answers == {"data", "empty", "page"}

VARIABLES
    feature,    \* input: who fetches
    index,      \* the chunk its loop has come to
    step,       \* the step it has come to, or "threw", or "done"
    disk,       \* the files, by index and role: [of, answer, complete]
    open,       \* the datasets, by the file each was opened or created on
    curl,       \* curl handles that were not cleaned up
    misused,    \* whether a dataset was used or released that was not open
    got,        \* what the feature read of the chunks it is through with
    failures

fetched == <<feature, index, step, disk, open, curl, misused, got, failures>>
vars    == <<inputs, list, fetched>>

\* What a feature has of a chunk it went on without.
Nothing == [of |-> <<0, 0>>, answer |-> "page", complete |-> FALSE]

\* unique_path: the name of this chunk's file of a role is like no other.
FileAgain(role) == <<0, role>>                          \* a bug: one name per role
File(role) == <<index, role>>

With(f, key, value) == [k \in DOMAIN f \cup {key} |-> IF k = key THEN value ELSE f[k]]
Without(f, keys)    == [k \in DOMAIN f \ keys |-> f[k]]
Content(answer, complete) == [of |-> chunks[index], answer |-> answer, complete |-> complete]

Uses(file) == misused' = (misused \/ file \notin DOMAIN open)

\* The dataset that is warped, and the one the feature is given.
Source == IF feature = "water" THEN File("raster") ELSE File("response")
Result == IF File("cached") \in DOMAIN disk THEN File("cached") ELSE File("warped")

\* ---- How a step ends, and what comes next.
At(s) == listed /\ step = s
Goes(s) == step' = s /\ UNCHANGED <<index, got>>
Through(read) ==
    /\ got' = Append(got, read)
    /\ IF index = Len(chunks) THEN step' = "done" /\ UNCHANGED index
                              ELSE step' = "request" /\ index' = index + 1
Throws == Goes("threw")

\* An exception of ChunkManager: water alone goes on to the next chunk.
FetchThrowsStuck == IF feature = "water" THEN Goes("request") ELSE Throws  \* a bug
FetchThrows == IF feature = "water" THEN Through(Nothing) ELSE Throws

Fails == failures < MaxFailures /\ failures' = failures + 1
Unless(reason) == IF reason THEN UNCHANGED failures ELSE Fails
Same == UNCHANGED <<inputs, list, feature>>

-----------------------------------------------------------------------------
Init ==
    /\ ListInit
    /\ feature \in Features
    /\ index = 1
    /\ step = "request"
    /\ disk = [f \in {} |-> Nothing]
    /\ open = [f \in {} |-> Nothing]
    /\ curl = 0
    /\ misused = FALSE
    /\ got = <<>>
    /\ failures = 0

\* Terrain alone looks for a cached dataset; the file it reads later is that one.
UseCached ==
    /\ At("request") /\ feature = "terrain"
    /\ disk' = With(disk, File("cached"), Content("data", TRUE))
    /\ open' = With(open, File("cached"), Content("data", TRUE))
    /\ Goes("release")
    /\ Same /\ UNCHANGED <<curl, misused, failures>>

\* FetchDataFromAPI writes whatever comes.
Request ==
    /\ At("request")
    /\ \E answer \in Answers : disk' = With(disk, File("response"), Content(answer, TRUE))
    /\ Goes("load")
    /\ Same /\ UNCHANGED <<open, curl, misused, failures>>

\* A failed transfer, or a file that cannot be opened, is logged and its result
\* not looked at; the former leaves the curl handle behind.
RequestFails ==
    /\ At("request")
    /\ Fails
    /\ curl' \in {curl, curl + 1}
    /\ Goes("load")
    /\ Same /\ UNCHANGED <<disk, open, misused>>

\* curl_easy_init gives no handle.
RequestThrows ==
    /\ At("request")
    /\ Fails
    /\ FetchThrows
    /\ Same /\ UNCHANGED <<disk, open, curl, misused>>

Loadable == File("response") \in DOMAIN disk /\ disk[File("response")].answer # "page"

Load ==
    /\ At("load")
    /\ Loadable
    /\ open' = With(open, File("response"), disk[File("response")])
    /\ Goes(IF feature = "water" THEN "rasterize" ELSE "warp")
    /\ Same /\ UNCHANGED <<disk, curl, misused, failures>>

LoadFails ==
    /\ At("load")
    /\ Unless(~Loadable)
    /\ disk' = IF feature = "water" THEN Without(disk, {File("response")}) ELSE disk
    /\ FetchThrows
    /\ Same /\ UNCHANGED <<open, curl, misused>>

\* RasterizeDataset, and FetchAndRasterizeVectorChunk's clean-up after it.
Rasterize ==
    /\ At("rasterize")
    /\ open[File("response")].answer = "data"
    /\ Uses(File("response"))
    /\ open' = With(Without(open, {File("response")}), File("raster"), Content("data", FALSE))
    /\ disk' = With(Without(disk, {File("response")}), File("raster"), Content("data", FALSE))
    /\ Goes("warp")
    /\ Same /\ UNCHANGED <<curl, failures>>

RasterizeFails ==
    /\ At("rasterize")
    /\ Unless(open[File("response")].answer = "empty")
    /\ Uses(File("response"))
    /\ open' = Without(open, {File("response")})
    /\ disk' = Without(disk, {File("response")})
    /\ FetchThrows
    /\ Same /\ UNCHANGED curl

\* WarpRasterDatasetToUtm and WarpVectorDatasetToUtm.  The source is released;
\* FetchVectorChunk does not remove its file.  Neither a null dataset of Create nor
\* the errors of ChunkAndWarpImage are looked at (GDALHandler.cpp:207-250): the result
\* is taken for data whatever the warp did, and complete only says it is flushed.
Warpable == feature = "paths" \/ open[Source].answer = "data"

RemovesNothing(d) == d                                  \* a bug: remove left out
RemovesSource(d) == IF feature = "paths" THEN d ELSE Without(d, {Source})

WarpResponse ==                                         \* a bug: source not released
    /\ At("warp")
    /\ Warpable
    /\ Uses(Source)
    /\ open' = With(open, File("warped"), Content(open[Source].answer, FALSE))
    /\ disk' = With(RemovesSource(disk), File("warped"), Content(open[Source].answer, FALSE))
    /\ Goes(CASE feature = "tin" -> "unlink" [] feature = "paths" -> "release" [] OTHER -> "cache")
    /\ Same /\ UNCHANGED <<curl, failures>>
Warp ==
    /\ At("warp")
    /\ Warpable
    /\ Uses(Source)
    /\ LET result == [open[Source] EXCEPT !.complete = FALSE] IN
       /\ open' = With(Without(open, {Source}), File("warped"), result)
       /\ disk' = With(RemovesSource(disk), File("warped"), result)
    /\ Goes(CASE feature = "tin" -> "unlink" [] feature = "paths" -> "release" [] OTHER -> "cache")
    /\ Same /\ UNCHANGED <<curl, failures>>

WarpFails ==
    /\ At("warp")
    /\ Unless(~Warpable)
    /\ Uses(Source)
    /\ open' = Without(open, {Source})
    /\ disk' = RemovesSource(disk)
    /\ FetchThrows
    /\ Same /\ UNCHANGED curl

\* The terrain's api_node removes the file, whose dataset stays open.
Unlink ==
    /\ At("unlink")
    /\ disk' = Without(disk, {File("warped")})
    /\ Goes("extract")
    /\ Same /\ UNCHANGED <<open, curl, misused, failures>>

\* point_extractor_node reads the dataset itself and releases it in any case.
Extract ==
    /\ At("extract")
    /\ Uses(File("warped"))
    /\ open' = Without(open, {File("warped")})
    /\ \/ Through([open[File("warped")] EXCEPT !.complete = TRUE]) /\ UNCHANGED failures
       \/ Fails /\ Throws
    /\ Same /\ UNCHANGED <<disk, curl>>

\* CacheChunk of the dataset; an exception passes through the feature.
Cache ==
    /\ At("cache")
    /\ Uses(Result)
    /\ \/ Goes("release") /\ UNCHANGED failures
       \/ Fails /\ Throws
    /\ Same /\ UNCHANGED <<disk, open, curl>>

ReleaseUnflushed ==                                     \* a bug: closed after the read
    /\ At("release")
    /\ Uses(Result)
    /\ open' = Without(open, {Result})
    /\ Goes("read")
    /\ Same /\ UNCHANGED <<disk, curl, failures>>
Release ==
    /\ At("release")
    /\ Uses(Result)
    /\ open' = Without(open, {Result})
    /\ disk' = [disk EXCEPT ![Result].complete = TRUE]
    /\ Goes("read")
    /\ Same /\ UNCHANGED <<curl, failures>>

\* ExtractFeatureContours or LoadContoursFromJsonFile: by the file's name.
Read ==
    /\ At("read")
    /\ \/ Through(disk[Result]) /\ UNCHANGED failures
       \/ Fails /\ Throws
    /\ Same /\ UNCHANGED <<disk, open, curl, misused>>

FetchStep ==
    \/ UseCached \/ Request \/ RequestFails \/ RequestThrows
    \/ Load \/ LoadFails \/ Rasterize \/ RasterizeFails \/ Warp \/ WarpFails
    \/ Unlink \/ Extract \/ Cache \/ Release \/ Read

Next == (GetRequiredChunks /\ UNCHANGED fetched) \/ FetchStep

\* One thread, no wait: curl and GDAL return at last.
Spec == Init /\ [][Next]_vars /\ WF_vars(Next)

-----------------------------------------------------------------------------
AtRest == step \in {"request", "threw", "done"}
File_ == (1 .. Len(chunks)) \X Roles
Data  == [of : Required \cup {Nothing.of}, answer : Answers, complete : BOOLEAN]

\* Files and datasets are this list's, one of a role for each chunk.
TypeOK ==
    /\ lat \in Int /\ lng \in Int /\ listed \in BOOLEAN
    /\ chunks \in Seq(Int \X Int)
    /\ feature \in Features
    /\ step \in {"request", "load", "rasterize", "warp", "unlink", "extract", "cache",
                 "release", "read", "threw", "done"}
    /\ DOMAIN disk \subseteq File_ /\ \A f \in DOMAIN disk : disk[f] \in Data
    /\ DOMAIN open \subseteq File_ /\ \A f \in DOMAIN open : open[f] \in Data
    /\ curl \in 0 .. MaxFailures /\ misused \in BOOLEAN
    /\ got \in Seq(Data) /\ Len(got) \in {index - 1, index}
    /\ failures \in 0 .. MaxFailures

\* What a feature reads of a chunk is that chunk's, and was written through before
\* (BoolWaterFeature.cpp:68 "Close the dataset to enable the extractor to read"),
\* although a failed transfer is not noticed (APICaller.cpp:64-75): then the new
\* file name names no file, and nothing is read.
ReadsOwnChunk ==
    \A i \in DOMAIN got : got[i] # Nothing =>
        got[i].of = chunks[i] /\ got[i].complete /\ got[i].answer # "page"

\* No dataset is used or released but while it is open, and none is open between
\* two chunks or at the end, except, after an exception of CacheChunk, the one
\* that was to be cached (CEHTerrainFeature.cpp:138-141, BoolWaterFeature.cpp:62).
DatasetsReleasedOnce ==
    /\ ~misused
    /\ AtRest /\ DOMAIN open # {} =>
           /\ step = "threw" /\ feature \in {"terrain", "water"} /\ failures > 0
           /\ DOMAIN open = {File("warped")}

\* Of the temporary files only those stay that are the result of a chunk, or the
\* response to a request of paths or of one that failed: an intermediate raster
\* never does, and of a chunk of terrain that got through, nothing does
\* (ChunkManager.cpp:165-211, 270-278, DelaunayTriangulation.cpp:382).
IntermediatesRemoved ==
    AtRest => \A f \in DOMAIN disk :
        /\ f[2] # "raster"
        /\ f[2] = "response" => \/ feature = "paths"
                                \/ feature \in {"tin", "terrain"} /\ step = "threw" /\ f[1] = index
        /\ feature = "tin" => step = "threw"

\* The loop gets through all chunks or throws: every chunk has its turn.
FetchEnds == <>(step = "threw" \/ (step = "done" /\ Len(got) = Len(chunks)))
=============================================================================
