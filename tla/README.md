# Terrain router: TLA+ models, checks and proofs

The terrain router finds the cheapest walking route between two points. It fetches elevation
data for the region around them, triangulates it, inserts the outlines of water, vegetation and
paths into the mesh, and runs Dijkstra's algorithm over the mesh's vertices with a cost that is
composed of *features*. This directory holds TLA+ models of the parts of the program in which the
order of events, failures, or what an earlier run left behind decide whether the result is right,
the TLC runs that check them on small instances, and TLAPS proofs that hold for every instance.

Every definition that models code is listed under `map` in `PROJECT.json` with the lines it
translates.

## 1. Inventory

| component | state | operations | hard behaviours | what makes it correct |
|---|---|---|---|---|
| **Router** (`Router.cpp`) | the priority queue of a call; `TsrState` | `Route` | a lazy queue with stale nodes, ties, zero and infinite costs, two costs per edge, an unsafe region, reuse of one object | closed vertices are final and at their true distance; the route is optimal; every call ends, and in the right way |
| **TsrState** (`TsrState.cpp`) | `routes`, start and end vertex, warnings | `fetchRoute`, `AddWarning`, `ProcessWarnings`, `estimateTime` | a walk along parents that only ends at the start; warnings keyed by face | the walk meets only closed vertices and ends; a route's warnings are those of its faces |
| **TIN pipeline** (`DelaunayTriangulation.cpp`) | two lists of chunks, a TBB flow graph, a static counter, the master TIN | `InitializeTinFromBoundary`, `AddContourConstraint` | concurrent nodes, exceptions in a node, corrupted cache files, several processes, a second call | every required chunk is in the terrain, once and whole; no body outlives the call |
| **Chunk cache** (`ChunkCache.cpp`, `MeshIO.cpp`, `MapIO.cpp`) | files in `./tsrCache` | look up, read, write, delete | truncate-and-write in place, kills, sharing by processes, a text format of few digits | what is read is what was written; an incomplete file is noticed |
| **ChunkManager** | `g_cache_enabled`, temporary files and GDAL datasets | `GetRequiredChunks`, `FetchRasterChunk`, `FetchVectorChunk`, `FetchAndRasterizeVectorChunk`, `IsAvailableInCache` | a flag only some lookups consult; enumeration in doubles; seven steps that can fail, each with other files and datasets in hand | the chunks cover the boundary; what is read is the chunk asked for; nothing is released twice or left behind |
| **FeatureManager**, **Feature** | the dependency graph, the output feature | `AddDependency`, `SetOutputFeature`, `Calculate` | a cycle check over names, a recursion over objects | what is accepted can be evaluated; what is acyclic is accepted |
| **Data features** (`CEHTerrainFeature`, `BoolWaterFeature`, `PathFeature`) | the tags of faces, the dataset in hand | `Initialize`, `Tag`, `Calculate` | two caches per chunk, calls that fail half way, a kill, an uninitialised and a stale dataset | water is never taken for land; a tag comes from the face's own chunk; a rerun gets through |
| **Contours** (`AddContourConstraint`, `ImageIO.cpp`, `JSONParser.cpp`, `PathFeature`) | the constraints of the mesh, `PathFeature::paths` | load, split, insert, remember by end points | rounding, splits outside the hull, crossing constraints | a segment stays connected and in place; a path is recognised as one |
| **Cost features** (multiplier, gradient, speed, conditional, ...) | none | `Calculate` | infinite, zero and negative values | the cost is never negative, and infinite only where nobody gets through |
| **Presets** | none | four functions that wire features together | the order of `Initialize` and `Tag` | no insertion after a tag; the cost is what the comment says |
| **MeshBoundary** | a rotated rectangle and its box | `IsBounded`, `IsBoundedSafe`, two corners | a margin of fixed width | both ends are in the safe part |
| **Program** (`cmd.cpp`) | options | `main`, `tsr_run` | one run per process; exceptions of the setup end it, those of the router do not | |
| GDAL, OpenCV, network | files and datasets | adapters | a call fails, or succeeds with a page of text | |
| KML and GPX output, projections, logging | none | formatting, arithmetic | | |

**How they interact.** `tsr_run` makes a `MeshBoundary` of the two points, calls
`InitializeTinFromBoundary`, then a preset. The preset calls `Initialize` of each data feature,
which inserts contours into the TIN, then `Tag` of each, then `SetOutputFeature`; all of them ask
`ChunkManager` for the boundary's chunks and read and write the chunk cache. `Router::Route` then
calls `FeatureManager::Calculate` for every edge it looks at. All of it runs on the main thread,
but for the flow graph inside `InitializeTinFromBoundary`. What is shared beyond a process is the
cache directory, relative to the working directory.

The hazards, each at its line and with the properties that would catch it, are under `hazards` in
`PROJECT.json`.

## 2. Modules

    RouteSpec          what one call of Route promises, in one step
      ^ INSTANCE WITH
    RouterProps        properties of Router; KeepsContract == RouteSpec's Spec under the mapping
      | EXTENDS
    Router             the search and the walk back
    RouterProofs       EXTENDS RouterProps: invariants, distances, and that Router
                       implements RouteSpec
    MCRouter           EXTENDS RouterProps: mesh, costs and queries for TLC

    TinPipeline        the terrain from the cache and the flow graph   <- MCTinPipeline
    FeatureManager     the graph of features                           <- MCFeatureManager
    DataFeatures       Initialize and Tag against the cache            <- MCDataFeatures
    TinPipelineProofs, FeatureManagerProofs, DataFeaturesProofs        theorems about each

    MeshBoundary       the rectangle around the two ends
      ^ EXTENDS
    ChunkManager       which chunks cover it
      ^ EXTENDS
    ChunkFetch         what becomes of each of them                    <- MCChunkFetch
    ChunkFetchProofs   EXTENDS ChunkFetch

    Contours           from contours to constraints and to paths       <- MCContours
    ContoursProofs     EXTENDS Contours

    Induction          induction over the naturals, for the proofs about recursive functions

    CostFeatures       the graph of the time presets, as operators
      ^ EXTENDS
    Warnings           a search's costs and the warnings it shows      <- MCWarnings
    WarningsProofs     EXTENDS Warnings

Operators named in a comment as "a bug" (`DiscardRetry` before `Discard`, and so on) are used by
no action. Each is what a plausible slip would make of the definition below it; substituting
one has to make some property fail, which is how each property is known to say something about
the code.

### Router

One Router object over its lifetime. `routes` is `state.routes`, `queue` is `cost_queue`,
`cursor` and `route` belong to `fetchRoute`; `pc` says where the call is or how the last one
ended. `terrain`, `safe` and `valid` are inputs that do not change: what the features were tagged
with, the vertices for which `IsBoundedSafe` holds, and `tin.is_valid()`.

| action | code |
|---|---|
| `Route`, `RouteOutside` | `Router.cpp:62-78`: locating both points, and the exception when one is outside |
| `SkipBeaten`, `GiveUp`, `Close` | one turn of the loop: already beaten; infinite cost; closed and expanded (or the mesh found invalid) |
| `PopEmpty` | `top()` and `pop()` of an empty queue: undefined, hence aborting or hanging |
| `Found`, `StepBack`, `Return` | `fetchRoute`; `routes.at` may throw |

*Abstractions.* A queue node is determined by its vertex, face and parent, so the queue is a set;
where several nodes cost the same, any of them may be popped. Doubles are integers and `Inf`:
what the search needs of doubles is that they are totally ordered, that `Inf` absorbs sums, and
that adding a cost that is not negative does not make a sum smaller, all of which rounding to
nearest preserves. NaN is left out. The cost of an edge is a constant operator
`Calculate(terrain, face, u, v)`: different on the two faces of an edge and in the two directions.

### RouteSpec

What the headers promise, without a queue: the answer is *an* optimal route if one of finite cost
exists; "no safe path" only if none does; and nothing if the end is cut off from the start
(`Collapse`, the undefined behaviour). Distances are Bellman and Ford's table, independent
of the search it judges. `SafetySpec` is these steps; `Spec` adds that every call ends.

### TinPipeline

`disk` is the cache directory: a file is absent, torn (truncated, not yet complete) or whole, and
`writer` is the process that opened a torn file last. Each process runs `InitializeTinFromBoundary`:

| action | code (`DelaunayTriangulation.cpp`) |
|---|---|
| `LookUp`, `LookedUp` | the loop over `requiredChunks` with `IO::IsChunkCached` |
| `Load`, `Discard` | one turn of the loop over the cached tiles, and its handler, which deletes the file and hands the chunk to the other list |
| `Emit` | `input_node` with its static counter |
| `Prepare`, `Throw` | `api_node` to `simplify_node`, which touch only their message and so are one stage |
| `BeginWrite`, `EndWrite`, `SkipWrite` | `cache_node`, in two steps: the file is truncated, then filled; or it cannot be opened, which nobody notices |
| `BeginMerge`, `EndMerge` | `collect_node`, which is serial |
| `Finish` | `wait_for_all`, returning or rethrowing |
| `Crash`, `Rerun` | the process is killed; the user starts it again |

An exception cancels the graph: bodies that run go on to their end, no other starts, and
`wait_for_all` returns when none runs. `merged` says how much of a chunk the master TIN holds.

### FeatureManager

`HasCycleBelow` is `HasDependencyCycle` as a recursive function over (feature, names on the path);
`Evaluable` is what `Calculate`'s recursion over objects really does. `AddDependency` may come at
any time, before or after `SetOutputFeature`; `SetNoOutput` is its call with a null feature, whose
`feature_id` the check reads.

### DataFeatures

`SetupTimePreset` from the first `Initialize` to the last `Tag`, run again and again on the same
cache, with the cache enabled or not in each run. `at`, `next` and `step` are the program counter:
the call, the chunk or face its loop has come to, and where in the body it is. The actions before
the second rule are `Initialize`, whose branches differ by feature as they do in the code: all
prefer cached contours, only terrain looks for a cached dataset (whatever `g_cache_enabled` is),
and on a failed fetch water alone goes on. `ExtractFails` is an exception of the extraction, which stands
outside of every `try`. The actions after it are `Tag`: `PassOver`, `NoData`,
`Load`, `Read` and `NoDataset`. `dataset_chunk` is uninitialised when `Tag` begins, so it may
equal any chunk or none. What the dataset shows at a face is an input (`Truth`); what `Tag` makes of
it is `PixelLabel`: for terrain a byte is read into a double and counts as 0.

### MeshBoundary, ChunkManager, ChunkFetch

`MeshBoundary` is the constructor and the getters over lines whose length and differences are
multiples of 8, so that midpoint, radius and corners are whole; a rotated offset is kept multiplied
by the length, which makes the rotation by `sin` and `cos` exact. Doubles round where the model does
not; the properties hold with margins far above that.

`ChunkManager` is the two loops of `GetRequiredChunks`: `Push`, `NextRow`, `ReturnList`. Angles are
integers. `convergence` is the angle between a meridian and the grid's north, to first order, and
`drift` is what the rounding of `lat += tile_size` adds in each turn: both are inputs.

`ChunkFetch` follows the chunks of one feature from the request to the read:

| action | code |
|---|---|
| `UseCached` | terrain's lookup of a cached dataset |
| `Request`, `RequestFails`, `RequestThrows` | `FetchDataFromAPI`, whose result nobody looks at |
| `Load`, `LoadFails` | `LoadGdalDatasetFromFile`, `LoadVectorGdalDatasetFromFile` |
| `Rasterize`, `RasterizeFails` | `RasterizeDataset` and the clean-up of `FetchAndRasterizeVectorChunk` |
| `Warp`, `WarpFails` | `WarpRasterDatasetToUtm`, `WarpVectorDatasetToUtm` and the clean-up |
| `Unlink`, `Extract` | `api_node` and `point_extractor_node` of the TIN pipeline |
| `Cache`, `Release`, `Read` | `Initialize` of the data features |

`disk` and `open` are the files and the datasets, keyed by chunk and role; a dataset that was created
is `complete` on disk once it is released; that is all it says, since neither a null result of `Create` nor
the errors of `ChunkAndWarpImage` are looked at (`GDALHandler.cpp:207-250`), and the models take what a
warp leaves for data. The TIN pipeline fetches its chunks concurrently; their
bodies share none of this, so they are followed one after the other here, and their interleaving is
`TinPipeline`'s.

### Contours

One straight line of the mesh that runs north, with positions in half metres. `drawn` is what the
services show along it in two chunks; `Load` takes a chunk's contours from the cache or from the
service (and caches them), `AddContourConstraint` splits and inserts one, `Cross` is a constraint
elsewhere in the mesh that crosses the line. `SixDigits` is what `operator<<` leaves of a northing,
`Rounded` is `std::round`. `Undefined` is `splitPoints[0]` of an empty vector. Heights are left out.

### CostFeatures, Warnings

`CostFeatures` has an operator for the `Calculate` of each feature, which returns a value and the
warnings added on the way, and joins them as the three time presets do. Doubles are fractions, so
that comparisons and the polynomial are exact.

`Warnings` closes vertices in any order a queue may give, calculates the edges around them, and keeps
one warning for each face. As in `Router`, the safe vertices and `tin.is_valid()` are part of the world:
edges to unsafe corners are not calculated, and `Invalid` is the exception after a vertex has been closed. `Found` is
`writeSuccessStateToKML` with `ProcessWarnings`, `Fail` is `writeFailureStateToKML`. `raised` and `calculated` are history, for the properties. That `Warnings`
allows more orders than `Router` makes its invariants stronger.

### Outside the repository

CGAL's `operator>>` and GDAL's `open` are external. What either makes of a file that was cut short
is the parameter `TornReads`: an exception, or an object that holds part of the data. They are
assumed not to kill the process. That CGAL may yield a partial triangulation without throwing is
an assumption from its interface (a stream in a failed state, not an exception). Opening a cached file
that exists for writing truncates it at once. That a dataset opened by `Create` or `GDALRasterize` is
written through when it is released is GDAL's contract; that a page of text is no raster and no OSM or
JSON file is assumed. Where two constraints cross, CGAL adds a vertex (`Cross`).

## 3. Runs

Deadlock checking is off in all of them: a call that has ended, a terrain that is done and a
feature graph that has crashed may stop.

| run | checks | result |
|---|---|---|
| `router_search` | `TypeOK`, `ParentsClosed`, `ClosedAreBest`, `ClosedCostsAreDistances`, `FrontierComplete`, `ClosedInCostOrder`, `KeepsContract` | pass: one call returns an optimal route or ends as `RouteSpec` allows, and always ends |
| `router_cutoff` | `NeverPopsEmptyQueue` | **violated** where the safe region cuts off the end |
| `tin_shared` | `TypeOK`, `ReturnsEveryChunk`, `NoBodyOutlivesCall`, `TornOnlyByCrash`, `RecoversFromTornCache` | pass, for two processes in one directory |
| `features_graph` | `TypeOK`, `AcceptedOutputsReturn`, `OverflowsOnlyIfChanged`, `RefusesOnlyCycles` | pass |
| `data_setup` | `TypeOK`, `WaterIsAvoided`, `TaggedFromOwnChunk`, `TagsFinalMesh`, `ReadyOrWedged` | pass |
| `data_tag` | `TagsEachFace` | **violated** by two neighbouring faces in one chunk |
| `data_colour` | `TagsItsTerrain` | **violated** by any terrain but urban |
| `chunks` | `TypeOK`, `InStepWithGrid`, `MissesOnlySliver`, `EndsSafeFromDistance`, `ReadsOwnChunk`, `DatasetsReleasedOnce`, `IntermediatesRemoved`, `FetchEnds` | pass |
| `contours` | `TypeOK`, `NeverTwiceTheLimit`, `JoinsItsEnds`, `UndefinedOnlyAtHull`, `StaysNearDrawn`, `PathButWhereCrossed` | pass |
| `contours_cache` | `CachedAsFetched` | **violated** by the first cached outline |
| `costs` | `TypeOK`, `InfiniteWhereNoSpeed`, `PathNeverSlower`, `ImpassableIsWarned`, `ShowsGravest` | pass |
| `cost_climb` | `SolvesPolynomial` | **violated** by any slope that can be passed |

What these say that is not obvious from their names:

- `MissesOnlySliver`: only two of the box's corners are converted, so away from the central meridian
  (of zone 30, 3 degrees west) a bounded point may lie in no required chunk, though the list is there "to
  cover an area" (`ChunkManager.hpp:55`), as the last of the lines of `chunks` does; but then it lies beside a
  required one, on whichever side, by no more than the box's sides stray from their parallel or meridian, some 90 m for a
  box of 5 km at one degree of convergence.
- `EndsSafeFromDistance`: the safe part keeps 30 m from each side, and the rectangle reaches 3/8 of the
  distance beyond each end, so ends less than 80 m apart are outside the safe part, and the router
  cannot step on the end.
- `ReadsOwnChunk`: a transfer that failed goes unnoticed, but then the file of the new unique name
  does not exist, and the next step throws.
- `UndefinedOnlyAtHull`: an element of an empty vector is read only for a segment that ends within half a
  metre of the hull along its line, in the plane within 0.71 m, as both coordinates are rounded.
- `PathButWhereCrossed`: `PathFeature` remembers pieces as they were inserted; one that another constraint
  crosses is halved in the mesh, and neither half is recognised.
- `InfiniteWhereNoSpeed`: relative to the speeds the code computes. With the coefficients it declares, more
  slopes would have no speed (see section 4); the property says where a zero leads, not which slopes have one.
- `PathNeverSlower`: also where the ground or the water off the path has no speed at all.
- `ImpassableIsWarned`: the face's one warning is overwritten many times, yet never by a lesser one.

**Bounds, and why they are enough.**

- `router_search` has six vertices and five triangles around an inner vertex, the least mesh with
  an inner vertex, boundary edges of one face and inner edges of two, and several routes between
  two corners. All 3^5 ways to weigh the faces with 0, 2 or `Inf` occur, and climbing costs one
  more, so an edge costs 0 to 3 or `Inf`, differs by face and by direction, and ties abound. The three
  safe regions are everything, one that cuts the end off in part and one in which the start may be
  unsafe. Queries include start = end and points outside the mesh. `MaxCalls = 1`: `cmd.cpp` makes
  one call per Router.
- `tin_shared` has two processes that need the same two chunks in opposite orders, one exception
  and one kill. Two chunks are the least with one body running while another throws; two
  processes the least with one reading, deleting or truncating what the other writes. One kill is enough
  to leave a torn file; it may hit a process of which the other depends in either way. Both
  values of `TornReads` are admitted.
- `features_graph` has three features and three names, shared or not, in all graphs (with loops):
  the least with a diamond's shared dependency below two branches, a cycle beyond the output and
  two features of one name. Features and names are interchangeable, hence the symmetry.
- `data_setup` has two required chunks and five faces: two neighbours in one chunk, one in another,
  one whose circumcenter lies in a chunk nobody required, and one whose circumcenter cannot be
  converted. One failing call and one kill may come at any step of any run; runs repeat until one gets
  through.
- `chunks` has six lines: the longest at right angles to another, one at 3:4, one of length 0, one
  short of 80 m, one whose box begins on an edge of the tiles, and one whose box the convergence turns
  so that a corner that is not converted comes to lie above the last row of tiles. Tiles are 128 m, so that a box takes
  one to four in each direction; the convergence is one in 32 either way or none, and drift one unit
  either way or none. One step may fail, of any chunk; three answers may come to each request.
- `contours` has the limits of the program (15 m and 22 m) and twelve ways: below the limit, just under
  twice and over three times, of several segments, there and back, doubling back over itself, over the
  hull, onto it, and broken ones; in one chunk or in two, with and without outlines of ground and water on the same line. One
  constraint crosses, within a piece or at its end. Two runs, for what comes from the cache.
- `costs` has a strip of three faces, so that faces share edges and vertices; five reliefs, in which
  some slope is impassable and some is not; water, ground that bears and ground that does not, no data
  and no tag; paths over any of it; an unsafe vertex in the middle of the strip; an invalid mesh; and all
  three presets: 1350 worlds, in every order of closing.

**Fairness.** `Router`'s loop has no wait and no blocking call: weak fairness of `Pop` and of
`Fetch`. In `TinPipeline`, the main thread (`Main`) and every body that may run (`Body`) go on, as
TBB's scheduler guarantees for a graph without cycles and with unlimited queues; `Rerun` is fair
because the question is whether *running the program again* helps. `DataFeatures` is one thread
(`Initialize \/ Tag`) and the user (`Start`). `ChunkFetch` is one thread in which curl and GDAL return
at last: weak fairness of `Next`. Exceptions, failed calls and kills are never forced,
and bounded: with unboundedly many failures no rerun needs to succeed.

## 4. What the checks found

1. If the end is cut off and no queued face is impassable, the loop pops an empty queue instead
   of reporting "Could not find safe path" (`Router.cpp:80`).
2. Terrain's `Tag` passes over every face that lies in the same chunk as the one before it
   (`CEHTerrainFeature.cpp:199`).
3. Terrain's colours are read as bytes into doubles and count as 0, so that what is tagged is tagged
   urban (`CEHTerrainFeature.cpp:89`).
4. Cached contours have six digits: northings are rounded to 10 m (`MeshIO.cpp:115`). A second run on
   the same cache has other constraints and other paths than the first.
5. The speed on a slope leaves the coefficients out (`GradientSpeedFeature.cpp:17`): climbing is faster
   than level ground, and only a descent of 45 degrees or more is impassable. With the coefficients of
   `GradientSpeedFeature.hpp:18-21` a climb of 3 in 4 would be impassable, and a descent of 3 in 4 as well.

The proofs found two more things that are no errors of the code, but of what was first said of it: a way
that doubles back over itself is not always a path over its whole length, since the split points of one
leg cut the pieces of the other (`PathFeature::paths` has the pieces as inserted, the mesh their halves).
`PathButWhereCrossed` therefore asks that the way goes `Onward`, and the run has one that does not. And
`MissesOnlySliver` said at first that points are missed below or left of the first tiles only; a corner that
is not converted may as well lie above or right of the last. It now names every side, and `chunks` has a
line that shows the difference.

The models hold some more facts that no run refutes anything with, because nothing in the program
makes them matter or because they can be seen at a glance. `Route` never clears `state.routes`, and the
input node's counter is static (`DelaunayTriangulation.cpp:363`), so a second call in one process goes
wrong: with `MaxCalls = 2`, `KeepsContract` and `ReturnsEveryChunk` fail; the program makes one. The
gradient preset has a signed cost (`Presets.cpp:284`), and nothing calls it. The TIN pipeline consults and
fills the cache under `--disable-cache` too (`DelaunayTriangulation.cpp:303, 452`). A cached TIN cut short
by a kill is merged as it is if the library reads it without throwing (`MeshIO.cpp:39`); `merged` is
"partial" then.

`ReadyOrWedged` also records what it takes for every rerun of the setup to fail: a torn terrain
dataset, which no handler ever deletes; or a torn water dataset beside contours that an earlier
run cached, so that it is never fetched anew. `WaterIsAvoided` holds in spite of these: a face without a water tag is taken for water.

## 5. Proofs

TLAPS proves the following for every value of the constants that the named assumptions of the modules
admit. Where a property also needs something else, the last column says what.

| module | theorem | property of a run | needs besides |
|---|---|---|---|
| `RouterProofs` | `TypeCorrect`, `ParentsAreClosed` | `TypeOK`, `ParentsClosed` | |
| | `ClosedStayBest`, `FrontierStaysComplete`, `ClosesInCostOrder` | `ClosedAreBest`, `FrontierComplete`, `ClosedInCostOrder` | costs not negative, one call |
| | `ClosesAtDistance` | `ClosedCostsAreDistances` | the same |
| | `ImplementsRouteSpec`: `Spec => RouteSpec!SafetySpec` | the steps of `KeepsContract` | the same |
| `TinPipelineProofs` | `TypeCorrect`, `BodiesEndWithCall`, `TornByCrashOnly` | `TypeOK`, `NoBodyOutlivesCall`, `TornOnlyByCrash` | |
| | `FirstCallReturnsEveryChunk` | `ReturnsEveryChunk` | one call in a process |
| `FeatureManagerProofs` | `TypeCorrect`, `CheckIsSound`, `OverflowNeedsAChange`, `CheckIsComplete` | `TypeOK`, `AcceptedOutputsReturn`, `OverflowsOnlyIfChanged`, `RefusesOnlyCycles` | |
| `DataFeaturesProofs` | `TypeCorrect`, `TagsComeFromOwnChunk`, `NoWaterTakenForLand`, `MeshIsFinalWhenTagged` | `TypeOK`, `TaggedFromOwnChunk`, `WaterIsAvoided`, `TagsFinalMesh` | |
| `ChunkFetchProofs` | `TypeCorrect`, `FeaturesReadTheirChunk`, `Released`, `Removed` | `TypeOK`, `ReadsOwnChunk`, `DatasetsReleasedOnce`, `IntermediatesRemoved` | |
| | `RequiredInStep`, `MissesNoMore` | `InStepWithGrid`, `MissesOnlySliver` | |
| | `SafeFromEightyMetres` | `EndsSafeFromDistance` | the program's margin, 30 m |
| `ContoursProofs` | `TypeCorrect`, `SegmentsAreJoined`, `PiecesAreShort`, `UndefinedNearHull`, `ConstraintsStayNear`, `WholePiecesArePaths` | `TypeOK`, `JoinsItsEnds`, `NeverTwiceTheLimit`, `UndefinedOnlyAtHull`, `StaysNearDrawn`, `PathButWhereCrossed` | |
| `WarningsProofs` | `TypeCorrect`, `InfiniteOnlyWithoutSpeed`, `PathsAreNeverSlower`, `ImpassablesAreWarned`, `GravestAreShown` | `TypeOK`, `InfiniteWhereNoSpeed`, `PathNeverSlower`, `ImpassableIsWarned`, `ShowsGravest` | |

*Router.* `ParentsClosed` is not inductive: closing a node turns what is said of it in the
queue into something said of `routes`. `TreeInv` therefore says the same of every queued node. A closed
vertex is never overwritten (`CloseFacts`), so what hangs from it goes on hanging from it
(`HangsStable`).

`CostInv` is `TypeOK`, that the router is empty before its only call, that closed vertices are no
dearer than any queued node (`ClosedAreBest`), and that the frontier is complete
(`FrontierComplete`), which rests on the one before. A node that is closed was the cheapest in the
queue, so by `ClosedAreBest` it is no cheaper than any closed vertex (`ClosesInCostOrder`), and
what it pushes is no cheaper than itself because costs are not negative (`ExpansionCosts`); that
is `ClosedAreBest` again (`ClosingIsBest`). `FrontierComplete` survives the closing of `n` because
a corner skipped as closed is no dearer than `n`, hence than any way through `n`, and a node
leaves the queue only with its vertex closed at no more (`ClosingCovers`). The two hypotheses are
needed: a second call breaks the second, and with negative costs closing for good is wrong.
`InfiniteOnlyWithoutSpeed` shows that the time presets meet the first.

*Distances and the refinement.* `SearchInv` adds `DistInv`: with so many vertices closed, the cost of
each is in every row of Bellman and Ford's table that allows as many (`ClosingIsInTable`). That no row has
less is an induction over rows (`TableIsBounded`): an entry of the next row goes on from a vertex that is
closed, and then the frontier is complete beyond it, or from one that is not, and then it costs no less than
some node of the queue. `ContractInv` adds how every
closed vertex hangs from its parent (`RootInv`), that the start is closed first (`FirstInv`) and that
what `fetchRoute` has so far is a way through the tree (`WalkInv`). From it every step of `Router` maps to a
step of `RouteSpec` or to none: what is returned costs the distance (`ReturnsOptimal`), "no safe path" is
reported only if the distance is infinite (`GivesUpRightly`), and the queue runs empty only where the end is
not reached (`EmptyOnlyIfCutOff`).

*TinPipeline.* `TypeInv` adds to `TypeOK` that the list whose head is handed over is not empty. `ListsInv`
says that the two lists, what was emitted and what was merged have no chunk twice and leave none out;
`RunInv` that bodies run in a call only and that, before a kill, a torn file is being written; `CallInv`
follows a process's first call through its stages: where `wait_for_all` returns without an exception every
emitted chunk was collected. A second call skips as many chunks as the first emitted (the counter
is static), hence the hypothesis.

*FeatureManager.* `HasCycleBelow`, `Evaluable` and `Reachable` are recursive functions; `CheckExists`,
`ReturnsExists` and `ReachedExists` show that there are functions that satisfy their equations. A check that
answers no does so along every path, and the names on a path can grow only so far: so the recursion
returns (`AcceptedReturns`) and meets no feature again (`AcceptedHasNoCycle`). Conversely a cycle found in
names is one of features if names are unique (`NoWayBack`, `AcyclicIsAccepted`). `Inv` says that an
output accepted on the present graph passes the check.

*DataFeatures.* `Inv`: the loop's position says whether the mesh may change (`Untagged`); the dataset in
hand is that of the chunk that was loaded last (`InHand`); and a tag is what the dataset of the face's own
chunk shows (`TaggedRight`). `dataset_chunk` is uninitialised only while no dataset is in
hand, so nothing is read by its chance value.

*ChunkFetch.* `StepInv` says, for each step, exactly which files and which datasets the chunk in hand
owns, and what it may leave when it throws; `GotInv` that what was read is of its chunk. The
rectangle's lemmas are arithmetic of multiples of 8 (`CornersAreWhole`, `EndsAreWhole`, `EndsSafe`).
`GridInv` says where the two loops are: the latitude is the first after so many additions, the longitude
likewise (`Position`), and the list has exactly the tiles of the rows and columns passed (`Tiles`), each once
unless the first position is `Rounded`. `Turns` is how often a loop turns. All its additions together
stray less than the first position is from an edge, so each falls into the next tile (`InStep`), which gives
`RequiredInStep`. For `MissesNoMore`, a point within the rectangle lies within its box, which is seen by
turning it back (`RotatedBack`, `BoundedInBox`); converted it is within a sliver of the range enumerated
(`StraysASliver`); and tiles in step leave no gap in that range (`AxisIsCovered`).

*Contours.* The lemmas are about arithmetic: what rounding strays (`RoundedNear`, `SixDigitsNear`), that
a split point stays by the segment's point of its number, between the ends, and within a step of the next
(`SplitNear`, `SplitBetween`, `SplitStep`), and that some piece of a way that leads from one side of a gap to
the other covers the gap (`SomePieceCovers`). `NearInv` says of the cache that it holds
what was fetched, with six digits, and that a first run reads none of it (`FirstRunInv`): so the decade
counts from the second run on. That half metres do not add up is `Close`: a contour from an image has
whole metres already. For `PathButWhereCrossed`, all constraints are the pieces of one
contour, the way as fetched or as cached; it goes one way, so that only a crossing can be a vertex inside a
piece (`OnlyCrossingsInside`) and an edge that is covered by a piece without one is that piece
(`CoveredIsPiece`).

*Warnings.* A face's warning is a fold over what all the edges raise, and what is shown a fold over the
faces around a vertex. `FoldExists` shows that the library's fold, which takes the elements of an interval
from the greatest down, has a value, so that a fold goes by steps (`AddWarningSteps`, `GraverSteps`,
`MultiplySteps`, `SumSteps`); from these come `GravestStays` (one of the gravest warnings added to a face is
kept) and `GravestIsGravest`. The costs go through each feature with the same two facts: it is zero only
where the world says so, and then a grave warning comes with it (`Sound`, `Warns`, `MultiplyDouble`). The
polynomial of a slope is only known to be a fraction (`SumOfTerms`), so nothing in the argument rests on the
coefficients the code leaves out. `SpeedIs` says that the speed off a path is the speed on it times factors
of at most one, or zero. `Inv`: parents are closed (`TreeInv`), so the way back from the end stays among the
closed vertices, around which everything was calculated (`RouteIsClosed`); what was raised for a face its
warning outweighs (`WarnInv`); and `ShowsGravest`. The assumptions: a finite mesh, lengths above 0, whole
heights, and `MIN_PRIORITY` from 1 to 10.

*Induction.* The library's induction theorems take an operator, which the installed provers cannot
instantiate. `Induction` states induction with a set (`Induct`), and that functions defined by iteration or by
recursion over the naturals exist (`Iterates`, `Recurs`), which is how the proofs reason about the models'
recursive functions.

*Not proved, model-checked only.*

- Liveness: that calls end (`KeepsContract` beyond its steps), `RecoversFromTornCache`, `ReadyOrWedged`,
  `FetchEnds`. Fairness is out of the prover's reach.

## 6. Not modelled, and why

Geometry in doubles (triangulation, simplification, interpolation, insertion of constraints, map
projections) is out of TLC's reach; so `Router` takes the set of safe vertices, and `DataFeatures` the
chunk of a face, as inputs, and `Contours` keeps to one line. What is drawn in an image (edge
detection, `approxPolyDP`) is OpenCV's; `Contours` begins with its outlines. KML and GPX output but
for the warnings shown, `FormatUrl`, hashes of chunks and logging are formatting.
`MeshBoundary::FilterPointsOutsideBoundary` works on a copy and changes nothing; the helpers in
`GDALHandler.cpp:39-95`, `ExtractGdalDatasetContours`, `SimpleBooleanToDoubleFeature` and
`SetupSimpleGradientPreset` are called by nothing. That `tsr_run` catches what the router throws and
goes on to its log line changes no state.

Seen while reading and not in any model: the closing edge of an outline is never inserted
(`DelaunayTriangulation.cpp:93`); ends outside of zone 30 are converted there with their own zone and back
with zone 30 (`PointProcessor.cpp:38`, `ChunkManager.cpp:48`).

## 7. Plan

Done: `Router`, `RouteSpec`, `RouterProps`, `TinPipeline`, `FeatureManager`, `DataFeatures`,
`MeshBoundary`, `ChunkManager`, `ChunkFetch`, `Contours`, `CostFeatures`, `Warnings`, and the proofs of
section 5, which cover every invariant of the passing runs. Next, in this order:

1. That every step of `Router`'s search is one of the orders `Warnings` allows, as a refinement.
2. That a second call of `InitializeTinFromBoundary` loses exactly the chunks the first one emitted.
