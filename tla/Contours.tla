------------------------------ MODULE Contours -------------------------------
(***************************************************************************)
(* From the contours of a chunk to constrained edges, and to the edges     *)
(* that PathFeature takes for paths: the loaders of JSON and of images,    *)
(* the cached contour file, AddContourConstraint, NormalizeSegmentOrder    *)
(* and PathFeature::Calculate (src/src/tsr/DelaunayTriangulation.cpp,      *)
(* IO/JSONParser.cpp, IO/ImageIO.cpp, IO/MeshIO.cpp,                       *)
(* Features/PathFeature.cpp).                                              *)
(*                                                                         *)
(* The model is the mesh along one straight line that runs north: a        *)
(* position is a northing, in the fractions of a metre that rounding tells *)
(* apart.  Contours run along the line; those that cross it add a vertex   *)
(* where they do.  Heights are interpolated and left out.                  *)
(***************************************************************************)
EXTENDS Integers, SequencesExt

CONSTANTS
    Metre,          \* positions in a metre
    Decade,         \* positions between two northings that six digits tell apart
    Lo, Hi,         \* the part of the line inside the mesh
    Limit,          \* the longest segment a feature asks for
    Drawings,       \* what the map services may show along the line
    Crossings,      \* where constraints elsewhere may cross it
    Nil,            \* a JSON feature without geometry, or a coordinate without y
    MaxCrossings,   \* bound: constraints that cross the line in a run
    MaxRuns         \* bound: runs of the program

Order     == <<"terrain", "water", "paths">>
Features  == ToSet(Order)
Distance(p, q) == IF p < q THEN q - p ELSE p - q

ASSUME UnitAssumption ==
    /\ Metre \in Nat \ {0} /\ Decade \in Nat \ {0} /\ Decade % Metre = 0
    /\ Lo \in Nat /\ Hi \in Nat /\ Lo < Hi /\ Crossings \subseteq Lo .. Hi
ASSUME LimitAssumption == Limit \in [Features -> Nat] /\ \A f \in Features : Limit[f] >= Metre
ASSUME DrawingsAssumption ==
    \A d \in Drawings :
        /\ DOMAIN d = Features
        /\ \A f \in Features : d[f] # <<>> /\ Len(d[f]) = Len(d["paths"])
        /\ \A f \in Features \ {"paths"} : d[f] \in Seq(Seq(Seq(Nat)))
        /\ d["paths"] \in Seq(Seq(Seq(Nat \cup {Nil}) \cup {Nil}))
ASSUME NilAssumption == Nil \notin Nat \cup Seq(Nat) \cup Seq(Seq(Nat))
ASSUME BoundsAssumption == MaxCrossings \in Nat /\ MaxRuns \in Nat \ {0}

VARIABLES
    drawn,          \* of each feature and chunk, what its service shows
    cache,          \* its contour file, or Nil
    status,         \* "running", "ready" or "undefined"
    at, chunk,      \* the feature being initialised, and its chunk
    todo,           \* contours still to be added, or Nil before they are loaded
    vertices,       \* vertices of the mesh on the line
    constraints,    \* constraints inserted along it
    paths,          \* PathFeature::paths
    crossed,        \* where other constraints crossed the line
    runs

mesh == <<vertices, constraints, paths>>
vars == <<drawn, cache, status, at, chunk, todo, mesh, crossed, runs>>

-----------------------------------------------------------------------------
(* Loading contours.                                                        *)

\* std::round of n/d positions, to whole metres.
Rounded(n, d) == Metre * ((2 * n + d * Metre) \div (2 * d * Metre))

\* Those elements of s that are in keep: of its first i elements, and of all.
OnlyUpTo(s, keep) ==
    LET upTo[i \in 0 .. Len(s)] ==
          IF i = 0 THEN <<>>
          ELSE IF s[i] \in keep THEN Append(upTo[i - 1], s[i]) ELSE upTo[i - 1]
    IN  upTo
Only(s, keep) == OnlyUpTo(s, keep)[Len(s)]

\* LoadContoursFromJsonFile: a way without geometry is skipped, as is a short coordinate.
Present(s) == Only(s, ToSet(s) \ {Nil})
LoadContoursFromJsonFile(ways) ==
    [i \in DOMAIN Present(ways) |-> Present(Present(ways)[i])]

\* ExtractFeatureContours: whole metres, and no contour of a single point.
ExtractFeatureContours(outlines) ==
    LET kept == Only(outlines, {contour \in ToSet(outlines) : Len(contour) > 1})
    IN  [i \in DOMAIN kept |-> [j \in DOMAIN kept[i] |-> Rounded(kept[i][j], 1)]]

Fetched(f, c) ==
    IF f = "paths" THEN LoadContoursFromJsonFile(drawn[f][c])
                   ELSE ExtractFeatureContours(drawn[f][c])

\* WriteContoursToFile: `<<` writes six digits of a northing that has seven.
Truncated(p) == Decade * (p \div Decade)        \* a bug: cut off instead of rounded
SixDigits(p) ==
    LET tens == p \div Decade
        rest == 2 * (p % Decade)
        up   == rest > Decade \/ (rest = Decade /\ tens % 2 = 1)
    IN  Decade * (IF up THEN tens + 1 ELSE tens)
Written(contours) ==
    [i \in DOMAIN contours |-> [j \in DOMAIN contours[i] |-> SixDigits(contours[i][j])]]

-----------------------------------------------------------------------------
(* AddContourConstraint.                                                    *)

\* tin.locate finds a finite face.
AboveStart(p) == Lo <= p                        \* a bug: one side of the hull only
Inside(p) == Lo <= p /\ p <= Hi

\* `splits`, and the points that split the segment from p to q.
OneSplitFewer(p, q, max) == Distance(p, q) \div max - 1     \* a bug: the last left out
Splits(p, q, max) == Distance(p, q) \div max

StopsShort(p, q, max) ==                        \* a bug: the last split is not made
    LET splits == Splits(p, q, max)
        Split(k) == Rounded(p * splits + (q - p) * k, splits)
        points == [k \in 1 .. splits - 1 |-> Split(k)]
    IN  Only(points, {r \in ToSet(points) : Inside(r)})
SplitPoints(p, q, max) ==
    LET splits == Splits(p, q, max)
        Split(k) == Rounded(p * splits + (q - p) * k, splits)
        points == [k \in 1 .. splits |-> Split(k)]
    IN  Only(points, {r \in ToSet(points) : Inside(r)})

Long(p, q, max) == Distance(p, q) > max

\* The chain from p over the split points to q.
ChainToLastSplit(p, splitPoints, q) ==          \* a bug: q is not joined
    LET chain == <<p>> \o splitPoints IN {<<chain[i], chain[i + 1]>> : i \in 1 .. Len(chain) - 1}
Chain(p, splitPoints, q) ==
    LET chain == <<p>> \o splitPoints \o <<q>>
    IN  {<<chain[i], chain[i + 1]>> : i \in 1 .. Len(chain) - 1}

SegmentConstraints(p, q, max) ==
    IF Long(p, q, max) THEN Chain(p, SplitPoints(p, q, max), q) ELSE {<<p, q>>}

\* The segments of a contour that are looked at: from each vertex to the next.
Segments(contour) ==
    {s \in {<<contour[i], contour[i + 1]>> : i \in 1 .. Len(contour) - 1} :
        Inside(s[1]) /\ Inside(s[2])}

\* splitPoints[0] when every split point fell outside.
ReadsNoSplitPoint(contour, max) ==
    \E s \in Segments(contour) : Long(s[1], s[2], max) /\ SplitPoints(s[1], s[2], max) = <<>>

ContourConstraints(contour, max) ==
    UNION {SegmentConstraints(s[1], s[2], max) : s \in Segments(contour)}

AsTravelled(p, q) == <<p, q>>                   \* a bug: one order for each direction
NormalizeSegmentOrder(p, q) == IF p < q THEN <<p, q>> ELSE <<q, p>>

-----------------------------------------------------------------------------
Init ==
    /\ drawn \in Drawings
    /\ cache = [f \in Features |-> [c \in DOMAIN drawn[f] |-> Nil]]
    /\ status = "running"
    /\ at = 1 /\ chunk = 1 /\ todo = Nil
    /\ vertices = {Lo, Hi} /\ constraints = {} /\ paths = {}
    /\ crossed = {} /\ runs = 1

feature == Order[at]
max     == Limit[feature]

\* Contours come from the cache, or from the service and then go to the cache.
Load ==
    /\ status = "running" /\ todo = Nil
    /\ IF cache[feature][chunk] # Nil
         THEN todo' = cache[feature][chunk] /\ UNCHANGED cache
         ELSE /\ todo' = Fetched(feature, chunk)
              /\ cache' = [cache EXCEPT ![feature][chunk] = Written(Fetched(feature, chunk))]
    /\ UNCHANGED <<drawn, status, at, chunk, mesh, crossed, runs>>

\* insert_constraint of all of a contour, after the last of its segments was computed.
AddContourConstraint ==
    /\ status = "running" /\ todo # Nil /\ todo # <<>>
    /\ ~ReadsNoSplitPoint(Head(todo), max)
    /\ LET new == ContourConstraints(Head(todo), max) IN
       /\ vertices' = vertices \cup UNION {{c[1], c[2]} : c \in new}
       /\ constraints' = constraints \cup new
       /\ paths' = IF feature = "paths"
                     THEN paths \cup {NormalizeSegmentOrder(c[1], c[2]) : c \in new}
                     ELSE paths
    /\ todo' = Tail(todo)
    /\ UNCHANGED <<drawn, cache, status, at, chunk, crossed, runs>>

Undefined ==
    /\ status = "running" /\ todo # Nil /\ todo # <<>>
    /\ ReadsNoSplitPoint(Head(todo), max)
    /\ status' = "undefined"
    /\ UNCHANGED <<drawn, cache, at, chunk, todo, mesh, crossed, runs>>

\* A constraint of the same feature, elsewhere in the mesh, crosses the line.
Cross(p) ==
    /\ status = "running"
    /\ Cardinality(crossed \cup {p}) <= MaxCrossings
    /\ crossed' = crossed \cup {p}
    /\ vertices' = vertices \cup {p}
    /\ UNCHANGED <<drawn, cache, status, at, chunk, todo, constraints, paths, runs>>

\* The next chunk of the feature, the next feature, or all are done.
NextChunk ==
    /\ status = "running" /\ todo = <<>>
    /\ todo' = Nil
    /\ \/ chunk < Len(drawn[feature]) /\ chunk' = chunk + 1 /\ UNCHANGED <<status, at>>
       \/ chunk = Len(drawn[feature]) /\ at < Len(Order)
          /\ chunk' = 1 /\ at' = at + 1 /\ UNCHANGED status
       \/ chunk = Len(drawn[feature]) /\ at = Len(Order)
          /\ status' = "ready" /\ UNCHANGED <<at, chunk>>
    /\ UNCHANGED <<drawn, cache, mesh, crossed, runs>>

\* The program is run again on the same cache.
Rerun ==
    /\ status \in {"ready", "undefined"} /\ runs < MaxRuns
    /\ runs' = runs + 1
    /\ status' = "running"
    /\ at' = 1 /\ chunk' = 1 /\ todo' = Nil
    /\ vertices' = {Lo, Hi} /\ constraints' = {} /\ paths' = {} /\ crossed' = {}
    /\ UNCHANGED <<drawn, cache>>

Next ==
    \/ Load \/ AddContourConstraint \/ Undefined \/ NextChunk \/ Rerun
    \/ \E p \in Crossings : Cross(p)

Spec == Init /\ [][Next]_vars

-----------------------------------------------------------------------------
(* What the search meets: the edges between neighbouring vertices that a    *)
(* constraint keeps in the mesh, and PathFeature::Calculate.                *)

Covers(c, e) == LET n == NormalizeSegmentOrder(c[1], c[2]) IN n[1] <= e[1] /\ e[2] <= n[2]
Adjacent(e)  == e[1] < e[2] /\ ~\E v \in vertices : e[1] < v /\ v < e[2]
Joined(p, q) ==
    \A e \in vertices \X vertices :
        Adjacent(e) /\ Covers(<<p, q>>, e) => \E c \in constraints : Covers(c, e)

Calculate(p, q) == NormalizeSegmentOrder(p, q) \in paths

-----------------------------------------------------------------------------
(* Properties.                                                              *)

Contour == Seq(Int)

TypeOK ==
    /\ drawn \in Drawings
    /\ \A f \in Features : \A c \in DOMAIN drawn[f] :
        cache[f][c] # Nil => \A i \in DOMAIN cache[f][c] : cache[f][c][i] \in Contour
    /\ status \in {"running", "ready", "undefined"}
    /\ at \in DOMAIN Order /\ chunk \in DOMAIN drawn[feature]
    /\ todo # Nil => \A i \in DOMAIN todo : todo[i] \in Contour
    /\ vertices \subseteq Lo .. Hi
    /\ constraints \subseteq vertices \X vertices /\ paths \subseteq vertices \X vertices
    /\ crossed \subseteq Crossings /\ runs \in 1 .. MaxRuns

\* However a segment is split, rounded, and cut by what was there before, edges of the
\* mesh lead from its one end to the other (DelaunayTriangulation.cpp:131-175).
JoinsItsEnds ==
    [][AddContourConstraint =>
        \A s \in Segments(Head(todo)) : Joined(s[1], s[2])']_vars

\* A piece may be longer than was asked for, since the number of pieces is rounded down,
\* but never twice as long (DelaunayTriangulation.cpp:131-150).
NeverTwiceTheLimit ==
    [][AddContourConstraint =>
        \A c \in constraints' \ constraints : 2 * Distance(c[1], c[2]) <= 4 * max + Metre]_vars

\* The split points may all fall outside the mesh, and then an element of an empty
\* vector is read; but only for a segment that ends within half a metre of the
\* hull, along its line (DelaunayTriangulation.cpp:140-146, 158).
UndefinedOnlyAtHull ==
    status = "undefined" =>
        \E s \in Segments(Head(todo)) : 2 * (s[2] - Lo) <= Metre \/ 2 * (Hi - s[2]) <= Metre

\* No constraint strays from what was drawn by more than half a metre, or, if it comes
\* from the cache, by more than half of what six digits can tell as well
\* (ImageIO.cpp:84, MeshIO.cpp:115, DelaunayTriangulation.cpp:137-138).
Near(p, by) ==
    \E f \in Features : \E c \in DOMAIN drawn[f] : \E w \in ToSet(drawn[f][c]) \ {Nil} :
        \E q, r \in ToSet(w) \ {Nil} : q - by <= p /\ p <= r + by
StaysNearDrawn ==
    \A c \in constraints :
        LET by == (Metre + IF runs > 1 THEN Decade ELSE 0) \div 2
        IN  Near(c[1], by) /\ Near(c[2], by)

\* Where a way of whole metres is the only contour on the line, itself included, it is a
\* path in both directions, although it was split and may have come with two chunks, but
\* for those of its pieces that something crosses: `paths` has the piece, and the mesh
\* its halves (PathFeature.cpp:39-63, 95-121).
WholeMetre(contour) == \A i \in DOMAIN contour : contour[i] % Metre = 0
Onward(contour) ==
    \/ \A i \in 1 .. Len(contour) - 1 : contour[i] <= contour[i + 1]
    \/ \A i \in 1 .. Len(contour) - 1 : contour[i] >= contour[i + 1]
AloneOnLine(way) ==
    /\ WholeMetre(way) /\ Onward(way)
    /\ \A f \in Features : \A c \in DOMAIN drawn[f] :
        ToSet(Fetched(f, c)) \subseteq IF f = "paths" THEN {way} ELSE {}
Divides(p, k) == (k[1] < p /\ p < k[2]) \/ (k[2] < p /\ p < k[1])
PathButWhereCrossed ==
    status = "ready" =>
        \A c \in DOMAIN drawn["paths"] : \A way \in ToSet(Fetched("paths", c)) :
            AloneOnLine(way) =>
                \A k \in constraints : \A e \in vertices \X vertices :
                    Adjacent(e) /\ Covers(k, e) =>
                        LET whole == ~\E p \in crossed : Divides(p, k)
                        IN  (Calculate(e[1], e[2]) <=> whole) /\ (Calculate(e[2], e[1]) <=> whole)

\* What is in the cache is what was fetched (PathFeature.cpp:74: "Contours are cached").
CachedAsFetched ==
    \A f \in Features : \A c \in DOMAIN drawn[f] :
        cache[f][c] # Nil => cache[f][c] = Fetched(f, c)
=============================================================================
