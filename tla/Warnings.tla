------------------------------ MODULE Warnings -------------------------------
(***************************************************************************)
(* What a route costs and what its user is warned of: the search           *)
(* calculates the edges around each vertex it closes                       *)
(* (src/src/tsr/Router.cpp), the features add warnings to the faces        *)
(* (Feature.cpp, TsrState.cpp), and those shown with the route are chosen  *)
(* by TsrState::ProcessWarnings.  Which of the queued vertices is closed   *)
(* next is left open here; Router says which.                              *)
(***************************************************************************)
EXTENDS CostFeatures, FiniteSets

CONSTANTS
    Faces, Corners,     \* the vertices of each face
    Around,             \* incident_faces of each vertex, in the circulator's order
    Start, End,         \* the located ends of the route
    Worlds,             \* presets, reliefs, tags, paths, safe vertices, tin.is_valid()
    MinPriority         \* MIN_PRIORITY

Vertices == UNION {Corners[f] : f \in Faces}

ASSUME MeshAssumption ==
    /\ IsFiniteSet(Vertices) /\ "none" \notin Faces
    /\ Start \in Vertices /\ End \in Vertices
    /\ Around \in [Vertices -> Seq(Faces)]
    /\ \A v \in Vertices : ToSet(Around[v]) = {f \in Faces : v \in Corners[f]}

ASSUME WorldAssumption ==
    \A w \in Worlds :
        /\ w.preset \in Presets /\ w.run \in Nat \ {0} /\ w.slant \in Nat \ {0}
        /\ w.height \in [Vertices -> Int]

ASSUME PriorityAssumption == MinPriority \in 1 .. 10

VARIABLES
    world,
    closed,         \* state.routes: of each closed vertex, its parent
    queued,         \* <<vertex, parent, cost>> in cost_queue
    warnings,       \* of each face the message, "NONE" for index 0 or no entry
    raised,         \* of each face all that was ever added to it (history)
    calculated,     \* <<face, from, to>> of every edge calculated (history)
    status          \* "searching", "found", "failed" or "invalid"

vars == <<world, closed, queued, warnings, raised, calculated, status>>

-----------------------------------------------------------------------------
\* FeatureBase::AddWarning: of two warnings of one priority the later one stays.
LastWarning(old, message) == message            \* a bug: whatever its priority
AddWarning(old, message) ==
    IF Priority[old] > Priority[message] THEN old ELSE message

\* The edges calculated when v is closed, in order: face by face, to each corner that
\* is open and for which IsBoundedSafe holds.
EdgesWithItself(v) ==                           \* a bug: the vertex itself not skipped
    LET Open(f) == SetToSeq((Corners[f] \cap world.safe) \ DOMAIN closed)
    IN  FlattenSeq([i \in DOMAIN Around[v] |->
            [j \in DOMAIN Open(Around[v][i]) |-> <<Around[v][i], v, Open(Around[v][i])[j]>>]])
EdgesAround(v) ==
    LET Open(f) == SetToSeq((Corners[f] \cap world.safe) \ (DOMAIN closed \cup {v}))
    IN  FlattenSeq([i \in DOMAIN Around[v] |->
            [j \in DOMAIN Open(Around[v][i]) |-> <<Around[v][i], v, Open(Around[v][i])[j]>>]])

EdgeTime(e) == Time(world, e[1], e[2], e[3])

\* The warnings of one face after all the edges were calculated.
Warned(f, edges) ==
    FoldLeft(AddWarning, warnings[f],
             FlattenSeq([i \in DOMAIN edges |->
                IF edges[i][1] = f THEN EdgeTime(edges[i]).warnings ELSE <<>>]))

Init ==
    /\ world \in Worlds
    /\ closed = <<>> /\ queued = {<<Start, Start, Fraction(0, 1)>>}
    /\ warnings = [f \in Faces |-> "NONE"]
    /\ raised = [f \in Faces |-> {}]
    /\ calculated = {}
    /\ status = "searching"

\* A queued vertex that can be reached is closed, and what is around it calculated.
Reaches(n) ==
    /\ status = "searching" /\ End \notin DOMAIN closed
    /\ n \in queued /\ n[1] \notin DOMAIN closed /\ n[3] # Inf
    /\ closed' = [v \in DOMAIN closed \cup {n[1]} |-> IF v = n[1] THEN n[2] ELSE closed[v]]

Close(n) ==
    /\ Reaches(n) /\ world.valid
    /\ LET edges == EdgesAround(n[1]) IN
       /\ queued' = (queued \ {n}) \cup {<<e[3], e[2], EdgeTime(e).value>> : e \in ToSet(edges)}
       /\ warnings' = [f \in Faces |-> Warned(f, edges)]
       /\ raised' = [f \in Faces |-> raised[f] \cup
                        UNION {ToSet(EdgeTime(e).warnings) : e \in {e \in ToSet(edges) : e[1] = f}}]
       /\ calculated' = calculated \cup ToSet(edges)
    /\ UNCHANGED <<world, status>>

\* "Invalid DTM detected": the vertex has been closed.
Invalid(n) ==
    /\ Reaches(n) /\ ~world.valid
    /\ status' = "invalid"
    /\ UNCHANGED <<world, queued, warnings, raised, calculated>>

-----------------------------------------------------------------------------
(* ProcessWarnings: for the vertices from the end's parent to the start.    *)

Before(v) == IF v = Start THEN v ELSE closed[v]
RouteButEnd ==
    LET back[k \in 0 .. Cardinality(Vertices)] == IF k = 0 THEN End ELSE Before(back[k - 1])
    IN  {back[k] : k \in 1 .. Cardinality(Vertices)} \ (IF Start = End THEN {Start} ELSE {})

\* Of the faces around a vertex the first with the gravest warning, if any is grave.
LaterOfEqual(best, f) ==                        \* a bug: any face may take its place
    IF Priority[warnings[f]] > 0 THEN f ELSE best
Graver(best, f) ==
    IF best = "none" THEN IF warnings[f] = "NONE" THEN best ELSE f
    ELSE IF Priority[warnings[f]] > Priority[warnings[best]] THEN f ELSE best
Gravest(v) == FoldLeft(Graver, "none", Around[v])

Shown ==
    {f \in {Gravest(v) : v \in RouteButEnd} \ {"none"} : Priority[warnings[f]] >= MinPriority}

Found ==
    /\ status = "searching" /\ End \in DOMAIN closed
    /\ status' = "found"
    /\ warnings' = [f \in Faces |-> IF f \in Shown THEN warnings[f] ELSE "NONE"]
    /\ UNCHANGED <<world, closed, queued, raised, calculated>>

\* "Could not find safe path": failure.kml shows all of them.
Fail ==
    /\ status = "searching" /\ End \notin DOMAIN closed
    /\ \E n \in queued : n[3] = Inf
    /\ \A n \in queued : n[1] \in DOMAIN closed \/ n[3] = Inf
    /\ status' = "failed"
    /\ UNCHANGED <<world, closed, queued, warnings, raised, calculated>>

Next == Found \/ Fail \/ \E n \in queued : Close(n) \/ Invalid(n)

Spec == Init /\ [][Next]_vars

-----------------------------------------------------------------------------
(* Properties.                                                              *)

TypeOK ==
    /\ world \in Worlds
    /\ DOMAIN closed \subseteq Vertices /\ Range(closed) \subseteq Vertices
    /\ \A n \in queued : n[1] \in Vertices /\ n[2] \in DOMAIN closed \cup {Start}
    /\ warnings \in [Faces -> DOMAIN Priority]
    /\ raised \in [Faces -> SUBSET DOMAIN Priority]
    /\ \A e \in calculated : e[1] \in Faces /\ e[2] # e[3] /\ {e[2], e[3]} \subseteq Corners[e[1]]
    /\ status \in {"searching", "found", "failed", "invalid"}

\* An edge costs infinitely much exactly where the speed of one of its factors is zero:
\* the slope's, or off the paths that of the ground or, where swimming is ruled out, of
\* water.  So a path lifts the factors of what it leads over, but not the slope's, and a
\* zero that is inverted and multiplied ends in infinity, never in a cost below zero,
\* which the search needs (Presets.cpp:50-77, MultiplierFeature.cpp:12-64,
\* InverseFeature.hpp:37-49, ConditionalFeature.hpp:15-29).
NoSpeed(f, u, v) ==
    \/ Zero(GradientSpeed(world, u, v).value)
    \/ /\ {u, v} \notin world.paths
       /\ \/ Zero(TerrainSpeed(world.terrain[f]).value)
          \/ world.preset = "time" /\ Water(world.water[f]).value
InfiniteWhereNoSpeed ==
    \A e \in calculated :
        /\ NotNegative(EdgeTime(e).value)
        /\ EdgeTime(e).value = Inf <=> NoSpeed(e[1], e[2], e[3])

\* A path is never slower than the ground it lies on (Presets.cpp:56-70): its speed is
\* that of the slope alone, and the speed off it is this one times factors of at most
\* one, or zero.
PathNeverSlower ==
    \A e \in calculated :
        LET on  == PathSpeed(world, e[2], e[3]).value
            off == Speed(world, e[1], e[2], e[3]).value
            all == SpeedWithPath(world, e[1], e[2], e[3]).value
        IN  {e[2], e[3]} \in world.paths
                => all = on /\ all.n * (off.d \div all.d) >= off.n

\* Wherever the search met an impassable edge, the face bears a grave warning: no
\* lesser one that was added later for another edge has taken its place, so what
\* failure.kml shows includes every obstacle (Feature.cpp:16-35, Router.cpp:88-94).
ImpassableIsWarned ==
    status # "found" =>
        \A e \in calculated : EdgeTime(e).value = Inf => Priority[warnings[e[1]]] >= MinPriority

\* With the route only grave warnings of faces at its vertices are shown, and at each
\* vertex but the end nothing graver than what is shown there was left out
\* (TsrState.cpp:8-56).
ShowsGravest ==
    status = "found" =>
        /\ \A f \in Faces : warnings[f] # "NONE" =>
              /\ warnings[f] \in raised[f] /\ Priority[warnings[f]] >= MinPriority
              /\ \E v \in RouteButEnd : v \in Corners[f]
        /\ \A v \in RouteButEnd : \A f \in ToSet(Around[v]) : \A m \in raised[f] :
              Priority[m] >= MinPriority =>
                  \E g \in ToSet(Around[v]) : Priority[warnings[g]] >= Priority[m]

\* "Solve the polynomial with the given input" (GradientSpeedFeature.cpp:24), whose
\* coefficients are declared in GradientSpeedFeature.hpp:18-21.  Where an edge can be
\* passed, its cost has come to this.
Polynomial(x, coefficients) ==
    LET top == Len(coefficients) - 1
    IN  Fraction(FoldLeft(+, 0, [i \in 1 .. top + 1 |->
                    coefficients[i] * Pow(x.n, i - 1) * Pow(x.d, top - i + 1)]),
                 100 * x.d ^ top)
SolvesPolynomial ==
    \A e \in {e \in calculated : EdgeTime(e).value # Inf} :
        LET x == Gradient(world, e[2], e[3])
            y == Capped(Polynomial(x, IF x.n > 0 THEN Upwards ELSE Downwards))
            z == GradientSpeed(world, e[2], e[3]).value
        IN  y.n * z.d = z.n * y.d
=============================================================================
