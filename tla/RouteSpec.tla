----------------------------- MODULE RouteSpec -----------------------------
(***************************************************************************)
(* What Router promises of one call, without saying how the route is       *)
(* found: "returns the optimal route between them ... with a custom cost   *)
(* function" (src/include/tsr/Router.hpp), "Could not find safe path"      *)
(* (src/src/tsr/Router.cpp) where there is none.  The route is one step.   *)
(***************************************************************************)
EXTENDS Integers, Sequences, FiniteSets, FiniteSetsExt

CONSTANTS Vertices, Faces, Queries, Calculate(_, _, _, _), Inf, Nil

VARIABLES
    status,             \* "idle", "working", or how the call ended
    start, end,         \* the located vertices of the query
    answer,             \* the route returned
    terrain, safe, valid   \* the terrain: see Router

vars == <<status, start, end, answer, terrain, safe, valid>>

Plus(a, b) == IF Inf \in {a, b} THEN Inf ELSE a + b
Leq(a, b)  == IF Inf \in {a, b} THEN b = Inf ELSE a <= b
Least(S)   == IF S \subseteq {Inf} THEN Inf ELSE Min(S \ {Inf})

-----------------------------------------------------------------------------
\* A step along a face to one of its corners that is safe.
Edge(u, v) == v \in safe /\ u # v /\ \E f \in Faces : {u, v} \subseteq f

\* The cheaper of the two faces an edge can be walked along.
EdgeCost(u, v) == Least({Calculate(terrain, f, u, v) : f \in {g \in Faces : {u, v} \subseteq g}})

\* Bellman and Ford's table, as pairs: the vertices reached from s over at most
\* so many safe edges, each with the least it costs to get there.  A shortest
\* route visits no vertex twice.
Distances(s) ==
    LET d[k \in 0 .. Cardinality(Vertices) - 1] ==
          IF k = 0 THEN {<<s, 0>>}
          ELSE LET prev == d[k - 1]
                   far  == UNION {{<<v, Plus(p[2], EdgeCost(p[1], v))>> :
                                     v \in {x \in Vertices : Edge(p[1], x)}} : p \in prev}
               IN  {p \in prev \cup far :
                      \A q \in prev \cup far : q[1] = p[1] => Leq(p[2], q[2])}
    IN  d[Cardinality(Vertices) - 1]

Reached(s)     == {p[1] : p \in Distances(s)}
Distance(s, e) == Least({p[2] : p \in {q \in Distances(s) : q[1] = e}})

IsPath(p, s, e) ==
    /\ p # <<>> /\ p[1] = s /\ p[Len(p)] = e
    /\ \A i \in 1 .. Len(p) - 1 : Edge(p[i], p[i + 1])

\* What is left to pay at each vertex of p, from the end backwards.
PathCost(p) ==
    LET rest[i \in 1 .. Len(p)] ==
          IF i = Len(p) THEN 0 ELSE Plus(EdgeCost(p[i], p[i + 1]), rest[i + 1])
    IN  rest[1]

Optimal(p, s, e) == IsPath(p, s, e) /\ PathCost(p) = Distance(s, e)

-----------------------------------------------------------------------------
Init ==
    /\ status = "idle"
    /\ start = Nil /\ end = Nil
    /\ answer = <<>>

Ask(s, e) ==
    /\ status = "idle"
    /\ status' = IF Nil \in {s, e} THEN "outside_mesh" ELSE "working"
    /\ start' = IF s = Nil THEN start ELSE s
    /\ end' = IF Nil \in {s, e} THEN end ELSE e
    /\ UNCHANGED <<answer, terrain, safe, valid>>

\* The optimal route is returned, whenever one of finite cost exists.
Answer ==
    /\ status = "working"
    /\ status' = "returned"
    /\ valid /\ Distance(start, end) # Inf
    /\ Optimal(answer', start, end)
    /\ UNCHANGED <<start, end, terrain, safe, valid>>

\* "Could not find safe path": every route there is crosses an impassable face,
\* or the end is cut off and some face beside the search is impassable.
Refuse ==
    /\ status = "working"
    /\ status' = "no_safe_path"
    /\ valid /\ Distance(start, end) = Inf
    /\ \E u, v \in Reached(start) : Edge(u, v) /\ EdgeCost(u, v) = Inf
    /\ UNCHANGED <<start, end, answer, terrain, safe, valid>>

\* The end is cut off from the start and nothing is promised.
Collapse ==
    /\ status = "working"
    /\ status' \in {"aborted", "hanging"}
    /\ valid /\ end \notin Reached(start)
    /\ UNCHANGED <<start, end, answer, terrain, safe, valid>>

\* A mesh that is not a valid triangulation is noticed at the first vertex.
Reject ==
    /\ status = "working"
    /\ ~valid
    /\ status' = "invalid_mesh"
    /\ UNCHANGED <<start, end, answer, terrain, safe, valid>>

Next ==
    \/ \E q \in Queries : Ask(q[1], q[2])
    \/ Answer \/ Refuse \/ Collapse \/ Reject

SafetySpec == Init /\ [][Next]_vars

\* Every call ends.
Spec == SafetySpec /\ (status = "working" ~> status # "working")
=============================================================================
