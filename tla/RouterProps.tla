---------------------------- MODULE RouterProps ----------------------------
(***************************************************************************)
(* The properties of Router, and the contract RouteSpec as one of them.    *)
(***************************************************************************)
EXTENDS Router

Answers == INSTANCE RouteSpec WITH
    status <- IF pc \in {"searching", "fetching"} THEN "working" ELSE pc,
    answer <- IF pc = "returned" THEN route ELSE <<>>

\* Every node in routes and queue is a node of this mesh, keyed by its vertex
\* (Router.cpp:62-68, 96, 139-146).
TypeOK ==
    /\ pc \in {"idle", "searching", "fetching"} \cup Ended
    /\ calls \in 0 .. MaxCalls
    /\ start \in Vertices \cup {Nil}
    /\ end \in Vertices \cup {Nil}
    /\ Closed \subseteq Vertices
    /\ \A v \in Closed : routes[v] \in Node /\ routes[v].vertex = v
    /\ queue \subseteq Node
    /\ cursor \in Vertices \cup {Nil}
    /\ route \in Seq(Vertices)
    /\ terrain \in Terrains /\ safe \in SafeRegions /\ valid \in BOOLEAN

\* A node is the start's, or hangs from a closed parent by a face that holds both.
Hangs(n) ==
    \/ n = StartNode(n.vertex)
    \/ /\ n.parent \in Closed
       /\ {n.vertex, n.parent} \subseteq n.face
       /\ n.vertex \in safe
       /\ n.gCost = Plus(routes[n.parent].gCost, Calculate(terrain, n.face, n.parent, n.vertex))

\* Every closed vertex but the start is safe, has a closed parent on a face that
\* holds both, and costs its parent's cost plus that face's (Router.cpp:134-143):
\* the tree that fetchRoute and ProcessWarnings walk along.
ParentsClosed == \A v \in Closed : Hangs(routes[v])

\* No vertex is closed by a node of infinite cost (Router.cpp:89), and none waits
\* in the queue at less than the cost of a closed one: a closed vertex is never
\* beaten later (Router.cpp:83 "Check if this route is already beaten").
ClosedAreBest ==
    \A v \in Closed :
        /\ routes[v].gCost # Inf
        /\ \A n \in queue : Leq(routes[v].gCost, n.gCost)

\* The cost a vertex is closed with is the least over all routes to it through
\* the safe region (Router.hpp:12-16 "returns the optimal route").
ClosedCostsAreDistances ==
    LET distances == Answers!Distances(start) IN
    \A v \in Closed : <<v, routes[v].gCost>> \in distances

\* What it would cost to walk from the closed u to v along f is met or bettered.
Covered(u, v, f) ==
    LET through == Plus(routes[u].gCost, Calculate(terrain, f, u, v)) IN
    IF v \in Closed THEN Leq(routes[v].gCost, through)
                    ELSE \E n \in queue : n.vertex = v /\ Leq(n.gCost, through)

\* While a search runs, every safe vertex met from a closed one is closed or in
\* the queue, at no more than what any face between them costs: lazy deletion
\* and the skipped vertices (Router.cpp:128-136) lose no better route.
FrontierComplete ==
    pc \in {"searching", "fetching", "returned"} \cup Undefined =>
        \A u \in Closed, v \in safe, f \in Faces : {u, v} \subseteq f => Covered(u, v, f)

\* Vertices are closed in the order of their costs: the search never goes back
\* to a cheaper one (Router.cpp:80-96), on which "already beaten" rests.
ClosedInCostOrder ==
    [][\A v \in Closed, w \in Closed' \ Closed : Leq(routes[v].gCost, routes'[w].gCost)]_vars

\* One call of Route does what RouteSpec promises as if in one step, and every
\* call returns, throws or runs into the empty queue.
KeepsContract == Answers!Spec

\* "Check if the route is possible" (Router.cpp:88): a search that cannot succeed
\* ends in the exception, never by popping an empty queue.
NeverPopsEmptyQueue == pc \notin Undefined
=============================================================================
