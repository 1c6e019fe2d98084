------------------------------- MODULE Router -------------------------------
(***************************************************************************)
(* Router::Route (src/src/tsr/Router.cpp): Dijkstra's search over the      *)
(* vertices of a triangulated terrain, with the cost of an edge depending  *)
(* on the face it is walked along.  The priority queue is lazy: a vertex   *)
(* is pushed once for every face by which it is met, and the nodes of a    *)
(* vertex that has been closed meanwhile are dropped when they are popped. *)
(*                                                                         *)
(* A queue node is determined by its vertex, face and parent (a vertex is  *)
(* expanded once, an incident face visited once), so the queue holds no    *)
(* node twice and is a set here.  std::priority_queue promises nothing of  *)
(* the order of equal costs: any cheapest node may be the one popped.      *)
(***************************************************************************)
EXTENDS Integers, Sequences, FiniteSets

CONSTANTS
    Vertices,       \* the vertices of the mesh
    Faces,          \* its finite faces, each the set of its corners
    Terrains,       \* what the costs depend on beside the face and the direction
    Calculate(_, _, _, _), \* fm.Calculate: by terrain, face, vertex and next vertex
    SafeRegions,    \* the sets of vertices a MeshBoundary may call safe
    Queries,        \* the <<start, end>> pairs asked for; Nil: outside the mesh
    Inf,            \* std::numeric_limits<double>::infinity()
    Nil,            \* nullptr
    MaxCalls        \* bound: calls of Route on one Router

CostValue == Int \cup {Inf}

ASSUME MeshAssumption  == IsFiniteSet(Vertices) /\ \A f \in Faces : f \subseteq Vertices
ASSUME NilAssumption   == Nil \notin Vertices
ASSUME InfAssumption   == Inf \notin Int
ASSUME CostAssumption  == \A t \in Terrains, f \in Faces, u, v \in Vertices :
                              Calculate(t, f, u, v) \in CostValue
ASSUME SafeAssumption  == \A s \in SafeRegions : s \subseteq Vertices
ASSUME CallsAssumption == MaxCalls \in Nat
ASSUME QueryAssumption == Queries \subseteq (Vertices \cup {Nil}) \X (Vertices \cup {Nil})

\* Addition and comparison of doubles with infinity.
Plus(a, b) == IF Inf \in {a, b} THEN Inf ELSE a + b
Leq(a, b)  == IF Inf \in {a, b} THEN b = Inf ELSE a <= b

Node == [vertex : Vertices, gCost : CostValue, face : Faces \cup {Nil}, parent : Vertices \cup {Nil}]

VARIABLES
    pc,         \* where the current call of Route is, or how the last one ended
    calls,      \* how often Route has been called on this Router
    start, end, \* state.start_vertex, state.end_vertex
    routes,     \* state.routes: the closed vertices and the node each was closed by
    queue,      \* cost_queue
    cursor,     \* fetchRoute's current_node.vertex
    route,      \* fetchRoute's result, already in start-to-end order
    terrain,    \* input: what the features were tagged with
    safe,       \* input: the vertices for which boundary.IsBoundedSafe holds
    valid       \* input: tin.is_valid()

inputs == <<terrain, safe, valid>>
vars   == <<pc, calls, start, end, routes, queue, cursor, route, terrain, safe, valid>>

Closed == DOMAIN routes

\* How a call may end: by returning, by one of the exceptions, or (popping an
\* empty std::priority_queue) in undefined behaviour.
Exceptions == {"outside_mesh", "no_safe_path", "invalid_mesh", "out_of_range"}
Undefined  == {"aborted", "hanging"}
Ended      == {"returned"} \cup Exceptions \cup Undefined

PutByParent(map, key, value) ==                         \* a bug: the wrong key
    [k \in DOMAIN map \cup {value.parent} |-> IF k = value.parent THEN value ELSE map[k]]
Put(map, key, value) ==
    [k \in DOMAIN map \cup {key} |-> IF k = key THEN value ELSE map[k]]

-----------------------------------------------------------------------------
Init ==
    /\ pc = "idle"
    /\ calls = 0
    /\ start = Nil /\ end = Nil
    /\ routes = [v \in {} |-> Nil]
    /\ queue = {}
    /\ cursor = Nil
    /\ route = <<>>
    /\ terrain \in Terrains
    /\ safe \in SafeRegions
    /\ valid \in BOOLEAN

\* A call may follow one that returned or threw; none follows undefined behaviour.
Callable ==
    /\ pc \in {"idle", "returned"} \cup Exceptions
    /\ calls < MaxCalls

StartNode(s) == [vertex |-> s, gCost |-> 0, face |-> Nil, parent |-> Nil]

\* Both points lie on the mesh: the search begins.  state.routes is NOT cleared.
Route(s, e) ==
    /\ Callable
    /\ s # Nil /\ e # Nil
    /\ calls' = calls + 1
    /\ start' = s
    /\ end' = e
    /\ queue' = {StartNode(s)}
    /\ pc' = "searching"
    /\ route' = <<>>
    /\ UNCHANGED <<routes, cursor, inputs>>

\* CalculateNearestVertexToPoint throws, after start_vertex was set if only the
\* end point is outside.
RouteOutside(s, e) ==
    /\ Callable
    /\ Nil \in {s, e}
    /\ calls' = calls + 1
    /\ start' = IF s = Nil THEN start ELSE s
    /\ pc' = "outside_mesh"
    /\ route' = <<>>
    /\ UNCHANGED <<end, routes, queue, cursor, inputs>>

\* The loop's condition.
Searching == pc = "searching" /\ end \notin Closed

Dearest(n) ==                                           \* a bug: comparison reversed
    /\ n \in queue
    /\ \A m \in queue : Leq(m.gCost, n.gCost)
Cheapest(n) ==
    /\ n \in queue
    /\ \A m \in queue : Leq(n.gCost, m.gCost)

\* The corners of an incident face that are pushed: those still open and safe.
OpenCornersUnbounded(f, closed) == f \ closed           \* a bug: no IsBoundedSafe
OpenCornersOnce(f, closed) ==                           \* a bug: no second chance
    (f \cap safe) \ (closed \cup {m.vertex : m \in queue})
OpenCorners(f, closed) == (f \cap safe) \ closed

\* The node pushed for corner v of face f when n is closed.
PushedOrphan(n, f, v) ==                                \* a bug: parent not set
    [vertex |-> v, gCost |-> Plus(n.gCost, Calculate(terrain, f, n.vertex, v)),
     face |-> f, parent |-> Nil]
PushedGreedy(n, f, v) ==                                \* a bug: the way so far not added
    [vertex |-> v, gCost |-> Calculate(terrain, f, n.vertex, v),
     face |-> f, parent |-> n.vertex]
Pushed(n, f, v) ==
    [vertex |-> v, gCost |-> Plus(n.gCost, Calculate(terrain, f, n.vertex, v)),
     face |-> f, parent |-> n.vertex]

Expansion(n, closed) ==
    UNION {{Pushed(n, f, v) : v \in OpenCorners(f, closed)} : f \in {g \in Faces : n.vertex \in g}}

\* The popped node's vertex was closed already, by a node at most as costly.
SkipBeaten(n) ==
    /\ Searching
    /\ Cheapest(n)
    /\ n.vertex \in Closed
    /\ queue' = queue \ {n}
    /\ UNCHANGED <<pc, calls, start, end, routes, cursor, route, inputs>>

\* Only infinitely costly nodes are left.
GiveUp(n) ==
    /\ Searching
    /\ Cheapest(n)
    /\ n.vertex \notin Closed
    /\ n.gCost = Inf
    /\ queue' = queue \ {n}
    /\ pc' = "no_safe_path"
    /\ UNCHANGED <<calls, start, end, routes, cursor, route, inputs>>

Close(n) ==
    /\ Searching
    /\ Cheapest(n)
    /\ n.vertex \notin Closed
    /\ n.gCost # Inf
    /\ routes' = Put(routes, n.vertex, n)
    /\ IF valid
         THEN /\ queue' = (queue \ {n}) \cup Expansion(n, Closed \cup {n.vertex})
              /\ pc' = pc
         ELSE /\ queue' = queue \ {n}
              /\ pc' = "invalid_mesh"
    /\ UNCHANGED <<calls, start, end, cursor, route, inputs>>

\* top() and pop() of an empty queue.  With the library's assertions the program
\* aborts; without them libstdc++ reads the slot of the node popped last, whose
\* vertex is closed, and skips it for ever.
PopEmpty ==
    /\ Searching
    /\ queue = {}
    /\ pc' \in Undefined
    /\ UNCHANGED <<calls, start, end, routes, queue, cursor, route, inputs>>

\* The loop ends: fetchRoute begins at the end vertex.
Found ==
    /\ pc = "searching"
    /\ end \in Closed
    /\ pc' = "fetching"
    /\ cursor' = end
    /\ route' = <<end>>
    /\ UNCHANGED <<calls, start, end, routes, queue, inputs>>

\* routes.at(parent) throws where the parent is no closed vertex.
StepBack ==
    /\ pc = "fetching"
    /\ cursor # start
    /\ LET parent == routes[cursor].parent IN
       IF parent \in Closed
         THEN /\ cursor' = parent
              /\ route' = <<parent>> \o route
              /\ pc' = pc
         ELSE /\ pc' = "out_of_range"
              /\ UNCHANGED <<cursor, route>>
    /\ UNCHANGED <<calls, start, end, routes, queue, inputs>>

Return ==
    /\ pc = "fetching"
    /\ cursor = start
    /\ pc' = "returned"
    /\ UNCHANGED <<calls, start, end, routes, queue, cursor, route, inputs>>

Ask   == \E q \in Queries : Route(q[1], q[2]) \/ RouteOutside(q[1], q[2])
Pop   == PopEmpty \/ \E n \in queue : SkipBeaten(n) \/ GiveUp(n) \/ Close(n)
Fetch == Found \/ StepBack \/ Return
Next  == Ask \/ Pop \/ Fetch

\* A call, once made, runs on: the loop has no wait and no blocking call.
Spec     == Init /\ [][Next]_vars
FairSpec == Spec /\ WF_vars(Pop) /\ WF_vars(Fetch)
=============================================================================
