---------------------------- MODULE RouterProofs ----------------------------
(***************************************************************************)
(* Proofs about Router for every mesh, every cost function, every safe     *)
(* region and any number of calls: type correctness and the tree of        *)
(* parents; for one call and costs that are not negative, that closed      *)
(* vertices are never beaten, that the frontier is complete, that the cost *)
(* a vertex is closed with is its distance from the start, as Bellman and  *)
(* Ford's table of RouteSpec has it, and that one call of Route does what  *)
(* RouteSpec allows, step by step: what it returns is an optimal route,    *)
(* and it refuses only where there is none.                                *)
(***************************************************************************)
EXTENDS RouterProps, FiniteSetTheorems, Induction

-----------------------------------------------------------------------------
(* Costs: Inf is the greatest, and adding a cost that is not negative never *)
(* makes a sum smaller.                                                     *)

LEMMA PlusType ==
    ASSUME NEW a \in CostValue, NEW b \in CostValue
    PROVE  Plus(a, b) \in CostValue
BY DEF Plus, CostValue

LEMMA LeqReflexive ==
    ASSUME NEW a \in CostValue
    PROVE  Leq(a, a)
BY DEF Leq, CostValue

LEMMA LeqTransitive ==
    ASSUME NEW a \in CostValue, NEW b \in CostValue, NEW c \in CostValue,
           Leq(a, b), Leq(b, c)
    PROVE  Leq(a, c)
BY InfAssumption DEF Leq, CostValue

NotNegative(c) == c \in CostValue /\ Leq(0, c)

LEMMA PlusGrows ==
    ASSUME NEW a \in CostValue, NEW c, NotNegative(c)
    PROVE  Leq(a, Plus(a, c))
BY InfAssumption DEF Leq, Plus, CostValue, NotNegative

\* Closing a node adds its vertex to routes and leaves the others as they were.
LEMMA CloseFacts ==
    ASSUME NEW n, Close(n)
    PROVE  /\ Closed' = Closed \cup {n.vertex}
           /\ routes'[n.vertex] = n
           /\ \A v \in Closed : routes'[v] = routes[v]
<1>1. routes' = Put(routes, n.vertex, n) /\ n.vertex \notin Closed
    BY DEF Close
<1>2. /\ DOMAIN routes' = DOMAIN routes \cup {n.vertex}
      /\ routes'[n.vertex] = n
      /\ \A k \in DOMAIN routes : k # n.vertex => routes'[k] = routes[k]
    BY <1>1 DEF Put
<1> QED
    BY <1>1, <1>2 DEF Closed

-----------------------------------------------------------------------------
(* Type correctness.                                                        *)

\* What is pushed when a node is expanded: one node per face and open safe corner.
LEMMA ExpansionNodes ==
    ASSUME NEW n, NEW closed, NEW m
    PROVE  m \in Expansion(n, closed) <=>
               \E f \in Faces, v \in Vertices :
                   /\ {n.vertex, v} \subseteq f
                   /\ v \in safe /\ v \notin closed
                   /\ m = Pushed(n, f, v)
<1> DEFINE Around == {g \in Faces : n.vertex \in g}
           From(f) == {Pushed(n, f, v) : v \in OpenCorners(f, closed)}
<1>1. Expansion(n, closed) = UNION {From(f) : f \in Around}
    BY DEF Expansion
<1>2. m \in UNION {From(f) : f \in Around} <=> \E f \in Around : m \in From(f)
    OBVIOUS
<1>3. \A f : m \in From(f) <=> \E v \in (f \cap safe) \ closed : m = Pushed(n, f, v)
    BY DEF OpenCorners
<1> HIDE DEF From
<1> QED
    BY <1>1, <1>2, <1>3, MeshAssumption

LEMMA ExpansionType ==
    ASSUME NEW n \in Node, NEW closed, n.vertex \in Vertices, terrain \in Terrains
    PROVE  Expansion(n, closed) \subseteq Node
<1> SUFFICES ASSUME NEW m \in Expansion(n, closed)
             PROVE  m \in Node
    OBVIOUS
<1>1. PICK f \in Faces, v \in Vertices : m = Pushed(n, f, v)
    BY ExpansionNodes
<1>2. Plus(n.gCost, Calculate(terrain, f, n.vertex, v)) \in CostValue
    BY PlusType, CostAssumption DEF Node
<1> QED
    BY <1>1, <1>2 DEF Node, Pushed

\* A step of Route leaves every variable in its type: no node without a vertex
\* of the mesh reaches the queue or the map (Router.cpp:96, 139-146).
LEMMA TypeStep ==
    ASSUME TypeOK, [Next]_vars
    PROVE  TypeOK'
<1> USE DEF TypeOK, Ended, Exceptions, Undefined
<1>1. ASSUME NEW q \in Queries, Route(q[1], q[2])
      PROVE  TypeOK'
    <2>1. q[1] \in Vertices /\ q[2] \in Vertices
        BY <1>1, QueryAssumption DEF Route
    <2>2. StartNode(q[1]) \in Node
        BY <2>1 DEF StartNode, Node, CostValue
    <2> QED
        BY <1>1, <2>1, <2>2, CallsAssumption DEF Route, Callable, Closed, inputs
<1>2. ASSUME NEW q \in Queries, RouteOutside(q[1], q[2])
      PROVE  TypeOK'
    BY <1>2, QueryAssumption, CallsAssumption DEF RouteOutside, Callable, Closed, inputs
<1>3. CASE PopEmpty
    BY <1>3 DEF PopEmpty, Searching, Closed, inputs
<1>4. ASSUME NEW n \in queue, SkipBeaten(n)
      PROVE  TypeOK'
    BY <1>4 DEF SkipBeaten, Searching, Closed, inputs
<1>5. ASSUME NEW n \in queue, GiveUp(n)
      PROVE  TypeOK'
    BY <1>5 DEF GiveUp, Searching, Closed, inputs
<1>6. ASSUME NEW n \in queue, Close(n)
      PROVE  TypeOK'
    <2>1. n \in Node /\ n.vertex \in Vertices
        BY DEF Node
    <2>2. queue' \subseteq Node
        BY <1>6, <2>1, ExpansionType DEF Close
    <2>3. /\ Closed' \subseteq Vertices
          /\ \A v \in Closed' : routes'[v] \in Node /\ routes'[v].vertex = v
        BY <1>6, <2>1, CloseFacts
    <2> QED
        BY <1>6, <2>2, <2>3 DEF Close, Searching, inputs
<1>7. CASE Found
    BY <1>7 DEF Found, Closed, inputs
<1>8. CASE StepBack
    <2>1. routes[cursor].parent \in Closed => <<routes[cursor].parent>> \o route \in Seq(Vertices)
        OBVIOUS
    <2> QED
        BY <1>8, <2>1 DEF StepBack, Closed, inputs
<1>9. CASE Return
    BY <1>9 DEF Return, Closed, inputs
<1>10. CASE UNCHANGED vars
    BY <1>10 DEF vars, Closed
<1> QED
    BY <1>1, <1>2, <1>3, <1>4, <1>5, <1>6, <1>7, <1>8, <1>9, <1>10
    DEF Next, Ask, Pop, Fetch

LEMMA TypeInit ==
    ASSUME Init
    PROVE  TypeOK
BY CallsAssumption DEF Init, TypeOK, Closed

\* Type correctness of the search, for any number of calls on one Router.
THEOREM TypeCorrect ==
    Spec => []TypeOK
<1>1. Init => TypeOK
    BY TypeInit
<1>2. TypeOK /\ [Next]_vars => TypeOK'
    BY TypeStep
<1> QED
    BY <1>1, <1>2, PTL DEF Spec

-----------------------------------------------------------------------------
(* The tree of parents.  ParentsClosed is not inductive: a vertex is closed *)
(* by a node from the queue, so what it says of routes has to hold of the   *)
(* queue as well.                                                           *)

TreeInv ==
    /\ TypeOK
    /\ ParentsClosed
    /\ \A n \in queue : Hangs(n)

\* Routes only grow on a step that keeps the terrain, so what hangs stays so.
LEMMA HangsStable ==
    ASSUME Closed \subseteq Closed', \A v \in Closed : routes'[v] = routes[v],
           UNCHANGED inputs,
           NEW n, Hangs(n)
    PROVE  Hangs(n)'
BY DEF Hangs, inputs, StartNode

LEMMA TreeStep ==
    ASSUME TreeInv, [Next]_vars
    PROVE  TreeInv'
<1> USE DEF TreeInv
<1>1. TypeOK'
    BY TypeStep
<1>2. ASSUME UNCHANGED <<routes, inputs>>, queue' \subseteq queue
      PROVE  TreeInv'
    <2>1. \A n : Hangs(n) => Hangs(n)'
        BY <1>2, HangsStable DEF Closed
    <2> QED
        BY <1>1, <1>2, <2>1 DEF ParentsClosed, Closed
<1>3. ASSUME NEW q \in Queries, Route(q[1], q[2])
      PROVE  TreeInv'
    <2>1. \A n : Hangs(n) => Hangs(n)'
        BY <1>3, HangsStable DEF Route, Closed
    <2>2. Hangs(StartNode(q[1]))'
        BY DEF Hangs, StartNode
    <2> QED
        BY <1>1, <1>3, <2>1, <2>2 DEF Route, ParentsClosed, Closed
<1>4. ASSUME NEW n \in queue, Close(n)
      PROVE  TreeInv'
    <2>1. /\ Closed' = Closed \cup {n.vertex}
          /\ routes'[n.vertex] = n
          /\ \A v \in Closed : routes'[v] = routes[v]
        BY <1>4, CloseFacts
    <2>2. UNCHANGED inputs
        BY <1>4 DEF Close
    <2>3. \A m : Hangs(m) => Hangs(m)'
        BY <2>1, <2>2, HangsStable
    <2>4. ParentsClosed'
        BY <2>1, <2>3 DEF ParentsClosed
    <2>5. ASSUME NEW m \in Expansion(n, Closed \cup {n.vertex})
          PROVE  Hangs(m)'
        <3>1. PICK f \in Faces, v \in Vertices :
                 {n.vertex, v} \subseteq f /\ v \in safe /\ m = Pushed(n, f, v)
            BY ExpansionNodes
        <3> QED
            BY <2>1, <2>2, <3>1 DEF Hangs, Pushed, inputs
    <2>6. queue' \subseteq queue \cup Expansion(n, Closed \cup {n.vertex})
        BY <1>4 DEF Close
    <2> QED
        BY <1>1, <2>3, <2>4, <2>5, <2>6
<1>5. ASSUME NEW n \in queue, SkipBeaten(n) \/ GiveUp(n)
      PROVE  TreeInv'
    BY <1>2, <1>5 DEF SkipBeaten, GiveUp
<1>6. ASSUME NEW q \in Queries, RouteOutside(q[1], q[2])
      PROVE  TreeInv'
    BY <1>2, <1>6 DEF RouteOutside
<1>7. CASE PopEmpty \/ Found \/ StepBack \/ Return \/ UNCHANGED vars
    BY <1>2, <1>7 DEF PopEmpty, Found, StepBack, Return, vars, inputs
<1> QED
    BY <1>3, <1>4, <1>5, <1>6, <1>7 DEF Next, Ask, Pop, Fetch

\* Every closed vertex hangs from a closed, safe parent by a face of the mesh, for
\* any number of calls on one Router: fetchRoute's walk stays on the mesh.
THEOREM ParentsAreClosed == Spec => []ParentsClosed
<1>1. Init => TreeInv
    BY TypeInit DEF Init, TreeInv, ParentsClosed, Closed
<1>2. TreeInv /\ [Next]_vars => TreeInv'
    BY TreeStep
<1>3. TreeInv => ParentsClosed
    BY DEF TreeInv
<1> QED
    BY <1>1, <1>2, <1>3, PTL DEF Spec

-----------------------------------------------------------------------------
(* One call on a Router, and costs that are not negative: what tsr_run      *)
(* does with the time preset.  Neither ClosedAreBest nor FrontierComplete   *)
(* is inductive alone: that the skipped vertices are no loss rests on the   *)
(* order in which vertices are closed, and before the only call the router  *)
(* has to be empty.                                                         *)

NonNegativeCosts ==
    \A t \in Terrains, f \in Faces, u, v \in Vertices : Leq(0, Calculate(t, f, u, v))

CostInv ==
    /\ TypeOK
    /\ calls = 0 => Closed = {} /\ queue = {}
    /\ ClosedAreBest
    /\ FrontierComplete

\* The nodes pushed when n is expanded cost at least what n does.
LEMMA ExpansionCosts ==
    ASSUME NonNegativeCosts, TypeOK, NEW n \in Node, NEW closed,
           NEW m \in Expansion(n, closed)
    PROVE  m \in Node /\ Leq(n.gCost, m.gCost)
<1>0. n.vertex \in Vertices /\ n.gCost \in CostValue
    BY DEF Node
<1>1. m \in Node
    BY <1>0, ExpansionType DEF TypeOK
<1>2. PICK f \in Faces, v \in Vertices : m = Pushed(n, f, v)
    BY ExpansionNodes
<1> DEFINE c == Calculate(terrain, f, n.vertex, v)
<1>3. NotNegative(c)
    BY <1>0, CostAssumption DEF NotNegative, NonNegativeCosts, TypeOK
<1>4. m.gCost = Plus(n.gCost, c)
    BY <1>2 DEF Pushed
<1> QED
    BY <1>0, <1>1, <1>3, <1>4, PlusGrows

LEMMA ClosingIsBest ==
    ASSUME NonNegativeCosts, CostInv, NEW n \in queue, Close(n)
    PROVE  ClosedAreBest'
<1>1. /\ Closed' = Closed \cup {n.vertex}
      /\ routes'[n.vertex] = n
      /\ \A v \in Closed : routes'[v] = routes[v]
    BY CloseFacts
<1>2. n \in Node /\ n.gCost \in CostValue
    BY DEF CostInv, TypeOK, Node
<1>3. \A m \in queue' : m \in Node /\ Leq(n.gCost, m.gCost)
    <2>1. \A m \in queue : m \in Node /\ Leq(n.gCost, m.gCost)
        BY DEF Close, Cheapest, CostInv, TypeOK
    <2>2. \A m \in Expansion(n, Closed \cup {n.vertex}) : m \in Node /\ Leq(n.gCost, m.gCost)
        BY <1>2, ExpansionCosts DEF CostInv
    <2>3. queue' \subseteq queue \cup Expansion(n, Closed \cup {n.vertex})
        BY DEF Close
    <2> QED
        BY <2>1, <2>2, <2>3
<1>4. \A v \in Closed :
         /\ routes[v].gCost \in CostValue /\ routes[v].gCost # Inf
         /\ Leq(routes[v].gCost, n.gCost)
    BY DEF CostInv, ClosedAreBest, TypeOK, Node
<1>5. \A m \in queue' : m.gCost \in CostValue
    BY <1>3 DEF Node
<1>6. \A v \in Closed, m \in queue' : Leq(routes[v].gCost, m.gCost)
    BY <1>2, <1>3, <1>4, <1>5, LeqTransitive
<1>7. n.gCost # Inf
    BY DEF Close
<1> QED
    BY <1>1, <1>3, <1>4, <1>6, <1>7 DEF ClosedAreBest

\* Closing n covers every edge from a closed vertex to a safe one: an edge to n is
\* covered by n being the cheapest, one from n by the nodes pushed or, to a closed
\* vertex, by the order of closing; any other keeps the node that covered it.
LEMMA ClosingCovers ==
    ASSUME NonNegativeCosts, CostInv, NEW n \in queue, Close(n),
           pc' \in {"searching", "fetching", "returned"} \cup Undefined,
           NEW u \in Closed', NEW v \in safe, NEW f \in Faces, {u, v} \subseteq f
    PROVE  Covered(u, v, f)'
<1>1. /\ Closed' = Closed \cup {n.vertex}
      /\ routes'[n.vertex] = n
      /\ \A w \in Closed : routes'[w] = routes[w]
      /\ n.vertex \notin Closed
    BY CloseFacts DEF Close
<1>2. /\ queue' = (queue \ {n}) \cup Expansion(n, Closed \cup {n.vertex})
      /\ terrain' = terrain
      /\ pc = "searching"
    BY DEF Close, Undefined, Searching, inputs
<1>3. /\ n \in Node /\ n.gCost \in CostValue /\ n.vertex \in Vertices
      /\ u \in Vertices /\ v \in Vertices
      /\ terrain \in Terrains
    BY MeshAssumption DEF CostInv, TypeOK, Node
<1> DEFINE c == Calculate(terrain, f, u, v)
<1>4. NotNegative(c)
    BY <1>3, CostAssumption DEF NotNegative, NonNegativeCosts
<1>5. \A m \in queue : m.gCost \in CostValue /\ Leq(n.gCost, m.gCost)
    BY DEF Close, Cheapest, CostInv, TypeOK, Node
<1>6. \A w \in Closed : routes[w].gCost \in CostValue /\ Leq(routes[w].gCost, n.gCost)
    BY DEF CostInv, ClosedAreBest, TypeOK, Node
<1> HIDE DEF c
<1>7. CASE u = n.vertex
    <2>1. Plus(n.gCost, c) \in CostValue /\ Leq(n.gCost, Plus(n.gCost, c))
        BY <1>3, <1>4, PlusType, PlusGrows DEF NotNegative
    <2>2. CASE v \in Closed
        <3>1. Leq(routes[v].gCost, Plus(n.gCost, c))
            BY <1>3, <1>6, <2>1, <2>2, LeqTransitive
        <3> QED
            BY <1>1, <1>2, <1>7, <2>2, <3>1 DEF Covered, c
    <2>3. CASE v = n.vertex
        BY <1>1, <1>2, <1>7, <2>1, <2>3 DEF Covered, c
    <2>4. CASE v \notin Closed \cup {n.vertex}
        <3>1. Pushed(n, f, v) \in Expansion(n, Closed \cup {n.vertex})
            BY <1>3, <1>7, <2>4, ExpansionNodes
        <3>2. Pushed(n, f, v).vertex = v /\ Pushed(n, f, v).gCost = Plus(n.gCost, c)
            BY <1>7 DEF Pushed, c
        <3>3. Leq(Pushed(n, f, v).gCost, Plus(n.gCost, c))
            BY <2>1, <3>2, LeqReflexive
        <3> QED
            BY <1>1, <1>2, <1>7, <2>4, <3>1, <3>2, <3>3 DEF Covered, c
    <2> QED
        BY <2>2, <2>3, <2>4
<1>8. CASE u \in Closed
    <2>1. Covered(u, v, f)
        BY <1>2, <1>8 DEF CostInv, FrontierComplete
    <2> DEFINE through == Plus(routes[u].gCost, c)
    <2>2. through \in CostValue
        BY <1>4, <1>6, <1>8, PlusType DEF NotNegative
    <2>3. CASE v \in Closed
        BY <1>1, <1>2, <1>8, <2>1, <2>3 DEF Covered
    <2>4. CASE v \notin Closed
        <3>1. PICK m \in queue : m.vertex = v /\ Leq(m.gCost, through)
            BY <2>1, <2>4 DEF Covered, c
        <3>2. CASE v = n.vertex
            <4>1. Leq(n.gCost, through)
                BY <1>3, <1>5, <2>2, <3>1, LeqTransitive
            <4> QED
                BY <1>1, <1>2, <1>8, <3>2, <4>1 DEF Covered, c
        <3>3. CASE v # n.vertex
            <4>1. m \in queue'
                BY <1>2, <3>1, <3>3
            <4> QED
                BY <1>1, <1>2, <1>8, <2>4, <3>1, <3>3, <4>1 DEF Covered, c
        <3> QED
            BY <3>2, <3>3
    <2> QED
        BY <2>3, <2>4
<1> QED
    BY <1>1, <1>7, <1>8

LEMMA CostStep ==
    ASSUME NonNegativeCosts, MaxCalls = 1, CostInv, [Next]_vars
    PROVE  CostInv'
<1> USE DEF CostInv
<1>1. TypeOK'
    BY TypeStep
\* Steps that leave routes and queue alone.
<1>2. ASSUME UNCHANGED <<routes, queue, inputs>>,
             calls' = 0 => calls = 0,
             pc' \in {"searching", "fetching", "returned"} \cup Undefined =>
                 pc \in {"searching", "fetching", "returned"} \cup Undefined
      PROVE  CostInv'
    <2>1. \A u, v, f : Covered(u, v, f) => Covered(u, v, f)'
        BY <1>2 DEF Covered, Closed, inputs
    <2>2. FrontierComplete'
        BY <1>2, <2>1 DEF FrontierComplete, Closed, Undefined, inputs
    <2> QED
        BY <1>1, <1>2, <2>2 DEF ClosedAreBest, Closed
\* Before the only call nothing is closed.
<1>3. ASSUME NEW q \in Queries, Route(q[1], q[2])
      PROVE  CostInv'
    <2>1. calls = 0 /\ Closed = {}
        BY <1>3 DEF Route, Callable, TypeOK
    <2>2. Closed' = {} /\ calls' # 0
        BY <1>3, <2>1 DEF Route, Closed
    <2> QED
        BY <1>1, <2>2 DEF ClosedAreBest, FrontierComplete
<1>4. ASSUME NEW q \in Queries, RouteOutside(q[1], q[2])
      PROVE  CostInv'
    <2>1. pc' = "outside_mesh" /\ calls' # 0 /\ UNCHANGED <<routes, queue, inputs>>
        BY <1>4 DEF RouteOutside, Callable, TypeOK, inputs
    <2> QED
        BY <1>2, <2>1 DEF Undefined
<1>5. ASSUME NEW n \in queue, SkipBeaten(n)
      PROVE  CostInv'
    <2>1. /\ n.vertex \in Closed /\ queue' = queue \ {n}
          /\ UNCHANGED <<pc, calls, routes, inputs>>
        BY <1>5 DEF SkipBeaten
    <2>2. \A u, v, f : Covered(u, v, f) => Covered(u, v, f)'
        BY <2>1 DEF Covered, Closed, inputs
    <2>3. FrontierComplete'
        BY <2>1, <2>2 DEF FrontierComplete, Closed, inputs
    <2> QED
        BY <1>1, <2>1, <2>3 DEF ClosedAreBest, Closed
<1>6. ASSUME NEW n \in queue, GiveUp(n)
      PROVE  CostInv'
    <2>1. /\ pc' = "no_safe_path" /\ queue' = queue \ {n}
          /\ UNCHANGED <<calls, routes, inputs>>
        BY <1>6 DEF GiveUp
    <2> QED
        BY <1>1, <2>1 DEF ClosedAreBest, FrontierComplete, Closed, Undefined
<1>7. ASSUME NEW n \in queue, Close(n)
      PROVE  CostInv'
    <2>1. FrontierComplete'
        BY <1>7, ClosingCovers DEF FrontierComplete, Close, inputs
    <2>2. calls' # 0
        BY <1>7 DEF Close
    <2> QED
        BY <1>1, <1>7, <2>1, <2>2, ClosingIsBest
<1>8. CASE PopEmpty
    BY <1>2, <1>8 DEF PopEmpty, Searching, Undefined, inputs
<1>9. CASE Found \/ StepBack \/ Return
    BY <1>2, <1>9 DEF Found, StepBack, Return, Undefined, inputs
<1>10. CASE UNCHANGED vars
    BY <1>2, <1>10 DEF vars, inputs
<1> QED
    BY <1>3, <1>4, <1>5, <1>6, <1>7, <1>8, <1>9, <1>10 DEF Next, Ask, Pop, Fetch

LEMMA CostInvariant ==
    NonNegativeCosts /\ MaxCalls = 1 => (Spec => []CostInv)
<1> SUFFICES ASSUME NonNegativeCosts, MaxCalls = 1
             PROVE  Spec => []CostInv
    OBVIOUS
<1>1. Init => CostInv
    BY TypeInit DEF Init, CostInv, ClosedAreBest, FrontierComplete, Closed
<1>2. CostInv /\ [Next]_vars => CostInv'
    BY CostStep
<1> QED
    BY <1>1, <1>2, PTL DEF Spec

\* No closed vertex cost infinity, and none is ever beaten by a waiting node
\* (Router.cpp:83-93), whatever the mesh and the costs that are not negative.
THEOREM ClosedStayBest ==
    NonNegativeCosts /\ MaxCalls = 1 => (Spec => []ClosedAreBest)
<1>1. CostInv => ClosedAreBest
    BY DEF CostInv
<1> QED
    BY <1>1, CostInvariant, PTL

\* Lazy deletion and the skipped vertices lose no better route (Router.cpp:128-146).
THEOREM FrontierStaysComplete ==
    NonNegativeCosts /\ MaxCalls = 1 => (Spec => []FrontierComplete)
<1>1. CostInv => FrontierComplete
    BY DEF CostInv
<1> QED
    BY <1>1, CostInvariant, PTL

\* Vertices are closed in the order of their costs (Router.cpp:80-96).
THEOREM ClosesInCostOrder ==
    NonNegativeCosts /\ MaxCalls = 1 => (Spec => ClosedInCostOrder)
<1>1. ASSUME CostInv, [Next]_vars
      PROVE  [\A v \in Closed, w \in Closed' \ Closed : Leq(routes[v].gCost, routes'[w].gCost)]_vars
    <2>1. ASSUME NEW n \in queue, Close(n)
          PROVE  \A v \in Closed, w \in Closed' \ Closed : Leq(routes[v].gCost, routes'[w].gCost)
        <3>1. Closed' = Closed \cup {n.vertex} /\ routes'[n.vertex] = n
            BY <2>1, CloseFacts
        <3> QED
            BY <1>1, <3>1 DEF CostInv, ClosedAreBest
    <2>2. ASSUME ~ \E n \in queue : Close(n)
          PROVE  Closed' = Closed
        BY <1>1, <2>2
        DEF Next, Ask, Pop, Fetch, Route, RouteOutside, SkipBeaten, GiveUp, PopEmpty,
            Found, StepBack, Return, vars, Closed
    <2> QED
        BY <2>1, <2>2
<1> QED
    BY <1>1, CostInvariant, PTL DEF Spec, ClosedInCostOrder

-----------------------------------------------------------------------------
(* The search is right: distances, and the contract of RouteSpec.           *)

N == Cardinality(Vertices)

\* RouteSpec's operators, with the terrain and the safe vertices as parameters.
Edge(sf, u, v)     == v \in sf /\ u # v /\ \E f \in Faces : {u, v} \subseteq f
EdgeCosts(t, u, v) == {Calculate(t, f, u, v) : f \in {g \in Faces : {u, v} \subseteq g}}
EdgeCost(t, u, v)  == Answers!Least(EdgeCosts(t, u, v))
Further(t, sf, T) ==
    UNION {{<<v, Plus(p[2], EdgeCost(t, p[1], v))>> : v \in {x \in Vertices : Edge(sf, p[1], x)}}
               : p \in T}
Minimal(T) == {p \in T : \A q \in T : q[1] = p[1] => Leq(p[2], q[2])}
Table(t, sf, s) ==
    CHOOSE d : d = [k \in 0 .. Cardinality(Vertices) - 1 |->
        IF k = 0 THEN {<<s, 0>>}
        ELSE LET prev == d[k - 1]
                 far  == UNION {{<<v, Plus(p[2], EdgeCost(t, p[1], v))>> :
                                   v \in {x \in Vertices : Edge(sf, p[1], x)}} : p \in prev}
             IN  {p \in prev \cup far : \A q \in prev \cup far : q[1] = p[1] => Leq(p[2], q[2])}]

LEMMA SameCardinality ==
    Answers!Cardinality(Vertices) = Cardinality(Vertices)
BY DEF Answers!Cardinality, Cardinality

LEMMA Unfolded ==
    \A s : Answers!Distances(s) = Table(terrain, safe, s)[Cardinality(Vertices) - 1]
BY SameCardinality
DEF Answers!Distances, Answers!Edge, Answers!EdgeCost, Answers!Plus, Answers!Leq,
    Table, Edge, EdgeCost, EdgeCosts, Plus, Leq

-----------------------------------------------------------------------------
(* The order of costs, and the cheapest face of an edge.                    *)

LEMMA LeqAntisymmetric ==
    ASSUME NEW a \in CostValue, NEW b \in CostValue, Leq(a, b), Leq(b, a)
    PROVE  a = b
BY InfAssumption DEF Leq, CostValue

LEMMA PlusMonotonic ==
    ASSUME NEW a \in CostValue, NEW b \in CostValue, NEW c \in CostValue, NEW d \in CostValue,
           Leq(a, b), Leq(c, d)
    PROVE  Leq(Plus(a, c), Plus(b, d))
BY InfAssumption DEF Leq, Plus, CostValue

LEMMA LeastIsLeast ==
    ASSUME NEW S, S # {}, \A c \in S : NotNegative(c)
    PROVE  Answers!Least(S) \in S /\ \A c \in S : Leq(Answers!Least(S), c)
<1>1. CASE S \subseteq {Inf}
    BY <1>1, LeqReflexive DEF Answers!Least, NotNegative
<1>2. CASE ~(S \subseteq {Inf})
    <2> DEFINE R == S \ {Inf}
    <2>1. R \subseteq Nat /\ R # {}
        BY <1>2, InfAssumption DEF NotNegative, CostValue, Leq
    <2>2. \E x \in R : \A y \in R : x <= y
        BY <2>1, LeastNatural
    <2>3. Answers!Min(R) \in R /\ \A y \in R : Answers!Min(R) <= y
        BY <2>2 DEF Answers!Min
    <2>4. Answers!Least(S) = Answers!Min(R)
        BY <1>2 DEF Answers!Least
    <2>5. \A c \in S : Leq(Answers!Min(R), c)
        BY <2>1, <2>3, InfAssumption DEF Leq
    <2> QED
        BY <2>3, <2>4, <2>5
<1> QED
    BY <1>1, <1>2

LEMMA CheapestFace ==
    ASSUME NonNegativeCosts, NEW t \in Terrains, NEW sf, NEW u \in Vertices, NEW v \in Vertices,
           Edge(sf, u, v)
    PROVE  /\ NotNegative(EdgeCost(t, u, v))
           /\ \E f \in Faces : {u, v} \subseteq f /\ EdgeCost(t, u, v) = Calculate(t, f, u, v)
           /\ \A f \in Faces :
                 {u, v} \subseteq f => Leq(EdgeCost(t, u, v), Calculate(t, f, u, v))
<1> DEFINE S == EdgeCosts(t, u, v)
<1>1. \A c \in S : NotNegative(c)
    BY CostAssumption DEF EdgeCosts, NotNegative, NonNegativeCosts
<1>2. S # {}
    BY DEF EdgeCosts, Edge
<1>3. EdgeCost(t, u, v) \in S /\ \A c \in S : Leq(EdgeCost(t, u, v), c)
    BY <1>1, <1>2, LeastIsLeast DEF EdgeCost
<1> QED
    BY <1>1, <1>3 DEF EdgeCosts

-----------------------------------------------------------------------------
(* The table.                                                               *)

Rows == SUBSET (Vertices \X CostValue)

LEMMA InFurther ==
    ASSUME NEW t, NEW sf, NEW T, NEW q
    PROVE  q \in Further(t, sf, T) <=>
               \E p \in T, v \in Vertices :
                   Edge(sf, p[1], v) /\ q = <<v, Plus(p[2], EdgeCost(t, p[1], v))>>
BY DEF Further

LEMMA FurtherType ==
    ASSUME NonNegativeCosts, NEW t \in Terrains, NEW sf, NEW T \in Rows
    PROVE  Further(t, sf, T) \in Rows
<1> SUFFICES ASSUME NEW q \in Further(t, sf, T)
             PROVE  q \in Vertices \X CostValue
    BY DEF Rows
<1>1. PICK p \in T, v \in Vertices :
          Edge(sf, p[1], v) /\ q = <<v, Plus(p[2], EdgeCost(t, p[1], v))>>
    BY InFurther
<1>2. p[1] \in Vertices /\ p[2] \in CostValue
    BY DEF Rows
<1>3. EdgeCost(t, p[1], v) \in CostValue
    BY <1>1, <1>2, CheapestFace DEF NotNegative
<1>4. Plus(p[2], EdgeCost(t, p[1], v)) \in CostValue
    BY <1>2, <1>3, PlusType
<1> QED
    BY <1>1, <1>4

LEMMA TableRows ==
    ASSUME NonNegativeCosts, NEW t \in Terrains, NEW sf, NEW s \in Vertices
    PROVE  /\ N \in Nat \ {0}
           /\ Table(t, sf, s)[0] = {<<s, 0>>}
           /\ \A k \in 1 .. N - 1 :
                 LET T == Table(t, sf, s)[k - 1] IN
                 Table(t, sf, s)[k] = Minimal(T \cup Further(t, sf, T))
           /\ \A k \in 0 .. N - 1 : Table(t, sf, s)[k] \in Rows
<1> DEFINE Next_(T) == Minimal(T \cup Further(t, sf, T))
           G == [T \in Rows |-> Next_(T)]
           First == {<<s, 0>>}
           K == N - 1
<1>1. N \in Nat \ {0}
    BY MeshAssumption, FS_CardinalityType, FS_EmptySet DEF N
<1>2. \A T \in Rows : Next_(T) \in Rows
    <2> SUFFICES ASSUME NEW T \in Rows
                 PROVE  Next_(T) \in Rows
        OBVIOUS
    <2>1. Further(t, sf, T) \in Rows
        BY FurtherType
    <2> QED
        BY <2>1 DEF Minimal, Rows
<1>3. K \in Nat /\ First \in Rows /\ G \in [Rows -> Rows]
    BY <1>1, <1>2 DEF Rows, CostValue
<1>4. \E r \in [0 .. K -> Rows] : r[0] = First /\ \A k \in 1 .. K : r[k] = G[r[k - 1]]
    <2> HIDE DEF K, First, G
    <2> QED
        BY <1>3, Iterates, SMTT(60)
<1>5. PICK r \in [0 .. K -> Rows] : r[0] = First /\ \A k \in 1 .. K : r[k] = G[r[k - 1]]
    BY <1>4
<1>6. ASSUME NEW k \in 1 .. K
      PROVE  r[k] = Next_(r[k - 1])
    <2>1. k - 1 \in 0 .. K
        BY <1>1
    <2>2. r[k - 1] \in Rows
        BY <2>1
    <2> QED
        BY <1>5, <2>2
<1> DEFINE Body(d, k) ==
               IF k = 0 THEN {<<s, 0>>}
               ELSE LET prev == d[k - 1]
                        far  == UNION {{<<v, Plus(p[2], EdgeCost(t, p[1], v))>> :
                                          v \in {x \in Vertices : Edge(sf, p[1], x)}} : p \in prev}
                    IN  {p \in prev \cup far :
                            \A q \in prev \cup far : q[1] = p[1] => Leq(p[2], q[2])}
<1>7. \A d, k : Body(d, k) = IF k = 0 THEN First ELSE Next_(d[k - 1])
    BY DEF Minimal, Further
<1>8. Table(t, sf, s) = CHOOSE d : d = [k \in 0 .. N - 1 |-> Body(d, k)]
    BY DEF Table, N
<1> HIDE DEF Body, Next_, First, G
<1>9. r = [k \in 0 .. N - 1 |-> Body(r, k)]
    <2>1. ASSUME NEW k \in 0 .. N - 1
          PROVE  r[k] = Body(r, k)
        <3>1. CASE k = 0
            BY <1>5, <1>7, <3>1
        <3>2. CASE k # 0
            <4>1. k \in 1 .. K
                BY <1>1, <3>2
            <4> QED
                BY <1>6, <1>7, <3>2, <4>1
        <3> QED
            BY <3>1, <3>2
    <2> QED
        BY <2>1
<1> DEFINE d == Table(t, sf, s)
<1>10. d = [k \in 0 .. N - 1 |-> Body(d, k)]
    BY <1>8, <1>9
<1> HIDE DEF d
<1>11. d[0] = First /\ \A k \in 1 .. K : d[k] = Next_(d[k - 1])
    <2>1. ASSUME NEW k \in 0 .. N - 1
          PROVE  d[k] = Body(d, k)
        BY <1>10
    <2>2. d[0] = First
        <3>1. 0 \in 0 .. N - 1
            BY <1>1
        <3> QED
            BY <1>7, <2>1, <3>1
    <2>3. ASSUME NEW k \in 1 .. K
          PROVE  d[k] = Next_(d[k - 1])
        <3>1. k \in 0 .. N - 1 /\ k # 0
            BY <1>1
        <3> QED
            BY <1>7, <2>1, <3>1
    <2> QED
        BY <2>2, <2>3
<1>12. \A k \in 0 .. K : d[k] \in Rows
    <2> DEFINE S == {k \in Nat : k \in 0 .. K => d[k] \in Rows}
    <2>1. 0 \in S
        BY <1>3, <1>11
    <2>2. ASSUME NEW k \in Nat, k \in S
          PROVE  k + 1 \in S
        <3> SUFFICES ASSUME k + 1 \in 0 .. K
                     PROVE  d[k + 1] \in Rows
            OBVIOUS
        <3>1. d[k] \in Rows /\ k + 1 \in 1 .. K /\ (k + 1) - 1 = k
            BY <1>3, <2>2
        <3> QED
            BY <1>2, <1>11, <3>1
    <2> HIDE DEF S
    <2>3. Nat \subseteq S
        BY <2>1, <2>2, Induct
    <2> QED
        BY <2>3, <1>3 DEF S
<1> QED
    BY <1>1, <1>11, <1>12 DEF d, First, Next_

-----------------------------------------------------------------------------
(* While a search runs, no way the table knows of is cheaper than what is   *)
(* closed or waiting.                                                       *)

\* The start waits in the queue or was closed at no cost; every other node in the
\* queue was pushed along a face.
StartInv ==
    pc = "searching" =>
        /\ start \in Vertices
        /\ IF start \in Closed THEN Leq(routes[start].gCost, 0)
                               ELSE StartNode(start) \in queue
        /\ \A n \in queue : n = StartNode(start) \/ (n.face \in Faces /\ n.parent \in Vertices)

\* Going to v at cost c is no better than v's closing node or, while v is open,
\* than some node that waits.
Bounded(v, c) ==
    IF v \in Closed THEN Leq(routes[v].gCost, c)
                    ELSE \E n \in queue : Leq(n.gCost, c)

LEMMA FurtherIsBounded ==
    ASSUME NonNegativeCosts, CostInv, pc = "searching",
           NEW T \in Rows, \A p \in T : Bounded(p[1], p[2]),
           NEW q \in Further(terrain, safe, T)
    PROVE  Bounded(q[1], q[2])
<1>1. PICK p \in T, v \in Vertices :
          /\ Edge(safe, p[1], v)
          /\ q = <<v, Plus(p[2], EdgeCost(terrain, p[1], v))>>
    BY InFurther
<1> DEFINE u == p[1]
           c == EdgeCost(terrain, u, v)
<1>2. u \in Vertices /\ p[2] \in CostValue /\ terrain \in Terrains
    BY DEF Rows, CostInv, TypeOK
<1>3. NotNegative(c) /\ \E f \in Faces : {u, v} \subseteq f /\ c = Calculate(terrain, f, u, v)
    BY <1>1, <1>2, CheapestFace
<1>4. PICK f \in Faces : {u, v} \subseteq f /\ c = Calculate(terrain, f, u, v)
    BY <1>3
<1> HIDE DEF c
<1>5. c \in CostValue /\ Plus(p[2], c) \in CostValue /\ Leq(p[2], Plus(p[2], c))
    BY <1>2, <1>3, PlusType, PlusGrows DEF NotNegative
<1>6. q[1] = v /\ q[2] = Plus(p[2], c)
    BY <1>1 DEF c
<1>7. /\ \A w \in Closed : routes[w].gCost \in CostValue
      /\ \A n \in queue : n.gCost \in CostValue
    BY DEF CostInv, TypeOK, Node
<1>8. CASE u \in Closed
    <2> DEFINE through == Plus(routes[u].gCost, c)
    <2>1. v \in safe /\ Covered(u, v, f)
        BY <1>1, <1>4, <1>8 DEF CostInv, FrontierComplete, Edge
    <2>2. through \in CostValue
        BY <1>5, <1>7, <1>8, PlusType
    <2>3. Leq(routes[u].gCost, p[2])
        BY <1>8 DEF Bounded
    <2>4. Leq(through, Plus(p[2], c))
        BY <1>2, <1>5, <1>7, <1>8, <2>3, PlusMonotonic, LeqReflexive
    <2>5. CASE v \in Closed
        <3>1. Leq(routes[v].gCost, through)
            BY <1>4, <2>1, <2>5 DEF Covered
        <3>2. Leq(routes[v].gCost, Plus(p[2], c))
            BY <1>5, <1>7, <2>2, <2>4, <2>5, <3>1, LeqTransitive
        <3> QED
            BY <1>6, <2>5, <3>2 DEF Bounded
    <2>6. CASE v \notin Closed
        <3>1. PICK n \in queue : Leq(n.gCost, through)
            BY <1>4, <2>1, <2>6 DEF Covered
        <3>2. Leq(n.gCost, Plus(p[2], c))
            BY <1>5, <1>7, <2>2, <2>4, <3>1, LeqTransitive
        <3> QED
            BY <1>6, <2>6, <3>2 DEF Bounded
    <2> QED
        BY <2>5, <2>6
<1>9. CASE u \notin Closed
    <2>1. PICK n \in queue : Leq(n.gCost, p[2])
        BY <1>9 DEF Bounded
    <2>2. n.gCost \in CostValue /\ Leq(n.gCost, Plus(p[2], c))
        BY <1>2, <1>5, <1>7, <2>1, LeqTransitive
    <2>3. CASE v \in Closed
        <3>1. Leq(routes[v].gCost, n.gCost)
            BY <2>3 DEF CostInv, ClosedAreBest
        <3>2. Leq(routes[v].gCost, Plus(p[2], c))
            BY <1>5, <1>7, <2>2, <2>3, <3>1, LeqTransitive
        <3> QED
            BY <1>6, <2>3, <3>2 DEF Bounded
    <2> QED
        BY <1>6, <2>2, <2>3 DEF Bounded
<1> QED
    BY <1>8, <1>9

LEMMA TableIsBounded ==
    ASSUME NonNegativeCosts, CostInv, StartInv, pc = "searching"
    PROVE  \A k \in 0 .. N - 1 :
               LET T == Table(terrain, safe, start)[k] IN
               \A p \in T \cup Further(terrain, safe, T) : Bounded(p[1], p[2])
<1> DEFINE d == Table(terrain, safe, start)
           S == {k \in Nat : k \in 0 .. N - 1 => \A p \in d[k] : Bounded(p[1], p[2])}
<1>1. start \in Vertices /\ terrain \in Terrains
    BY DEF StartInv, CostInv, TypeOK
<1>2. /\ N \in Nat \ {0}
      /\ d[0] = {<<start, 0>>}
      /\ \A k \in 1 .. N - 1 : d[k] = Minimal(d[k - 1] \cup Further(terrain, safe, d[k - 1]))
      /\ \A k \in 0 .. N - 1 : d[k] \in Rows
    BY <1>1, TableRows
<1> HIDE DEF d
<1>3. 0 \in S
    <2>1. Bounded(start, 0)
        <3>1. CASE start \in Closed
            BY <3>1 DEF StartInv, Bounded
        <3>2. CASE start \notin Closed
            <4>1. StartNode(start) \in queue /\ StartNode(start).gCost = 0
                BY <3>2 DEF StartInv, StartNode
            <4>2. Leq(0, 0)
                BY LeqReflexive DEF CostValue
            <4> QED
                BY <3>2, <4>1, <4>2 DEF Bounded
        <3> QED
            BY <3>1, <3>2
    <2>2. \A p \in d[0] : p[1] = start /\ p[2] = 0
        BY <1>2
    <2> QED
        BY <2>1, <2>2
<1>4. ASSUME NEW k \in Nat, k \in S
      PROVE  k + 1 \in S
    <2> SUFFICES ASSUME k + 1 \in 0 .. N - 1, NEW p \in d[k + 1]
                 PROVE  Bounded(p[1], p[2])
        OBVIOUS
    <2>1. k \in 0 .. N - 1 /\ k + 1 \in 1 .. N - 1 /\ (k + 1) - 1 = k
        BY <1>2
    <2>2. d[k] \in Rows /\ \A q \in d[k] : Bounded(q[1], q[2])
        BY <1>2, <1>4, <2>1
    <2>3. d[k + 1] = Minimal(d[k] \cup Further(terrain, safe, d[k]))
        BY <1>2, <2>1
    <2>4. p \in d[k] \/ p \in Further(terrain, safe, d[k])
        BY <2>3 DEF Minimal
    <2> QED
        BY <2>2, <2>4, FurtherIsBounded
<1> HIDE DEF S
<1>5. Nat \subseteq S
    BY <1>3, <1>4, Induct
<1>6. ASSUME NEW k \in 0 .. N - 1, NEW p \in d[k] \cup Further(terrain, safe, d[k])
      PROVE  Bounded(p[1], p[2])
    <2>1. d[k] \in Rows /\ \A q \in d[k] : Bounded(q[1], q[2])
        BY <1>2, <1>5, <1>6 DEF S
    <2> QED
        BY <2>1, FurtherIsBounded
<1> QED
    BY <1>6 DEF d

-----------------------------------------------------------------------------
(* Closed costs are distances.  What is inductive says how long the best    *)
(* way to a closed vertex is: with so many vertices closed, so many rows of *)
(* the table suffice.                                                       *)

DistInv ==
    \A v \in Closed, k \in 0 .. N - 1 :
        k + 1 >= Cardinality(Closed)
            => <<v, routes[v].gCost>> \in Table(terrain, safe, start)[k]

\* The popped node's cost is in every row after as many as are closed.
LEMMA ClosingIsInTable ==
    ASSUME NonNegativeCosts, TreeInv, CostInv, StartInv, DistInv,
           NEW n \in queue, Close(n),
           NEW k \in 0 .. N - 1, k >= Cardinality(Closed)
    PROVE  <<n.vertex, n.gCost>> \in Table(terrain, safe, start)[k]
<1> DEFINE d == Table(terrain, safe, start)
           Wide(j) == d[j] \cup Further(terrain, safe, d[j])
           v == n.vertex
<1>1. /\ pc = "searching" /\ v \notin Closed
      /\ \A m \in queue : m.gCost \in CostValue /\ Leq(n.gCost, m.gCost)
      /\ start \in Vertices /\ terrain \in Terrains
      /\ n \in Node /\ v \in Vertices /\ n.gCost \in CostValue
    BY DEF Close, Searching, Cheapest, StartInv, CostInv, TypeOK, Node
<1>2. /\ N \in Nat \ {0}
      /\ d[0] = {<<start, 0>>}
      /\ \A j \in 1 .. N - 1 : d[j] = Minimal(Wide(j - 1))
      /\ \A j \in 0 .. N - 1 : d[j] \in Rows
    BY <1>1, TableRows
<1>3. ASSUME NEW j \in 0 .. N - 1
      PROVE  \A p \in Wide(j) : p[1] \in Vertices /\ p[2] \in CostValue /\ Bounded(p[1], p[2])
    <2>1. d[j] \in Rows /\ Further(terrain, safe, d[j]) \in Rows
        BY <1>1, <1>2, FurtherType
    <2>2. \A p \in Wide(j) : Bounded(p[1], p[2])
        BY <1>1, TableIsBounded
    <2> QED
        BY <2>1, <2>2 DEF Rows
<1> HIDE DEF d
\* No way the table knows to v is cheaper.
<1>4. ASSUME NEW j \in 0 .. N - 1, NEW p \in Wide(j), p[1] = v
      PROVE  p[2] \in CostValue /\ Leq(n.gCost, p[2])
    <2>1. p[2] \in CostValue /\ \E m \in queue : Leq(m.gCost, p[2])
        BY <1>1, <1>3, <1>4 DEF Bounded
    <2> QED
        BY <1>1, <2>1, LeqTransitive
<1>5. ASSUME NEW j \in 1 .. N - 1, <<v, n.gCost>> \in Wide(j - 1)
      PROVE  <<v, n.gCost>> \in d[j]
    <2>1. j - 1 \in 0 .. N - 1
        BY <1>2
    <2>2. \A p \in Wide(j - 1) : p[1] = v => Leq(n.gCost, p[2])
        BY <1>4, <2>1
    <2>3. <<v, n.gCost>>[1] = v /\ <<v, n.gCost>>[2] = n.gCost
        OBVIOUS
    <2> HIDE DEF Wide
    <2> QED
        BY <1>2, <1>5, <2>2, <2>3 DEF Minimal
<1>6. CASE n = StartNode(start)
    <2>1. v = start /\ n.gCost = 0
        BY <1>6 DEF StartNode
    <2> DEFINE S == {j \in Nat : j \in 0 .. N - 1 => <<v, n.gCost>> \in d[j]}
    <2>2. 0 \in S
        BY <1>2, <2>1
    <2>3. ASSUME NEW j \in Nat, j \in S
          PROVE  j + 1 \in S
        <3> SUFFICES ASSUME j + 1 \in 0 .. N - 1
                     PROVE  <<v, n.gCost>> \in d[j + 1]
            OBVIOUS
        <3>1. j \in 0 .. N - 1 /\ j + 1 \in 1 .. N - 1 /\ (j + 1) - 1 = j
            BY <1>2
        <3>2. <<v, n.gCost>> \in Wide(j)
            BY <2>3, <3>1
        <3> QED
            BY <1>5, <3>1, <3>2
    <2> HIDE DEF S
    <2>4. Nat \subseteq S
        BY <2>2, <2>3, Induct
    <2> QED
        BY <2>4 DEF S, d
<1>7. CASE n # StartNode(start)
    <2> DEFINE u == n.parent
               c == Calculate(terrain, n.face, u, v)
               e == EdgeCost(terrain, u, v)
    <2>1. n.face \in Faces /\ u \in Vertices
        BY <1>1, <1>7 DEF StartInv
    <2>2. n # StartNode(v)
        BY <2>1, NilAssumption DEF StartNode
    <2>3. /\ u \in Closed /\ {v, u} \subseteq n.face /\ v \in safe
          /\ n.gCost = Plus(routes[u].gCost, c)
        BY <2>2 DEF TreeInv, Hangs
    <2>4. Edge(safe, u, v)
        BY <1>1, <2>1, <2>3 DEF Edge
    <2>5. routes[u].gCost \in CostValue /\ c \in CostValue
        BY <1>1, <2>1, <2>3, CostAssumption DEF CostInv, TypeOK, Node
    <2>6. NotNegative(e) /\ Leq(e, c)
        BY <1>1, <2>1, <2>3, <2>4, CheapestFace
    <2>7. k \in 1 .. N - 1 /\ k - 1 \in 0 .. N - 1 /\ (k - 1) + 1 >= Cardinality(Closed)
        <3>1. IsFiniteSet(Closed)
            BY MeshAssumption, FS_Subset DEF CostInv, TypeOK
        <3>2. Cardinality(Closed) \in Nat /\ Cardinality(Closed) # 0
            BY <2>3, <3>1, FS_CardinalityType, FS_EmptySet
        <3> QED
            BY <1>2, <3>2
    <2>8. <<u, routes[u].gCost>> \in d[k - 1]
        BY <2>3, <2>7 DEF DistInv, d
    <2> DEFINE p == <<u, routes[u].gCost>>
               q == <<v, Plus(p[2], EdgeCost(terrain, p[1], v))>>
    <2>9. q \in Further(terrain, safe, d[k - 1])
        <3>1. p[1] = u
            OBVIOUS
        <3> HIDE DEF p
        <3> QED
            BY <1>1, <2>4, <2>8, <3>1, InFurther DEF p
    <2>10. q[1] = v /\ q[2] = Plus(routes[u].gCost, e)
        OBVIOUS
    <2>11. q[2] \in CostValue /\ Leq(n.gCost, q[2])
        <3> HIDE DEF q
        <3> QED
            BY <1>4, <2>7, <2>9, <2>10
    <2>12. Leq(q[2], n.gCost)
        <3> HIDE DEF e, c, q
        <3>1. e \in CostValue
            BY <2>6 DEF NotNegative
        <3> QED
            BY <2>3, <2>5, <2>6, <2>10, <3>1, LeqReflexive, PlusMonotonic
    <2>13. q[2] = n.gCost
        BY <1>1, <2>11, <2>12, LeqAntisymmetric
    <2>14. <<v, n.gCost>> \in Wide(k - 1)
        BY <2>9, <2>10, <2>13
    <2> HIDE DEF Wide
    <2> QED
        BY <1>5, <2>7, <2>14 DEF d
<1> QED
    BY <1>6, <1>7

SearchInv == TreeInv /\ CostInv /\ StartInv /\ DistInv

LEMMA ClosingKeeps ==
    ASSUME NonNegativeCosts, SearchInv, NEW n \in queue, Close(n)
    PROVE  StartInv' /\ DistInv'
<1> USE DEF SearchInv
<1>1. /\ Closed' = Closed \cup {n.vertex}
      /\ routes'[n.vertex] = n
      /\ \A v \in Closed : routes'[v] = routes[v]
    BY CloseFacts
<1>2. /\ n.vertex \notin Closed /\ pc = "searching"
      /\ \A m \in queue : Leq(n.gCost, m.gCost)
      /\ UNCHANGED <<start, terrain, safe>>
      /\ queue \ {n} \subseteq queue'
      /\ queue' \subseteq queue \cup Expansion(n, Closed \cup {n.vertex})
    BY DEF Close, Searching, Cheapest, inputs
<1>3. StartInv'
    <2>1. start \in Vertices
        BY <1>2 DEF StartInv
    <2>2. IF start \in Closed' THEN Leq(routes'[start].gCost, 0)
                               ELSE StartNode(start) \in queue'
        <3>1. StartNode(start).vertex = start /\ StartNode(start).gCost = 0
            BY DEF StartNode
        <3>2. CASE n.vertex = start
            <4>1. Leq(n.gCost, 0)
                BY <1>2, <3>1, <3>2 DEF StartInv
            <4> QED
                BY <1>1, <3>2, <4>1
        <3>3. CASE n.vertex # start /\ start \in Closed
            BY <1>1, <1>2, <3>3 DEF StartInv
        <3>4. CASE n.vertex # start /\ start \notin Closed
            <4>1. StartNode(start) # n /\ StartNode(start) \in queue
                BY <1>2, <3>1, <3>4 DEF StartInv
            <4> QED
                BY <1>1, <1>2, <3>4, <4>1
        <3> QED
            BY <3>2, <3>3, <3>4
    <2>3. ASSUME NEW m \in queue'
          PROVE  m = StartNode(start) \/ (m.face \in Faces /\ m.parent \in Vertices)
        <3>1. CASE m \in queue
            BY <1>2, <3>1 DEF StartInv
        <3>2. CASE m \in Expansion(n, Closed \cup {n.vertex})
            <4>1. PICK f \in Faces, v \in Vertices : m = Pushed(n, f, v)
                BY <3>2, ExpansionNodes
            <4>2. n.vertex \in Vertices
                BY DEF CostInv, TypeOK, Node
            <4> QED
                BY <4>1, <4>2 DEF Pushed
        <3> QED
            BY <1>2, <3>1, <3>2
    <2>4. StartNode(start)' = StartNode(start)
        BY <1>2 DEF StartNode
    <2> QED
        BY <1>2, <2>1, <2>2, <2>3, <2>4 DEF StartInv
<1>4. DistInv'
    <2> DEFINE d == Table(terrain, safe, start)
    <2>1. Table(terrain, safe, start)' = d
        BY <1>2
    <2>2. IsFiniteSet(Closed) /\ Cardinality(Closed) \in Nat
        BY MeshAssumption, FS_Subset, FS_CardinalityType DEF CostInv, TypeOK
    <2>3. Cardinality(Closed)' = Cardinality(Closed) + 1
        BY <1>1, <1>2, <2>2, FS_AddElement
    <2>4. ASSUME NEW v \in Closed', NEW k \in 0 .. N - 1, k + 1 >= Cardinality(Closed) + 1
          PROVE  <<v, routes'[v].gCost>> \in d[k]
        <3>0. N \in Nat
            BY MeshAssumption, FS_CardinalityType DEF N
        <3>1. k >= Cardinality(Closed) /\ k + 1 >= Cardinality(Closed)
            BY <2>2, <2>4, <3>0
        <3>2. CASE v = n.vertex
            BY <1>1, <3>1, <3>2, ClosingIsInTable
        <3>3. CASE v # n.vertex
            BY <1>1, <2>4, <3>1, <3>3 DEF DistInv
        <3> QED
            BY <3>2, <3>3
    <2>5. N' = N
        BY DEF N
    <2> HIDE DEF d
    <2> QED
        BY <2>1, <2>3, <2>4, <2>5 DEF DistInv
<1> QED
    BY <1>3, <1>4

LEMMA SearchStep ==
    ASSUME NonNegativeCosts, MaxCalls = 1, SearchInv, [Next]_vars
    PROVE  SearchInv'
<1> USE DEF SearchInv
<1>1. TreeInv' /\ CostInv'
    BY TreeStep, CostStep
<1>2. ASSUME UNCHANGED <<routes, start, terrain, safe>>
      PROVE  DistInv'
    BY <1>2 DEF DistInv, Closed, N
<1>3. ASSUME NEW q \in Queries, Route(q[1], q[2])
      PROVE  SearchInv'
    <2>1. Closed = {}
        BY <1>3 DEF Route, Callable, CostInv, TypeOK
    <2>2. Closed' = {} /\ queue' = {StartNode(q[1])} /\ start' = q[1] /\ q[1] \in Vertices
        BY <1>3, <2>1, QueryAssumption DEF Route, Closed
    <2>3. StartInv'
        BY <2>2 DEF StartInv, StartNode
    <2>4. DistInv'
        BY <2>2 DEF DistInv
    <2> QED
        BY <1>1, <2>3, <2>4
<1>4. ASSUME NEW q \in Queries, RouteOutside(q[1], q[2])
      PROVE  SearchInv'
    <2>1. Closed' = {} /\ pc' = "outside_mesh"
        BY <1>4 DEF RouteOutside, Callable, CostInv, TypeOK, Closed
    <2> QED
        BY <1>1, <2>1 DEF StartInv, DistInv
<1>5. ASSUME NEW n \in queue, SkipBeaten(n)
      PROVE  SearchInv'
    <2>1. /\ n.vertex \in Closed /\ queue' = queue \ {n} /\ pc' = pc
          /\ UNCHANGED <<routes, start, terrain, safe>>
        BY <1>5 DEF SkipBeaten, inputs
    <2>2. StartNode(start) = n => start \in Closed
        BY <2>1 DEF StartNode
    <2>3. StartInv'
        BY <2>1, <2>2 DEF StartInv, Closed, StartNode
    <2> QED
        BY <1>1, <1>2, <2>1, <2>3
<1>6. ASSUME NEW n \in queue, Close(n)
      PROVE  SearchInv'
    BY <1>1, <1>6, ClosingKeeps
<1>7. CASE Found \/ StepBack \/ Return \/ PopEmpty \/ \E n \in queue : GiveUp(n)
    <2>1. pc' # "searching" /\ UNCHANGED <<routes, start, terrain, safe>>
        BY <1>7 DEF Found, StepBack, Return, PopEmpty, GiveUp, Undefined, inputs
    <2> QED
        BY <1>1, <1>2, <2>1 DEF StartInv
<1>8. CASE UNCHANGED vars
    BY <1>1, <1>2, <1>8 DEF vars, StartInv, Closed, StartNode
<1> QED
    BY <1>3, <1>4, <1>5, <1>6, <1>7, <1>8 DEF Next, Ask, Pop, Fetch

LEMMA SearchInit ==
    ASSUME Init
    PROVE  SearchInv
<1>1. Closed = {} /\ queue = {} /\ pc = "idle"
    BY DEF Init, Closed
<1> QED
    BY <1>1, TypeInit
    DEF SearchInv, TreeInv, ParentsClosed, CostInv, ClosedAreBest, FrontierComplete,
        StartInv, DistInv, Undefined

\* For every mesh, safe region and costs that are not negative, the cost a vertex is
\* closed with is the least over all ways to it through the safe region
\* (Router.cpp:60-146; Router.hpp:12-16 "returns the optimal route").
THEOREM ClosesAtDistance ==
    NonNegativeCosts /\ MaxCalls = 1 => (Spec => []ClosedCostsAreDistances)
<1> SUFFICES ASSUME NonNegativeCosts, MaxCalls = 1
             PROVE  Spec => []ClosedCostsAreDistances
    OBVIOUS
<1>1. Init => SearchInv
    BY SearchInit
<1>2. SearchInv /\ [Next]_vars => SearchInv'
    BY SearchStep
<1>3. SearchInv => ClosedCostsAreDistances
    <2> SUFFICES ASSUME SearchInv, NEW v \in Closed
                 PROVE  <<v, routes[v].gCost>> \in Answers!Distances(start)
        BY DEF ClosedCostsAreDistances
    <2>1. Closed \subseteq Vertices /\ IsFiniteSet(Vertices) /\ Closed # {}
        BY MeshAssumption DEF SearchInv, CostInv, TypeOK
    <2>2. /\ Cardinality(Closed) \in Nat /\ N \in Nat
          /\ Cardinality(Closed) <= N /\ Cardinality(Closed) # 0
        BY <2>1, FS_Subset, FS_CardinalityType, FS_EmptySet DEF N
    <2>3. N - 1 \in 0 .. N - 1 /\ (N - 1) + 1 >= Cardinality(Closed)
        BY <2>2
    <2>4. <<v, routes[v].gCost>> \in Table(terrain, safe, start)[N - 1]
        BY <2>3 DEF SearchInv, DistInv
    <2> QED
        BY <2>4, Unfolded DEF N
<1> QED
    BY <1>1, <1>2, <1>3, PTL DEF Spec

-----------------------------------------------------------------------------
(* The walk back.  A step of the tree costs what the cheapest face of the   *)
(* edge costs, so what is left to pay falls to 0 along the route.           *)

\* A step of the tree: an edge that accounts for the difference of the costs.
TreeEdge(u, v) ==
    /\ u \in Closed /\ v \in Closed
    /\ Edge(safe, u, v)
    /\ routes[v].gCost = Plus(routes[u].gCost, EdgeCost(terrain, u, v))

\* Closed vertices other than the start were pushed along a face from another one,
\* and the start costs nothing.
RootInv ==
    pc \in {"searching", "fetching"} =>
        /\ start \in Vertices /\ end \in Vertices
        /\ \A v \in Closed :
              IF v = start THEN routes[v].gCost = 0
              ELSE routes[v].face \in Faces /\ routes[v].parent \in Vertices \ {v}

\* The start is closed first, and on a mesh that is no valid triangulation the call
\* ends there; before the only call the router is idle.
FirstInv ==
    /\ pc = "searching" /\ start \notin Closed => Closed = {} /\ queue = {StartNode(start)}
    /\ pc = "searching" /\ ~valid => Closed = {}
    /\ pc = "fetching" => valid
    /\ calls = 0 => pc = "idle"

\* What fetchRoute has so far is a way through the tree from the cursor to the end.
WalkInv ==
    pc = "fetching" =>
        /\ route # <<>> /\ route[1] = cursor /\ route[Len(route)] = end
        /\ \A i \in 1 .. Len(route) : route[i] \in Closed
        /\ \A i \in 1 .. Len(route) - 1 : TreeEdge(route[i], route[i + 1])

ContractInv == SearchInv /\ RootInv /\ FirstInv /\ WalkInv

\* The parent of a closed vertex is a step of the tree before it.
LEMMA ParentIsStep ==
    ASSUME NonNegativeCosts, SearchInv, RootInv, pc = "fetching",
           NEW v \in Closed, v # start
    PROVE  TreeEdge(routes[v].parent, v)
<1> DEFINE u == routes[v].parent
           f == routes[v].face
           c == Calculate(terrain, f, u, v)
           e == EdgeCost(terrain, u, v)
<1>1. /\ f \in Faces /\ u \in Vertices /\ u # v /\ v \in Vertices
      /\ routes[v].vertex = v /\ terrain \in Terrains
      /\ \A w \in Closed : routes[w].gCost \in CostValue
    BY DEF RootInv, SearchInv, CostInv, TypeOK, Node
<1>2. routes[v] # StartNode(v)
    BY <1>1, NilAssumption DEF StartNode
<1>3. /\ u \in Closed /\ {v, u} \subseteq f /\ v \in safe
      /\ routes[v].gCost = Plus(routes[u].gCost, c)
    BY <1>1, <1>2 DEF SearchInv, TreeInv, ParentsClosed, Hangs
<1>4. Edge(safe, u, v)
    BY <1>1, <1>3 DEF Edge
<1>5. /\ NotNegative(e) /\ Leq(e, c)
      /\ \E g \in Faces : {u, v} \subseteq g /\ e = Calculate(terrain, g, u, v)
    BY <1>1, <1>3, <1>4, CheapestFace
<1>6. PICK g \in Faces : {u, v} \subseteq g /\ e = Calculate(terrain, g, u, v)
    BY <1>5
<1>7. c \in CostValue /\ e \in CostValue /\ routes[u].gCost \in CostValue
    BY <1>1, <1>3, <1>5, CostAssumption DEF NotNegative
<1>8. Covered(u, v, g)
    BY <1>3, <1>6 DEF SearchInv, CostInv, FrontierComplete
<1>9. Leq(routes[v].gCost, Plus(routes[u].gCost, e))
    BY <1>6, <1>8 DEF Covered
<1> HIDE DEF c, e, f, u
<1>10. Leq(Plus(routes[u].gCost, e), routes[v].gCost)
    BY <1>3, <1>5, <1>7, LeqReflexive, PlusMonotonic
<1>11. routes[v].gCost = Plus(routes[u].gCost, e)
    BY <1>1, <1>7, <1>9, <1>10, PlusType, LeqAntisymmetric
<1> QED
    BY <1>3, <1>4, <1>11 DEF TreeEdge, e, u

LEMMA ClosingKeepsRoot ==
    ASSUME NonNegativeCosts, ContractInv, NEW n \in queue, Close(n), pc' = "searching"
    PROVE  RootInv' /\ FirstInv'
<1> USE DEF ContractInv
<1>1. /\ Closed' = Closed \cup {n.vertex}
      /\ routes'[n.vertex] = n
      /\ \A v \in Closed : routes'[v] = routes[v]
    BY CloseFacts
<1>2. /\ n.vertex \notin Closed /\ pc = "searching" /\ valid
      /\ UNCHANGED <<start, end, valid, calls>>
    BY DEF Close, Searching, inputs
<1>3. start \in Closed'
    BY <1>1, <1>2 DEF FirstInv, StartNode
<1>4. CASE start \notin Closed
    <2>1. n = StartNode(start)
        BY <1>2, <1>4 DEF FirstInv
    <2>2. n.vertex = start /\ n.gCost = 0 /\ Closed' = {start} /\ routes'[start] = n
        BY <1>1, <1>2, <1>4, <2>1 DEF FirstInv, StartNode
    <2> QED
        BY <1>2, <1>3, <2>2 DEF RootInv, FirstInv
<1>5. CASE start \in Closed
    <2>1. n.vertex # start
        BY <1>2, <1>5
    <2>2. n # StartNode(start)
        BY <2>1 DEF StartNode
    <2>3. n.face \in Faces /\ n.parent \in Vertices
        BY <1>2, <2>2 DEF SearchInv, StartInv
    <2>4. n # StartNode(n.vertex)
        BY <2>3, NilAssumption DEF StartNode
    <2>5. n.parent \in Closed
        BY <2>4 DEF SearchInv, TreeInv, Hangs
    <2>6. n.parent # n.vertex
        BY <1>2, <2>5
    <2> QED
        BY <1>1, <1>2, <1>3, <1>5, <2>1, <2>3, <2>6 DEF RootInv, FirstInv
<1> QED
    BY <1>4, <1>5

LEMMA SteppingBackKeeps ==
    ASSUME NonNegativeCosts, ContractInv, StepBack
    PROVE  /\ routes[cursor].parent \in Closed
           /\ pc' = pc
           /\ WalkInv'
<1> USE DEF ContractInv
<1> DEFINE u == routes[cursor].parent
<1>1. /\ pc = "fetching" /\ cursor # start
      /\ UNCHANGED <<start, end, routes, terrain, safe>>
    BY DEF StepBack, inputs
<1>2. route \in Seq(Vertices) /\ route # <<>>
    BY <1>1 DEF WalkInv, SearchInv, CostInv, TypeOK
<1>3. Len(route) \in Nat \ {0}
    BY <1>2
<1>4. cursor \in Closed
    <2>1. 1 \in 1 .. Len(route)
        BY <1>3
    <2> QED
        BY <1>1, <2>1 DEF WalkInv
<1>5. TreeEdge(u, cursor)
    BY <1>1, <1>4, ParentIsStep
<1>6. u \in Closed
    BY <1>5 DEF TreeEdge
<1>7. pc' = "fetching" /\ cursor' = u /\ route' = <<u>> \o route
    BY <1>1, <1>6 DEF StepBack
<1>8. u \in Vertices
    BY <1>6 DEF SearchInv, CostInv, TypeOK
<1> HIDE DEF u
<1>9. /\ route' # <<>> /\ Len(route') = Len(route) + 1 /\ route'[1] = u
      /\ \A i \in 1 .. Len(route) : route'[i + 1] = route[i]
    BY <1>2, <1>3, <1>7, <1>8
<1>10. ASSUME NEW i \in 1 .. Len(route')
       PROVE  route'[i] \in Closed
    <2>1. CASE i = 1
        BY <1>6, <1>9, <2>1
    <2>2. CASE i # 1
        <3>1. i - 1 \in 1 .. Len(route) /\ (i - 1) + 1 = i
            BY <1>3, <1>9, <2>2
        <3>2. route'[i] = route[i - 1]
            BY <1>9, <3>1
        <3> QED
            BY <1>1, <3>1, <3>2 DEF WalkInv
    <2> QED
        BY <2>1, <2>2
<1>11. ASSUME NEW i \in 1 .. Len(route') - 1
       PROVE  TreeEdge(route'[i], route'[i + 1])
    <2>0. i \in 1 .. Len(route) /\ route'[i + 1] = route[i]
        BY <1>3, <1>9
    <2>1. CASE i = 1
        BY <1>1, <1>5, <1>9, <2>0, <2>1 DEF WalkInv
    <2>2. CASE i # 1
        <3>1. i - 1 \in 1 .. Len(route) - 1 /\ (i - 1) + 1 = i /\ i - 1 \in 1 .. Len(route)
            BY <1>3, <1>9, <2>2
        <3>2. route'[i] = route[i - 1]
            BY <1>9, <3>1
        <3>3. TreeEdge(route[i - 1], route[(i - 1) + 1])
            BY <1>1, <3>1 DEF WalkInv
        <3> QED
            BY <2>0, <3>1, <3>2, <3>3
    <2> QED
        BY <2>1, <2>2
<1>12. \A x, y : TreeEdge(x, y) => TreeEdge(x, y)'
    BY <1>1 DEF TreeEdge, Closed, Edge, EdgeCost, EdgeCosts, Plus
<1>13. route'[Len(route')] = end
    BY <1>1, <1>3, <1>9 DEF WalkInv
<1>14. Closed' = Closed
    BY <1>1 DEF Closed
<1> QED
    BY <1>1, <1>6, <1>7, <1>9, <1>10, <1>11, <1>12, <1>13, <1>14 DEF WalkInv, u

LEMMA ContractStep ==
    ASSUME NonNegativeCosts, MaxCalls = 1, ContractInv, [Next]_vars
    PROVE  ContractInv'
<1> USE DEF ContractInv
<1>1. SearchInv'
    BY SearchStep
<1>2. ASSUME pc' \notin {"searching", "fetching"}, calls' # 0
      PROVE  ContractInv'
    BY <1>1, <1>2 DEF RootInv, FirstInv, WalkInv
<1>3. ASSUME NEW q \in Queries, Route(q[1], q[2])
      PROVE  ContractInv'
    <2>1. Closed = {} /\ calls = 0
        BY <1>3 DEF Route, Callable, SearchInv, CostInv, TypeOK
    <2>2. /\ Closed' = {} /\ queue' = {StartNode(start')} /\ pc' = "searching" /\ calls' # 0
          /\ start' \in Vertices /\ end' \in Vertices
        BY <1>3, <2>1, QueryAssumption DEF Route, Closed
    <2>3. StartNode(start)' = StartNode(start')
        BY DEF StartNode
    <2> QED
        BY <1>1, <2>2, <2>3 DEF RootInv, FirstInv, WalkInv
<1>4. ASSUME NEW q \in Queries, RouteOutside(q[1], q[2])
      PROVE  ContractInv'
    <2>1. pc' = "outside_mesh" /\ calls' # 0
        BY <1>4 DEF RouteOutside, Callable, SearchInv, CostInv, TypeOK
    <2> QED
        BY <1>2, <2>1
<1>5. ASSUME pc = "searching" \/ pc = "fetching"
      PROVE  calls # 0
    BY <1>5 DEF FirstInv
<1>6. ASSUME NEW n \in queue, SkipBeaten(n)
      PROVE  ContractInv'
    <2>1. /\ n.vertex \in Closed /\ pc = "searching"
          /\ UNCHANGED <<pc, calls, start, end, routes, valid>>
        BY <1>6 DEF SkipBeaten, Searching, inputs
    <2>2. start \in Closed /\ valid
        BY <2>1 DEF FirstInv
    <2> QED
        BY <1>1, <1>5, <2>1, <2>2 DEF RootInv, FirstInv, WalkInv, Closed
<1>7. ASSUME NEW n \in queue, Close(n)
      PROVE  ContractInv'
    <2>1. pc = "searching" /\ UNCHANGED calls /\ pc' \in {"searching", "invalid_mesh"}
        BY <1>7 DEF Close, Searching
    <2>2. CASE pc' = "searching"
        BY <1>1, <1>7, <2>2, ClosingKeepsRoot DEF WalkInv
    <2>3. CASE pc' = "invalid_mesh"
        BY <1>2, <1>5, <2>1, <2>3
    <2> QED
        BY <2>1, <2>2, <2>3
<1>8. CASE Return \/ PopEmpty \/ \E n \in queue : GiveUp(n)
    <2>1. /\ pc \in {"searching", "fetching"} /\ UNCHANGED calls
          /\ pc' \notin {"searching", "fetching"}
        BY <1>8 DEF Return, PopEmpty, GiveUp, Searching, Undefined
    <2> QED
        BY <1>2, <1>5, <2>1
<1>9. CASE Found
    <2>1. /\ pc = "searching" /\ end \in Closed /\ pc' = "fetching"
          /\ cursor' = end /\ route' = <<end>>
          /\ UNCHANGED <<calls, start, end, routes, valid>>
        BY <1>9 DEF Found, inputs
    <2>2. valid /\ Closed' = Closed
        BY <2>1 DEF FirstInv, Closed
    <2>3. /\ route' # <<>> /\ route'[1] = end /\ Len(route') = 1
        BY <2>1
    <2>4. WalkInv'
        BY <2>1, <2>2, <2>3 DEF WalkInv
    <2> QED
        BY <1>1, <1>5, <2>1, <2>2, <2>4 DEF RootInv, FirstInv
<1>10. CASE StepBack
    <2>1. WalkInv' /\ pc' = pc /\ pc = "fetching" /\ UNCHANGED <<calls, start, end, routes, valid>>
        BY <1>10, SteppingBackKeeps DEF StepBack, inputs
    <2> QED
        BY <1>1, <2>1 DEF RootInv, FirstInv, Closed
<1>11. CASE UNCHANGED vars
    <2>1. \A x, y : TreeEdge(x, y) => TreeEdge(x, y)'
        BY <1>11 DEF vars, inputs, TreeEdge, Closed, Edge, EdgeCost, EdgeCosts, Plus
    <2>2. WalkInv'
        BY <1>11, <2>1 DEF vars, WalkInv, Closed
    <2> QED
        BY <1>1, <1>11, <2>2 DEF vars, inputs, RootInv, FirstInv, Closed, StartNode
<1> QED
    BY <1>3, <1>4, <1>6, <1>7, <1>8, <1>9, <1>10, <1>11 DEF Next, Ask, Pop, Fetch

-----------------------------------------------------------------------------
(* What RouteSpec promises of each ending.                                  *)

Last == Table(terrain, safe, start)[N - 1]

LEMMA LastIsDistances ==
    Answers!Distances(start) = Last
BY Unfolded DEF Last, N

\* A row has one cost for each vertex it reaches.
LEMMA OneCost ==
    ASSUME NonNegativeCosts, NEW t \in Terrains, NEW sf, NEW s \in Vertices,
           NEW k \in 0 .. N - 1,
           NEW p \in Table(t, sf, s)[k], NEW q \in Table(t, sf, s)[k], p[1] = q[1]
    PROVE  p[2] = q[2]
<1> DEFINE d == Table(t, sf, s)
<1>1. /\ N \in Nat \ {0}
      /\ d[0] = {<<s, 0>>}
      /\ \A j \in 1 .. N - 1 : d[j] = Minimal(d[j - 1] \cup Further(t, sf, d[j - 1]))
      /\ d[k] \in Rows
    BY TableRows
<1>2. p \in d[k] /\ q \in d[k]
    OBVIOUS
<1> HIDE DEF d
<1>3. CASE k = 0
    BY <1>1, <1>2, <1>3
<1>4. CASE k # 0
    <2>1. k \in 1 .. N - 1
        BY <1>1, <1>4
    <2>2. d[k] = Minimal(d[k - 1] \cup Further(t, sf, d[k - 1]))
        BY <1>1, <2>1
    <2>3. Leq(p[2], q[2]) /\ Leq(q[2], p[2])
        BY <1>2, <2>2 DEF Minimal
    <2>4. p[2] \in CostValue /\ q[2] \in CostValue
        BY <1>1, <1>2 DEF Rows
    <2> QED
        BY <2>3, <2>4, LeqAntisymmetric
<1> QED
    BY <1>3, <1>4

\* The distance of a closed vertex is the cost it was closed with.
LEMMA ClosedDistance ==
    ASSUME NonNegativeCosts, SearchInv, start \in Vertices, NEW v \in Closed
    PROVE  /\ v \in Answers!Reached(start)
           /\ Answers!Distance(start, v) = routes[v].gCost
           /\ routes[v].gCost \in Int
<1> DEFINE g == routes[v].gCost
           S == {p[2] : p \in {q \in Last : q[1] = v}}
<1>1. g \in Int
    BY DEF SearchInv, CostInv, TypeOK, Node, ClosedAreBest, CostValue
<1>2. <<v, g>> \in Last
    <2>1. Closed \subseteq Vertices /\ IsFiniteSet(Vertices) /\ Closed # {}
        BY MeshAssumption DEF SearchInv, CostInv, TypeOK
    <2>2. /\ Cardinality(Closed) \in Nat /\ N \in Nat
          /\ Cardinality(Closed) <= N /\ Cardinality(Closed) # 0
        BY <2>1, FS_Subset, FS_CardinalityType, FS_EmptySet DEF N
    <2>3. N - 1 \in 0 .. N - 1 /\ (N - 1) + 1 >= Cardinality(Closed)
        BY <2>2
    <2> QED
        BY <2>3 DEF SearchInv, DistInv, Last
<1>3. ASSUME NEW p \in Last, p[1] = v
      PROVE  p[2] = g
    <2>1. N - 1 \in 0 .. N - 1
        BY MeshAssumption, FS_CardinalityType, FS_EmptySet DEF N
    <2>2. terrain \in Terrains
        BY DEF SearchInv, CostInv, TypeOK
    <2>3. <<v, g>>[1] = v /\ <<v, g>>[2] = g
        OBVIOUS
    <2> HIDE DEF g
    <2> QED
        BY <1>2, <1>3, <2>1, <2>2, <2>3, OneCost DEF Last
<1>4. S = {g}
    <2> HIDE DEF g
    <2>1. \A x \in S : x = g
        BY <1>3
    <2>2. <<v, g>>[1] = v /\ <<v, g>>[2] = g
        OBVIOUS
    <2>3. g \in S
        BY <1>2, <2>2
    <2> QED
        BY <2>1, <2>3
<1>5. Answers!Distance(start, v) = Answers!Least(S)
    BY LastIsDistances DEF Answers!Distance
<1>6. Answers!Least({g}) = g
    <2> HIDE DEF g
    <2>1. ~({g} \subseteq {Inf}) /\ {g} \ {Inf} = {g}
        BY <1>1, InfAssumption
    <2>2. Answers!Min({g}) = g
        BY <1>1 DEF Answers!Min
    <2> QED
        BY <2>1, <2>2 DEF Answers!Least
<1>7. v \in Answers!Reached(start)
    <2> HIDE DEF g
    <2>1. <<v, g>>[1] = v
        OBVIOUS
    <2> QED
        BY <1>2, <2>1, LastIsDistances DEF Answers!Reached
<1> QED
    BY <1>1, <1>4, <1>5, <1>6, <1>7

\* The route that is returned is an optimal one.
LEMMA ReturnsOptimal ==
    ASSUME NonNegativeCosts, ContractInv, Return
    PROVE  /\ Answers!Distance(start, end) # Inf
           /\ Answers!IsPath(route, start, end)
           /\ Answers!PathCost(route) = Answers!Distance(start, end)
<1> USE DEF ContractInv
<1> DEFINE M == Len(route)
<1>1. /\ pc = "fetching" /\ cursor = start /\ start \in Vertices
      /\ route \in Seq(Vertices) /\ route # <<>> /\ M \in Nat \ {0}
      /\ route[1] = start /\ route[M] = end
      /\ \A i \in 1 .. M : route[i] \in Closed
      /\ \A i \in 1 .. M - 1 : TreeEdge(route[i], route[i + 1])
    BY DEF Return, RootInv, WalkInv, SearchInv, CostInv, TypeOK
<1>2. start \in Closed /\ end \in Closed /\ routes[start].gCost = 0
    <2>1. 1 \in 1 .. M /\ M \in 1 .. M
        BY <1>1
    <2> QED
        BY <1>1, <2>1 DEF RootInv
<1>3. Answers!Distance(start, end) = routes[end].gCost /\ routes[end].gCost \in Int
    BY <1>1, <1>2, ClosedDistance
<1>4. Answers!IsPath(route, start, end)
    <2>1. ASSUME NEW i \in 1 .. M - 1
          PROVE  Answers!Edge(route[i], route[i + 1])
        BY <1>1 DEF TreeEdge, Edge, Answers!Edge
    <2> QED
        BY <1>1, <2>1 DEF Answers!IsPath
\* What is left to pay is the difference of the costs.
<1> DEFINE g(i) == routes[route[i]].gCost
           left == [i \in 1 .. M |-> g(M) - g(i)]
           Body(r, i) == IF i = M THEN 0
                         ELSE Plus(EdgeCost(terrain, route[i], route[i + 1]), r[i + 1])
<1>5. \A i \in 1 .. M : g(i) \in Int
    BY <1>1, ClosedDistance
<1>6. ASSUME NEW i \in 1 .. M - 1
      PROVE  /\ EdgeCost(terrain, route[i], route[i + 1]) = g(i + 1) - g(i)
             /\ \A x \in Int : Plus(EdgeCost(terrain, route[i], route[i + 1]), x)
                                   = g(i + 1) - g(i) + x
    <2> DEFINE u == route[i]
               v == route[i + 1]
               e == EdgeCost(terrain, u, v)
    <2>1. i \in 1 .. M /\ i + 1 \in 1 .. M
        BY <1>1
    <2>2. TreeEdge(u, v) /\ g(i) \in Int /\ g(i + 1) \in Int
        BY <1>1, <1>5, <2>1
    <2>3. u \in Vertices /\ v \in Vertices /\ terrain \in Terrains
        BY <2>2 DEF TreeEdge, SearchInv, CostInv, TypeOK
    <2>4. NotNegative(e)
        BY <2>2, <2>3, CheapestFace DEF TreeEdge
    <2>5. g(i + 1) = Plus(g(i), e)
        BY <2>2 DEF TreeEdge
    <2> HIDE DEF e, g
    <2>6. e \in Int /\ e = g(i + 1) - g(i)
        BY <2>2, <2>4, <2>5, InfAssumption DEF Plus, NotNegative, CostValue
    <2>7. \A x \in Int : Plus(e, x) = e + x
        BY <2>6, InfAssumption DEF Plus
    <2> QED
        BY <2>2, <2>6, <2>7 DEF e
<1> HIDE DEF M, g
<1>7. left = [i \in 1 .. M |-> Body(left, i)]
    <2>1. ASSUME NEW i \in 1 .. M
          PROVE  left[i] = Body(left, i)
        <3>1. CASE i = M
            BY <1>5, <3>1
        <3>2. CASE i # M
            <4>1. i \in 1 .. M - 1 /\ i + 1 \in 1 .. M /\ M \in 1 .. M
                BY <1>1, <3>2
            <4>2. g(M) \in Int /\ g(i) \in Int /\ g(i + 1) \in Int /\ left[i + 1] = g(M) - g(i + 1)
                BY <1>5, <4>1
            <4>3. Body(left, i) = g(i + 1) - g(i) + (g(M) - g(i + 1))
                BY <1>6, <3>2, <4>1, <4>2
            <4> QED
                BY <4>2, <4>3
        <3> QED
            BY <3>1, <3>2
    <2> HIDE DEF Body
    <2> QED
        BY <2>1
<1> DEFINE rest == CHOOSE r : r = [i \in 1 .. M |-> Body(r, i)]
<1>8. Answers!PathCost(route) = rest[1]
    BY DEF Answers!PathCost, Answers!EdgeCost, Answers!Plus, EdgeCost, EdgeCosts, Plus, M
<1>9. rest = [i \in 1 .. M |-> Body(rest, i)]
    <2> HIDE DEF Body, left
    <2> QED
        BY <1>7
<1> HIDE DEF rest, left
<1>10. \A i \in 1 .. M : rest[i] = Body(rest, i)
    <2> HIDE DEF Body
    <2> QED
        BY <1>9
<1> DEFINE S == {j \in Nat : j \in 0 .. M - 1 => rest[M - j] = g(M) - g(M - j)}
<1>11. 0 \in S
    <2>1. M \in 1 .. M /\ M - 0 = M
        BY <1>1
    <2>2. rest[M] = 0 /\ g(M) \in Int
        BY <1>5, <1>10, <2>1
    <2> QED
        BY <2>1, <2>2
<1>12. ASSUME NEW j \in Nat, j \in S
       PROVE  j + 1 \in S
    <2> SUFFICES ASSUME j + 1 \in 0 .. M - 1
                 PROVE  rest[M - (j + 1)] = g(M) - g(M - (j + 1))
        OBVIOUS
    <2> DEFINE i == M - (j + 1)
    <2>1. /\ i \in 1 .. M - 1 /\ i \in 1 .. M /\ i + 1 \in 1 .. M /\ M \in 1 .. M
          /\ i + 1 = M - j /\ j \in 0 .. M - 1 /\ i # M
        BY <1>1
    <2> HIDE DEF i
    <2>2. rest[i + 1] = g(M) - g(i + 1)
        BY <1>12, <2>1
    <2>3. g(M) \in Int /\ g(i) \in Int /\ g(i + 1) \in Int
        BY <1>5, <2>1
    <2>4. rest[i] = g(i + 1) - g(i) + (g(M) - g(i + 1))
        BY <1>6, <1>10, <2>1, <2>2, <2>3
    <2>5. rest[i] = g(M) - g(i)
        BY <2>3, <2>4
    <2> QED
        BY <2>5 DEF i
<1> HIDE DEF S
<1>13. rest[1] = g(M) - g(1)
    <2>1. M - 1 \in S /\ M - 1 \in 0 .. M - 1 /\ M - (M - 1) = 1
        BY <1>1, <1>11, <1>12, Induct
    <2> QED
        BY <2>1 DEF S
<1>14. g(1) = 0 /\ g(M) = routes[end].gCost
    BY <1>1, <1>2 DEF g
<1> QED
    BY <1>3, <1>4, <1>8, <1>13, <1>14, InfAssumption

\* Where the dearest that waits is the cheapest, no finite way leads to an open vertex.
LEMMA OpenIsInfinite ==
    ASSUME NonNegativeCosts, SearchInv, pc = "searching",
           \A n \in queue : n.gCost = Inf,
           NEW k \in 0 .. N - 1,
           NEW T, T = Table(terrain, safe, start)[k],
           NEW p \in T \cup Further(terrain, safe, T), p[1] \notin Closed
    PROVE  p[2] = Inf /\ queue # {}
<1>1. Bounded(p[1], p[2])
    BY TableIsBounded DEF SearchInv
<1>2. \E n \in queue : Leq(Inf, p[2])
    BY <1>1 DEF Bounded
<1> QED
    BY <1>2 DEF Leq

\* The search gives up only where every way to the end is infinitely costly, and an
\* edge between two vertices it could reach is.
LEMMA GivesUpRightly ==
    ASSUME NonNegativeCosts, ContractInv, NEW n \in queue, GiveUp(n)
    PROVE  /\ valid
           /\ Answers!Distance(start, end) = Inf
           /\ \E u, v \in Answers!Reached(start) :
                 Answers!Edge(u, v) /\ Answers!EdgeCost(u, v) = Inf
<1> USE DEF ContractInv
<1> DEFINE v == n.vertex
           u == n.parent
           c == Calculate(terrain, n.face, u, v)
           e == EdgeCost(terrain, u, v)
<1>1. /\ pc = "searching" /\ end \notin Closed /\ v \notin Closed /\ n.gCost = Inf
      /\ start \in Vertices /\ terrain \in Terrains /\ v \in Vertices
      /\ \A m \in queue : Leq(n.gCost, m.gCost) /\ m.gCost \in CostValue
    BY DEF GiveUp, Searching, Cheapest, RootInv, SearchInv, CostInv, TypeOK, Node
<1>2. \A m \in queue : m.gCost = Inf
    BY <1>1 DEF Leq
<1>3. n # StartNode(start)
    BY <1>1, InfAssumption DEF StartNode
<1>4. start \in Closed /\ valid
    BY <1>1, <1>3 DEF FirstInv
<1>5. n.face \in Faces /\ u \in Vertices
    BY <1>1, <1>3 DEF SearchInv, StartInv
<1>6. n # StartNode(v)
    BY <1>5, NilAssumption DEF StartNode
<1>7. u \in Closed /\ {v, u} \subseteq n.face /\ v \in safe
    BY <1>6 DEF SearchInv, TreeInv, Hangs
<1>8. Edge(safe, u, v)
    BY <1>1, <1>5, <1>7 DEF Edge
<1>9. /\ routes[u].gCost \in Int
      /\ u \in Answers!Reached(start)
    BY <1>1, <1>7, ClosedDistance
<1>10. PICK f \in Faces : {u, v} \subseteq f /\ e = Calculate(terrain, f, u, v)
    BY <1>1, <1>5, <1>8, CheapestFace
<1>11. e = Inf
    <2>1. Covered(u, v, f)
        BY <1>1, <1>7, <1>10 DEF SearchInv, CostInv, FrontierComplete
    <2>2. \E m \in queue : Leq(m.gCost, Plus(routes[u].gCost, e))
        BY <1>1, <1>10, <2>1 DEF Covered
    <2>3. Plus(routes[u].gCost, e) = Inf
        BY <1>2, <2>2 DEF Leq
    <2>4. NotNegative(e)
        BY <1>1, <1>5, <1>8, CheapestFace
    <2> HIDE DEF e
    <2> QED
        BY <1>9, <2>3, <2>4, InfAssumption DEF Plus, NotNegative, CostValue
<1>12. /\ N \in Nat /\ N - 1 \in 1 .. N - 1 /\ N - 2 \in 0 .. N - 1 /\ (N - 1) - 1 = N - 2
       /\ N - 1 \in 0 .. N - 1
       /\ (N - 2) + 1 >= Cardinality(Closed)
    <2>1. Closed \cup {v} \subseteq Vertices /\ IsFiniteSet(Vertices)
        BY <1>1, MeshAssumption DEF SearchInv, CostInv, TypeOK
    <2>2. IsFiniteSet(Closed) /\ IsFiniteSet(Closed \cup {v})
        BY <2>1, FS_Subset
    <2>3. Cardinality(Closed \cup {v}) = Cardinality(Closed) + 1
        BY <1>1, <2>2, FS_AddElement
    <2>4. Cardinality(Closed \cup {v}) <= Cardinality(Vertices)
        BY <2>1, FS_Subset
    <2>5. Cardinality(Closed) \in Nat /\ Cardinality(Closed) # 0 /\ N \in Nat
        BY <1>7, <2>1, <2>2, FS_CardinalityType, FS_EmptySet DEF N
    <2> QED
        BY <2>3, <2>4, <2>5 DEF N
<1> DEFINE d == Table(terrain, safe, start)
           T == d[N - 2]
           g == routes[u].gCost
<1>13. d[N - 1] = Minimal(T \cup Further(terrain, safe, T))
    BY <1>1, <1>12, TableRows
<1>14. v \in Answers!Reached(start)
    <2>1. <<u, g>> \in T
        BY <1>7, <1>12 DEF SearchInv, DistInv
    <2>2. <<u, g>>[1] = u /\ <<u, g>>[2] = g
        OBVIOUS
    <2>3. <<v, Plus(g, e)>> \in Further(terrain, safe, T)
        <3> HIDE DEF T, g
        <3> QED
            BY <1>1, <1>8, <2>1, <2>2, InFurther
    <2>4. Plus(g, e) = Inf
        BY <1>11 DEF Plus
    <2>5. <<v, Inf>> \in T \cup Further(terrain, safe, T)
        BY <2>3, <2>4
    <2>6. \A q \in T \cup Further(terrain, safe, T) : q[1] = v => q[2] = Inf
        BY <1>1, <1>2, <1>12, OpenIsInfinite
    <2>7. <<v, Inf>>[1] = v /\ <<v, Inf>>[2] = Inf /\ Leq(Inf, Inf)
        BY DEF Leq
    <2> HIDE DEF d, T
    <2>8. <<v, Inf>> \in d[N - 1]
        BY <1>13, <2>5, <2>6, <2>7 DEF Minimal
    <2> QED
        BY <2>7, <2>8, LastIsDistances DEF Answers!Reached, Last, d
<1>15. Answers!Distance(start, end) = Inf
    <2>1. \A q \in Last : q[1] = end => q[2] = Inf
        BY <1>1, <1>2, <1>12, OpenIsInfinite DEF Last
    <2>2. {p[2] : p \in {q \in Last : q[1] = end}} \subseteq {Inf}
        BY <2>1
    <2> QED
        BY <2>2, LastIsDistances DEF Answers!Distance, Answers!Least
<1>16. Answers!Edge(u, v) /\ Answers!EdgeCost(u, v) = Inf
    BY <1>8, <1>11
    DEF Edge, Answers!Edge, EdgeCost, EdgeCosts, Answers!EdgeCost, Answers!Plus
<1> QED
    BY <1>4, <1>9, <1>14, <1>15, <1>16

\* The queue runs empty only where the end is cut off.
LEMMA EmptyOnlyIfCutOff ==
    ASSUME NonNegativeCosts, ContractInv, PopEmpty
    PROVE  valid /\ end \notin Answers!Reached(start)
<1> USE DEF ContractInv
<1>1. pc = "searching" /\ end \notin Closed /\ queue = {}
    BY DEF PopEmpty, Searching
<1>2. start \in Closed /\ valid
    BY <1>1 DEF FirstInv
<1>3. N - 1 \in 0 .. N - 1
    BY MeshAssumption, FS_CardinalityType, FS_EmptySet, <1>2 DEF N, SearchInv, CostInv, TypeOK
<1>4. \A p \in Last : p[1] # end
    BY <1>1, <1>3, OpenIsInfinite DEF Last
<1> QED
    BY <1>2, <1>4, LastIsDistances DEF Answers!Reached

-----------------------------------------------------------------------------
(* Every step of Router is one of RouteSpec or leaves what it speaks of     *)
(* alone.                                                                   *)

LEMMA StepKeepsContract ==
    ASSUME NonNegativeCosts, MaxCalls = 1, ContractInv, [Next]_vars
    PROVE  [Answers!Next]_(Answers!vars)
<1> USE DEF ContractInv
<1>1. ASSUME UNCHANGED <<pc, start, end, inputs>>, pc # "returned" \/ UNCHANGED route
      PROVE  UNCHANGED Answers!vars
    BY <1>1 DEF Answers!vars, inputs
<1>2. ASSUME NEW q \in Queries, Route(q[1], q[2]) \/ RouteOutside(q[1], q[2])
      PROVE  Answers!Next
    <2>1. pc = "idle"
        BY <1>2 DEF Route, RouteOutside, Callable, FirstInv, SearchInv, CostInv, TypeOK
    <2>2. Answers!Ask(q[1], q[2])
        BY <1>2, <2>1 DEF Route, RouteOutside, Answers!Ask, inputs
    <2> QED
        BY <2>2 DEF Answers!Next
<1>3. ASSUME NEW n \in queue, SkipBeaten(n)
      PROVE  UNCHANGED Answers!vars
    BY <1>1, <1>3 DEF SkipBeaten, Searching
<1>4. ASSUME NEW n \in queue, GiveUp(n)
      PROVE  Answers!Next
    <2>1. pc = "searching" /\ pc' = "no_safe_path" /\ UNCHANGED <<start, end, route, inputs>>
        BY <1>4 DEF GiveUp, Searching
    <2>2. Answers!Refuse
        BY <1>4, <2>1, GivesUpRightly DEF Answers!Refuse, inputs
    <2> QED
        BY <2>2 DEF Answers!Next
<1>5. ASSUME NEW n \in queue, Close(n)
      PROVE  [Answers!Next]_(Answers!vars)
    <2>1. pc = "searching" /\ UNCHANGED <<start, end, route, inputs>>
        BY <1>5 DEF Close, Searching
    <2>2. CASE valid
        <3>1. pc' = pc
            BY <1>5, <2>2 DEF Close
        <3> QED
            BY <1>1, <2>1, <3>1
    <2>3. CASE ~valid
        <3>1. pc' = "invalid_mesh"
            BY <1>5, <2>3 DEF Close
        <3>2. Answers!Reject
            BY <2>1, <2>3, <3>1 DEF Answers!Reject, inputs
        <3> QED
            BY <3>2 DEF Answers!Next
    <2> QED
        BY <2>2, <2>3
<1>6. CASE PopEmpty
    <2>1. pc = "searching" /\ pc' \in {"aborted", "hanging"}
          /\ UNCHANGED <<start, end, route, inputs>>
        BY <1>6 DEF PopEmpty, Searching, Undefined
    <2>2. Answers!Collapse
        BY <1>6, <2>1, EmptyOnlyIfCutOff DEF Answers!Collapse, inputs
    <2> QED
        BY <2>2 DEF Answers!Next
<1>7. CASE Found
    BY <1>7 DEF Found, Answers!vars, inputs
<1>8. CASE StepBack
    <2>1. pc' = pc /\ pc = "fetching" /\ UNCHANGED <<start, end, inputs>>
        BY <1>8, SteppingBackKeeps DEF StepBack
    <2> QED
        BY <1>1, <2>1
<1>9. CASE Return
    <2>1. /\ pc = "fetching" /\ pc' = "returned" /\ valid
          /\ UNCHANGED <<start, end, route, inputs>>
        BY <1>9 DEF Return, FirstInv
    <2>2. Answers!Optimal(route, start, end) /\ Answers!Distance(start, end) # Inf
        BY <1>9, ReturnsOptimal DEF Answers!Optimal
    <2>3. Answers!Answer
        BY <2>1, <2>2 DEF Answers!Answer, inputs
    <2> QED
        BY <2>3 DEF Answers!Next
<1>10. CASE UNCHANGED vars
    BY <1>1, <1>10 DEF vars, inputs
<1> QED
    BY <1>2, <1>3, <1>4, <1>5, <1>6, <1>7, <1>8, <1>9, <1>10 DEF Next, Ask, Pop, Fetch

\* One call of Route implements RouteSpec's safety, for every mesh, safe region and
\* costs that are not negative: it returns only optimal routes, throws "no safe path"
\* only where there is none of finite cost, never throws out_of_range on the walk
\* back, and pops an empty queue only if the end is cut off (Router.cpp:60-155,
\* TsrState.cpp:58-75).  KeepsContract says the same and that every call ends.
THEOREM ImplementsRouteSpec ==
    NonNegativeCosts /\ MaxCalls = 1 => (Spec => Answers!SafetySpec)
<1> SUFFICES ASSUME NonNegativeCosts, MaxCalls = 1
             PROVE  Spec => Answers!SafetySpec
    OBVIOUS
<1>1. Init => ContractInv /\ Answers!Init
    <2> SUFFICES ASSUME Init
                 PROVE  ContractInv /\ Answers!Init
        OBVIOUS
    <2>1. pc = "idle" /\ start = Nil /\ end = Nil
        BY DEF Init
    <2>2. ContractInv
        BY <2>1, SearchInit DEF ContractInv, RootInv, FirstInv, WalkInv
    <2>3. Answers!Init
        BY <2>1 DEF Answers!Init
    <2> QED
        BY <2>2, <2>3
<1>2. ContractInv /\ [Next]_vars => ContractInv'
    BY ContractStep
<1>3. ContractInv /\ [Next]_vars => [Answers!Next]_(Answers!vars)
    BY StepKeepsContract
<1> QED
    BY <1>1, <1>2, <1>3, PTL DEF Spec, Answers!SafetySpec
=============================================================================
