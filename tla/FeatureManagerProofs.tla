------------------------- MODULE FeatureManagerProofs -------------------------
(***************************************************************************)
(* Proofs about FeatureManager, for any finite set of features and any     *)
(* names: the check for cycles accepts no graph whose evaluation might not *)
(* return, and, if the names are unique, refuses no other graph.           *)
(*                                                                         *)
(* The lemmas are about a graph d and names n, the values of deps and id.  *)
(***************************************************************************)
EXTENDS FeatureManager, FiniteSetTheorems, Induction

Names   == [Features -> Ids]
DepsOf  == [Features -> SUBSET Features]
N       == Cardinality(Features)

\* The recursive functions of the model, with graph and names as parameters.
Check(n, d) ==
    CHOOSE below : below = [c \in Calls |->
        \E dep \in d[c[1]] : n[dep] \in c[2] \/ below[<<dep, c[2] \cup {n[dep]}>>]]
Returns(d) ==
    CHOOSE returns : returns = [depth \in 0 .. Cardinality(Features) |->
        IF depth = 0 THEN {} ELSE {f \in Features : d[f] \subseteq returns[depth - 1]}]
Reached(d, f) ==
    CHOOSE reached : reached = [steps \in 0 .. Cardinality(Features) |->
        IF steps = 0 THEN d[f]
        ELSE reached[steps - 1] \cup UNION {d[g] : g \in reached[steps - 1]}]

Under(d, f) == Reached(d, f)[N]
NoCycle(d, f) == \A g \in Under(d, f) \cup {f} : g \notin Under(d, g)
Accepts(n, d, f) == ~Check(n, d)[<<f, {n[f]}>>]

LEMMA Unfolded ==
    /\ \A f : HasDependencyCycle(f) <=> ~Accepts(id, deps, f)
    /\ \A f : Below(f) = Under(deps, f)
    /\ \A f : Acyclic(f) <=> NoCycle(deps, f)
    /\ Evaluable = Returns(deps)[N]
<1>1. \A f : HasDependencyCycle(f) <=> ~Accepts(id, deps, f)
    BY DEF HasDependencyCycle, HasCycleBelow, Accepts, Check
<1>2. \A f : Below(f) = Under(deps, f)
    BY DEF Below, Under, Reached, N
<1>3. \A f : Acyclic(f) <=> NoCycle(deps, f)
    BY <1>2 DEF Acyclic, NoCycle
<1>4. Evaluable = Returns(deps)[N]
    BY DEF Evaluable, Returns, N
<1> QED
    BY <1>1, <1>2, <1>3, <1>4

LEMMA Count ==
    N \in Nat
BY FeaturesAssumption, FS_CardinalityType DEF N

-----------------------------------------------------------------------------
(* The recursive definitions define what they say.                          *)

\* Of the check's equation there is a solution: its greatest fixed point.
LEMMA CheckExists ==
    ASSUME NEW n \in Names, NEW d \in DepsOf
    PROVE  \A g \in Features : \A path \in SUBSET Ids :
               Check(n, d)[<<g, path>>] <=>
                   \E dep \in d[g] : n[dep] \in path \/ Check(n, d)[<<dep, path \cup {n[dep]}>>]
<1> DEFINE Found(X) == {c \in Calls :
               \E dep \in d[c[1]] : n[dep] \in c[2] \/ <<dep, c[2] \cup {n[dep]}>> \in X}
           G == UNION {X \in SUBSET Calls : X \subseteq Found(X)}
           b == [c \in Calls |-> c \in G]
<1>1. \A X, Y : X \subseteq Y => Found(X) \subseteq Found(Y)
    OBVIOUS
<1>2. \A X : Found(X) \subseteq Calls
    OBVIOUS
<1>3. G \subseteq Found(G)
    <2> HIDE DEF Found
    <2> QED
        BY <1>1
<1>4. Found(G) \subseteq G
    <2>1. Found(G) \subseteq Found(Found(G)) /\ Found(G) \in SUBSET Calls
        <3> HIDE DEF Found, G
        <3> QED
            BY <1>1, <1>2, <1>3
    <2> HIDE DEF Found
    <2> QED
        BY <2>1
<1>5. ASSUME NEW c \in Calls
      PROVE  c \in G <=>
                 \E dep \in d[c[1]] : n[dep] \in c[2] \/ <<dep, c[2] \cup {n[dep]}>> \in G
    <2>1. c \in G <=> c \in Found(G)
        BY <1>3, <1>4
    <2> HIDE DEF G
    <2> QED
        BY <2>1
<1> HIDE DEF G, Found
<1>6. b = [c \in Calls |->
              \E dep \in d[c[1]] : n[dep] \in c[2] \/ b[<<dep, c[2] \cup {n[dep]}>>]]
    <2>1. ASSUME NEW c \in Calls
          PROVE  c \in G <=>
                     (\E dep \in d[c[1]] : n[dep] \in c[2] \/ b[<<dep, c[2] \cup {n[dep]}>>])
        <3>1. \A dep \in d[c[1]] : <<dep, c[2] \cup {n[dep]}>> \in Calls
            BY DEF Names, DepsOf, Calls
        <3>2. \A dep \in d[c[1]] : b[<<dep, c[2] \cup {n[dep]}>>] <=> <<dep, c[2] \cup {n[dep]}>> \in G
            BY <3>1
        <3> HIDE DEF b
        <3>3. c \in G <=> \E dep \in d[c[1]] : n[dep] \in c[2] \/ b[<<dep, c[2] \cup {n[dep]}>>]
            BY <1>5, <3>2
        <3> QED
            BY <3>3
    <2> DEFINE p == [c \in Calls |->
                        \E dep \in d[c[1]] : n[dep] \in c[2] \/ b[<<dep, c[2] \cup {n[dep]}>>]]
    <2>2. \A c \in Calls : b[c] \in BOOLEAN /\ p[c] \in BOOLEAN
        OBVIOUS
    <2>3. \A c \in Calls : b[c] <=> p[c]
        BY <2>1
    <2>4. b = [c \in Calls |-> b[c]] /\ p = [c \in Calls |-> p[c]]
        OBVIOUS
    <2> HIDE DEF b, p
    <2>5. \A c \in Calls : b[c] = p[c]
        BY <2>2, <2>3
    <2>6. b = p
        BY <2>4, <2>5
    <2> QED
        BY <2>6 DEF p
<1> HIDE DEF b
<1> DEFINE q == Check(n, d)
<1>7. q = [c \in Calls |->
          \E dep \in d[c[1]] : n[dep] \in c[2] \/ q[<<dep, c[2] \cup {n[dep]}>>]]
    BY <1>6 DEF Check
<1> HIDE DEF q
<1>8. \A c \in Calls :
          q[c] = (\E dep \in d[c[1]] : n[dep] \in c[2] \/ q[<<dep, c[2] \cup {n[dep]}>>])
    BY <1>7
<1>9. ASSUME NEW g \in Features, NEW path \in SUBSET Ids
      PROVE  q[<<g, path>>] <=> \E dep \in d[g] : n[dep] \in path \/ q[<<dep, path \cup {n[dep]}>>]
    <2>1. <<g, path>> \in Calls
        BY DEF Calls
    <2> QED
        BY <1>8, <2>1
<1> QED
    BY <1>9 DEF q

LEMMA ReturnsExists ==
    ASSUME NEW d \in DepsOf
    PROVE  /\ Returns(d)[0] = {}
           /\ \A k \in 1 .. N : Returns(d)[k] = {f \in Features : d[f] \subseteq Returns(d)[k - 1]}
<1> DEFINE G == [R \in SUBSET Features |-> {f \in Features : d[f] \subseteq R}]
<1>1. N \in Nat /\ {} \in SUBSET Features /\ G \in [SUBSET Features -> SUBSET Features]
    BY Count
<1>2. PICK r \in [0 .. N -> SUBSET Features] : r[0] = {} /\ \A k \in 1 .. N : r[k] = G[r[k - 1]]
    <2> DEFINE D == SUBSET Features
    <2>1. N \in Nat /\ {} \in D /\ G \in [D -> D]
        BY <1>1
    <2> HIDE DEF G, D
    <2>2. \E r \in [0 .. N -> D] : r[0] = {} /\ \A k \in 1 .. N : r[k] = G[r[k - 1]]
        BY <2>1, Iterates
    <2> QED
        BY <2>2 DEF D
<1>3. r = [depth \in 0 .. Cardinality(Features) |->
              IF depth = 0 THEN {} ELSE {f \in Features : d[f] \subseteq r[depth - 1]}]
    <2>1. \A k \in 1 .. N : r[k - 1] \in SUBSET Features
        BY <1>1
    <2>2. \A k \in 1 .. N : r[k] = {f \in Features : d[f] \subseteq r[k - 1]}
        BY <1>2, <2>1
    <2>3. ASSUME NEW k \in 0 .. N
          PROVE  r[k] = IF k = 0 THEN {} ELSE {f \in Features : d[f] \subseteq r[k - 1]}
        BY <1>1, <1>2, <2>2
    <2> QED
        BY <2>3 DEF N
<1>4. Returns(d) = [depth \in 0 .. Cardinality(Features) |->
          IF depth = 0 THEN {} ELSE {f \in Features : d[f] \subseteq Returns(d)[depth - 1]}]
    BY <1>3 DEF Returns
<1> DEFINE q == Returns(d)
<1> HIDE DEF q
<1>5. q = [depth \in 0 .. N |->
          IF depth = 0 THEN {} ELSE {f \in Features : d[f] \subseteq q[depth - 1]}]
    BY <1>4 DEF q, N
<1>6. q[0] = {} /\ \A k \in 1 .. N : q[k] = {f \in Features : d[f] \subseteq q[k - 1]}
    <2>1. ASSUME NEW k \in 0 .. N
          PROVE  /\ k = 0 => q[k] = {}
                 /\ k # 0 => q[k] = {f \in Features : d[f] \subseteq q[k - 1]}
        BY <1>5
    <2>2. q[0] = {}
        <3>1. 0 \in 0 .. N
            BY <1>1
        <3> QED
            BY <2>1, <3>1
    <2>3. ASSUME NEW k \in 1 .. N
          PROVE  q[k] = {f \in Features : d[f] \subseteq q[k - 1]}
        <3>1. k \in 0 .. N /\ k # 0
            BY <1>1
        <3> QED
            BY <2>1, <3>1
    <2> QED
        BY <2>2, <2>3
<1> QED
    BY <1>6 DEF q

LEMMA ReachedExists ==
    ASSUME NEW d \in DepsOf, NEW f \in Features
    PROVE  /\ Reached(d, f)[0] = d[f]
           /\ \A k \in 1 .. N : Reached(d, f)[k] =
                  Reached(d, f)[k - 1] \cup UNION {d[g] : g \in Reached(d, f)[k - 1]}
           /\ \A k \in 0 .. N : Reached(d, f)[k] \in SUBSET Features
<1> DEFINE G == [R \in SUBSET Features |-> R \cup UNION {d[g] : g \in R}]
<1>1. N \in Nat /\ d[f] \in SUBSET Features /\ G \in [SUBSET Features -> SUBSET Features]
    BY Count DEF DepsOf
<1>2. PICK r \in [0 .. N -> SUBSET Features] :
          r[0] = d[f] /\ \A k \in 1 .. N : r[k] = G[r[k - 1]]
    <2> DEFINE D == SUBSET Features
               First == d[f]
    <2>1. N \in Nat /\ First \in D /\ G \in [D -> D]
        BY <1>1
    <2> HIDE DEF G, D, First
    <2>2. \E r \in [0 .. N -> D] : r[0] = First /\ \A k \in 1 .. N : r[k] = G[r[k - 1]]
        BY <2>1, Iterates, SMTT(60)
    <2> QED
        BY <2>2 DEF D, First
<1>3. r = [steps \in 0 .. Cardinality(Features) |->
              IF steps = 0 THEN d[f] ELSE r[steps - 1] \cup UNION {d[g] : g \in r[steps - 1]}]
    <2>1. \A k \in 1 .. N : r[k - 1] \in SUBSET Features
        BY <1>1
    <2>2. \A k \in 1 .. N : r[k] = r[k - 1] \cup UNION {d[g] : g \in r[k - 1]}
        BY <1>2, <2>1
    <2>3. ASSUME NEW k \in 0 .. N
          PROVE  r[k] = IF k = 0 THEN d[f] ELSE r[k - 1] \cup UNION {d[g] : g \in r[k - 1]}
        BY <1>1, <1>2, <2>2
    <2> QED
        BY <2>3 DEF N
<1>4. Reached(d, f) = [steps \in 0 .. Cardinality(Features) |->
          IF steps = 0 THEN d[f]
          ELSE Reached(d, f)[steps - 1] \cup UNION {d[g] : g \in Reached(d, f)[steps - 1]}]
    BY <1>3 DEF Reached
<1> DEFINE q == Reached(d, f)
<1> HIDE DEF q
<1>5. q = [steps \in 0 .. N |->
          IF steps = 0 THEN d[f] ELSE q[steps - 1] \cup UNION {d[g] : g \in q[steps - 1]}]
    BY <1>4 DEF q, N
<1>6. q[0] = d[f] /\ \A k \in 1 .. N : q[k] = q[k - 1] \cup UNION {d[g] : g \in q[k - 1]}
    BY <1>1, <1>5
<1>7. \A k \in 0 .. N : q[k] \in SUBSET Features
    <2> DEFINE S == {k \in Nat : k \in 0 .. N => q[k] \in SUBSET Features}
    <2>1. 0 \in S
        BY <1>1, <1>6
    <2>2. ASSUME NEW k \in Nat, k \in S
          PROVE  k + 1 \in S
        <3> SUFFICES ASSUME k + 1 \in 0 .. N
                     PROVE  q[k + 1] \in SUBSET Features
            OBVIOUS
        <3>1. q[k] \in SUBSET Features /\ k + 1 \in 1 .. N
            BY <1>1, <2>2
        <3>2. q[k + 1] = q[k] \cup UNION {d[g] : g \in q[k]}
            BY <1>6, <3>1
        <3> QED
            BY <3>1, <3>2 DEF DepsOf
    <2> HIDE DEF S
    <2>3. Nat \subseteq S
        BY <2>1, <2>2, Induct
    <2> QED
        BY <2>3, <1>1 DEF S
<1> QED
    BY <1>6, <1>7 DEF q

-----------------------------------------------------------------------------
(* What the check accepts.                                                  *)

\* The check found nothing below g, come to by way of the features V.
Clear(n, d, g, V) ==
    V \in SUBSET Features /\ g \in V /\ ~Check(n, d)[<<g, {n[v] : v \in V}>>]

LEMMA ClearStep ==
    ASSUME NEW n \in Names, NEW d \in DepsOf, NEW g, NEW V, Clear(n, d, g, V), NEW dep \in d[g]
    PROVE  dep \in Features /\ dep \notin V /\ Clear(n, d, dep, V \cup {dep})
<1> DEFINE path == {n[v] : v \in V}
<1>1. g \in Features /\ V \in SUBSET Features /\ path \in SUBSET Ids /\ ~Check(n, d)[<<g, path>>]
    BY DEF Clear, Names
<1>2. dep \in Features
    BY <1>1 DEF DepsOf
<1> HIDE DEF path
<1>3. n[dep] \notin path /\ ~Check(n, d)[<<dep, path \cup {n[dep]}>>]
    BY <1>1, CheckExists
<1>4. {n[v] : v \in V \cup {dep}} = path \cup {n[dep]}
    BY DEF path
<1>5. dep \notin V
    BY <1>3 DEF path
<1>6. V \cup {dep} \in SUBSET Features
    BY <1>1, <1>2
<1> QED
    BY <1>2, <1>3, <1>4, <1>5, <1>6 DEF Clear

LEMMA ClearAt ==
    ASSUME NEW n, NEW d, NEW f \in Features, Accepts(n, d, f)
    PROVE  Clear(n, d, f, {f})
<1>1. {n[v] : v \in {f}} = {n[f]}
    OBVIOUS
<1> QED
    BY <1>1 DEF Clear, Accepts

LEMMA OneFewer ==
    ASSUME NEW V \in SUBSET Features, NEW x \in Features, x \notin V
    PROVE  /\ Cardinality(Features \ V) \in Nat \ {0}
           /\ Cardinality(Features \ (V \cup {x})) = Cardinality(Features \ V) - 1
<1> DEFINE R == Features \ V
<1>1. IsFiniteSet(R) /\ Cardinality(R) \in Nat
    BY FeaturesAssumption, FS_Subset, FS_CardinalityType
<1>2. Cardinality(R \ {x}) = Cardinality(R) - 1 /\ Cardinality(R \ {x}) \in Nat
    <2>1. x \in R
        OBVIOUS
    <2> HIDE DEF R
    <2>2. IsFiniteSet(R \ {x}) /\ Cardinality(R \ {x}) = Cardinality(R) - 1
        BY <1>1, <2>1, FS_RemoveElement
    <2> QED
        BY <2>2, FS_CardinalityType
<1>3. Features \ (V \cup {x}) = R \ {x}
    OBVIOUS
<1> HIDE DEF R
<1> QED
    BY <1>1, <1>2, <1>3 DEF R

\* Every call uses up a feature, so the evaluation of what is accepted returns.
LEMMA AcceptedReturns ==
    ASSUME NEW n \in Names, NEW d \in DepsOf, NEW f \in Features, Accepts(n, d, f)
    PROVE  f \in Returns(d)[N]
<1> DEFINE Left(V) == Cardinality(Features \ V)
           S == {k \in Nat : \A g \in Features : \A V \in SUBSET Features : \A m \in 1 .. N :
                     Clear(n, d, g, V) /\ Left(V) <= k /\ k < m => g \in Returns(d)[m]}
<1>1. ASSUME NEW k \in Nat, NEW g \in Features, NEW V \in SUBSET Features, NEW m \in 1 .. N,
             Clear(n, d, g, V), Left(V) <= k, k < m, k = 0 \/ k - 1 \in S
      PROVE  g \in Returns(d)[m]
    <2>1. ASSUME NEW dep \in d[g]
          PROVE  dep \in Returns(d)[m - 1]
        <3>1. dep \in Features /\ dep \notin V /\ Clear(n, d, dep, V \cup {dep})
            BY <1>1, ClearStep
        <3>2. Left(V) \in Nat \ {0} /\ Left(V \cup {dep}) = Left(V) - 1
            BY <3>1, OneFewer
        <3>3. V \cup {dep} \in SUBSET Features
            BY <3>1
        <3> HIDE DEF Left
        <3>4. k # 0 /\ k - 1 \in S /\ Left(V \cup {dep}) <= k - 1 /\ k - 1 < m - 1 /\ m - 1 \in 1 .. N
            BY <1>1, <3>2, Count
        <3> QED
            BY <3>1, <3>3, <3>4
    <2>2. Returns(d)[m] = {h \in Features : d[h] \subseteq Returns(d)[m - 1]}
        BY ReturnsExists
    <2> QED
        BY <2>1, <2>2
<1>2. 0 \in S
    BY <1>1
<1>3. ASSUME NEW k \in Nat, k \in S
      PROVE  k + 1 \in S
    <2>1. k + 1 \in Nat /\ (k + 1) - 1 \in S
        BY <1>3
    <2> QED
        BY <1>1, <2>1
<1> HIDE DEF S
<1>4. Nat \subseteq S
    BY <1>2, <1>3, Induct
<1>5. Left({f}) = N - 1 /\ N \in Nat \ {0}
    <2>1. Features \ {} = Features /\ {} \cup {f} = {f}
        OBVIOUS
    <2>2. Left({}) \in Nat \ {0} /\ Left({} \cup {f}) = Left({}) - 1
        BY OneFewer
    <2> QED
        BY <2>1, <2>2 DEF N
<1>6. N - 1 \in S /\ N \in 1 .. N /\ {f} \in SUBSET Features /\ Clear(n, d, f, {f})
    BY <1>4, <1>5, ClearAt
<1> HIDE DEF Left
<1>7. Left({f}) <= N - 1 /\ N - 1 < N
    BY <1>5
<1> QED
    BY <1>6, <1>7 DEF S

\* However one goes down from what is accepted, one never comes back.
LEMMA NoWayBack ==
    ASSUME NEW n \in Names, NEW d \in DepsOf, NEW f \in Features, NEW V, Clear(n, d, f, V),
           NEW x \in Under(d, f)
    PROVE  x \notin V /\ \E W : V \subseteq W /\ Clear(n, d, x, W)
<1> DEFINE r == Reached(d, f)
           Onward(y) == y \notin V /\ \E W : V \subseteq W /\ Clear(n, d, y, W)
           S == {k \in Nat : k \in 0 .. N => \A y \in r[k] : Onward(y)}
<1>1. /\ r[0] = d[f] /\ \A k \in 1 .. N : r[k] = r[k - 1] \cup UNION {d[g] : g \in r[k - 1]}
    BY ReachedExists
<1>2. ASSUME NEW g, NEW W, V \subseteq W, Clear(n, d, g, W), NEW y \in d[g]
      PROVE  Onward(y)
    <2>1. y \notin W /\ Clear(n, d, y, W \cup {y})
        BY <1>2, ClearStep
    <2> QED
        BY <1>2, <2>1
<1> HIDE DEF r
<1>3. 0 \in S
    BY <1>1, <1>2
<1>4. ASSUME NEW k \in Nat, k \in S
      PROVE  k + 1 \in S
    <2> SUFFICES ASSUME k + 1 \in 0 .. N, NEW y \in r[k + 1]
                 PROVE  Onward(y)
        OBVIOUS
    <2>1. k + 1 \in 1 .. N /\ k \in 0 .. N /\ (k + 1) - 1 = k
        BY Count
    <2>2. r[k + 1] = r[k] \cup UNION {d[g] : g \in r[k]}
        BY <1>1, <2>1
    <2>3. CASE y \in r[k]
        BY <1>4, <2>1, <2>3
    <2>4. CASE \E g \in r[k] : y \in d[g]
        <3>1. PICK g \in r[k] : y \in d[g]
            BY <2>4
        <3>2. Onward(g)
            BY <1>4, <2>1
        <3> QED
            BY <1>2, <3>1, <3>2
    <2> QED
        BY <2>2, <2>3, <2>4
<1> HIDE DEF S
<1>5. N \in S
    BY <1>3, <1>4, Induct, Count
<1> HIDE DEF Onward
<1>6. \A y \in r[N] : Onward(y)
    BY <1>5, Count DEF S
<1>7. Onward(x)
    BY <1>6 DEF Under, r
<1> QED
    BY <1>7 DEF Onward

LEMMA AcceptedHasNoCycle ==
    ASSUME NEW n \in Names, NEW d \in DepsOf, NEW f \in Features, Accepts(n, d, f)
    PROVE  NoCycle(d, f)
<1> SUFFICES ASSUME NEW g \in Under(d, f) \cup {f}
             PROVE  g \notin Under(d, g)
    BY DEF NoCycle
<1>1. Clear(n, d, f, {f})
    BY ClearAt
<1>2. PICK W : Clear(n, d, g, W)
    BY <1>1, NoWayBack
<1>3. g \in Features /\ g \in W
    BY <1>2 DEF Clear
<1> QED
    BY <1>2, <1>3, NoWayBack

-----------------------------------------------------------------------------
(* What the check refuses.                                                  *)

\* As many rounds as there are features reach everything.
LEMMA UnderIsClosed ==
    ASSUME NEW d \in DepsOf, NEW f \in Features
    PROVE  /\ d[f] \subseteq Under(d, f) /\ Under(d, f) \subseteq Features
           /\ \A g \in Under(d, f) : d[g] \subseteq Under(d, f)
<1> DEFINE r == Reached(d, f)
           Next_(R) == R \cup UNION {d[g] : g \in R}
           S == {k \in Nat : k \in 0 .. N =>
                     /\ d[f] \subseteq r[k]
                     /\ Next_(r[k]) = r[k] \/ Cardinality(r[k]) > k}
<1>1. /\ r[0] = d[f] /\ \A k \in 1 .. N : r[k] = Next_(r[k - 1])
      /\ \A k \in 0 .. N : r[k] \in SUBSET Features
    BY ReachedExists
<1>2. ASSUME NEW R \in SUBSET Features
      PROVE  IsFiniteSet(R) /\ Cardinality(R) \in Nat /\ Cardinality(R) <= N
    BY FeaturesAssumption, FS_Subset, FS_CardinalityType DEF N
<1>3. \A R \in SUBSET Features : Next_(R) \in SUBSET Features /\ R \subseteq Next_(R)
    BY DEF DepsOf
<1>4. ASSUME NEW R \in SUBSET Features, Next_(R) # R
      PROVE  Cardinality(Next_(R)) > Cardinality(R)
    <2> DEFINE T == Next_(R)
    <2>1. T \in SUBSET Features /\ R \in SUBSET T /\ T # R
        BY <1>3, <1>4
    <2> HIDE DEF T
    <2>2. IsFiniteSet(T) /\ Cardinality(T) \in Nat /\ Cardinality(R) \in Nat
        BY <1>2, <2>1
    <2>3. Cardinality(R) <= Cardinality(T) /\ (Cardinality(T) = Cardinality(R) => T = R)
        BY <2>1, <2>2, FS_Subset
    <2>4. Cardinality(T) > Cardinality(R)
        BY <2>1, <2>2, <2>3
    <2> QED
        BY <2>4 DEF T
<1> HIDE DEF r, Next_
<1>5. 0 \in S
    <2>1. CASE r[0] = {}
        <3>1. Next_({}) = {}
            BY DEF Next_
        <3> QED
            BY <1>1, <2>1, <3>1
    <2>2. CASE r[0] # {}
        <3>1. 0 \in 0 .. N /\ r[0] \in SUBSET Features
            BY <1>1, Count
        <3>2. IsFiniteSet(r[0]) /\ Cardinality(r[0]) \in Nat /\ Cardinality(r[0]) # 0
            BY <1>2, <2>2, <3>1, FS_EmptySet
        <3> QED
            BY <1>1, <3>2
    <2> QED
        BY <2>1, <2>2
<1>6. ASSUME NEW k \in Nat, k \in S
      PROVE  k + 1 \in S
    <2> SUFFICES ASSUME k + 1 \in 0 .. N
                 PROVE  /\ d[f] \subseteq r[k + 1]
                        /\ Next_(r[k + 1]) = r[k + 1] \/ Cardinality(r[k + 1]) > k + 1
        OBVIOUS
    <2>1. k \in 0 .. N /\ k + 1 \in 1 .. N /\ (k + 1) - 1 = k
        BY Count
    <2>2. r[k + 1] = Next_(r[k]) /\ r[k] \in SUBSET Features /\ r[k + 1] \in SUBSET Features
        BY <1>1, <2>1
    <2>3. d[f] \subseteq r[k + 1]
        BY <1>3, <1>6, <2>1, <2>2
    <2>4. CASE Next_(r[k]) = r[k]
        BY <2>2, <2>3, <2>4
    <2>5. CASE Next_(r[k]) # r[k]
        <3>1. Cardinality(r[k]) > k
            BY <1>6, <2>1, <2>5
        <3>2. Cardinality(r[k + 1]) > Cardinality(r[k])
            BY <1>4, <2>2, <2>5
        <3>3. Cardinality(r[k]) \in Nat /\ Cardinality(r[k + 1]) \in Nat
            BY <1>2, <2>2
        <3>4. Cardinality(r[k + 1]) > k + 1
            BY <3>1, <3>2, <3>3
        <3> QED
            BY <2>3, <3>4
    <2> QED
        BY <2>4, <2>5
<1> HIDE DEF S
<1>7. N \in S
    BY <1>5, <1>6, Induct, Count
<1>8. d[f] \subseteq r[N] /\ r[N] \in SUBSET Features /\ Next_(r[N]) = r[N]
    <2>1. N \in 0 .. N
        BY Count
    <2>2. d[f] \subseteq r[N] /\ r[N] \in SUBSET Features
        BY <1>1, <1>7, <2>1 DEF S
    <2>3. Next_(r[N]) = r[N] \/ Cardinality(r[N]) > N
        BY <1>7, <2>1 DEF S
    <2>4. Cardinality(r[N]) \in Nat /\ Cardinality(r[N]) <= N
        BY <1>2, <2>2
    <2> QED
        BY <2>2, <2>3, <2>4, Count
<1>9. Under(d, f) = r[N]
    BY DEF Under, r
<1> QED
    BY <1>8, <1>9 DEF Next_

LEMMA UnderIsTransitive ==
    ASSUME NEW d \in DepsOf, NEW f \in Features, NEW x \in Under(d, f)
    PROVE  d[x] \subseteq Under(d, f) /\ Under(d, x) \subseteq Under(d, f)
<1> DEFINE r == Reached(d, x)
           U == Under(d, f)
           S == {k \in Nat : k \in 0 .. N => r[k] \subseteq U}
<1>1. x \in Features /\ d[x] \subseteq U /\ \A g \in U : d[g] \subseteq U
    BY UnderIsClosed
<1>2. r[0] = d[x] /\ \A k \in 1 .. N : r[k] = r[k - 1] \cup UNION {d[g] : g \in r[k - 1]}
    BY <1>1, ReachedExists
<1> HIDE DEF r, U
<1>3. 0 \in S
    BY <1>1, <1>2
<1>4. ASSUME NEW k \in Nat, k \in S
      PROVE  k + 1 \in S
    <2> SUFFICES ASSUME k + 1 \in 0 .. N
                 PROVE  r[k + 1] \subseteq U
        OBVIOUS
    <2>1. k \in 0 .. N /\ k + 1 \in 1 .. N /\ (k + 1) - 1 = k
        BY Count
    <2>2. r[k + 1] = r[k] \cup UNION {d[g] : g \in r[k]} /\ r[k] \subseteq U
        BY <1>2, <1>4, <2>1
    <2> QED
        BY <1>1, <2>2
<1> HIDE DEF S
<1>5. N \in S /\ N \in 0 .. N
    BY <1>3, <1>4, Induct, Count
<1>6. r[N] \subseteq U
    BY <1>5 DEF S
<1> QED
    BY <1>1, <1>6 DEF Under, r, U

\* Where names are unique, a name on the path is a feature that was passed.
LEMMA AcyclicIsAccepted ==
    ASSUME NEW n \in Names, NEW d \in DepsOf, NEW f \in Features, NoCycle(d, f),
           \A g, h \in Features : n[g] = n[h] => g = h
    PROVE  Accepts(n, d, f)
<1> DEFINE Left(V) == Cardinality(Features \ V)
           Passed(V, g) ==
               /\ g \in V /\ V \subseteq Under(d, f) \cup {f}
               /\ \A v \in V : v = g \/ g \in Under(d, v)
           S == {k \in Nat : \A g \in Features : \A V \in SUBSET Features :
                     Passed(V, g) /\ Left(V) <= k => ~Check(n, d)[<<g, {n[v] : v \in V}>>]}
<1>1. ASSUME NEW k \in Nat, NEW g \in Features, NEW V \in SUBSET Features, Passed(V, g),
             Left(V) <= k, k = 0 \/ k - 1 \in S
      PROVE  ~Check(n, d)[<<g, {n[v] : v \in V}>>]
    <2> DEFINE path == {n[v] : v \in V}
    <2> SUFFICES ASSUME Check(n, d)[<<g, path>>]
                 PROVE  FALSE
        OBVIOUS
    <2>1. path \in SUBSET Ids
        BY DEF Names
    <2> HIDE DEF path
    <2>2. PICK dep \in d[g] : n[dep] \in path \/ Check(n, d)[<<dep, path \cup {n[dep]}>>]
        BY <2>1, CheckExists
    <2>3. dep \in Features /\ d[g] \subseteq Under(d, g)
        BY UnderIsClosed DEF DepsOf
    <2>4. dep \notin V
        <3> SUFFICES ASSUME dep \in V
                     PROVE  FALSE
            OBVIOUS
        <3>1. dep = g \/ g \in Under(d, dep)
            BY <1>1
        <3>2. dep \in Under(d, dep)
            BY <2>2, <2>3, <3>1, UnderIsTransitive
        <3>3. dep \in Under(d, f) \cup {f}
            BY <1>1
        <3> QED
            BY <3>2, <3>3 DEF NoCycle
    <2>5. n[dep] \notin path
        <3> SUFFICES ASSUME NEW v \in V, n[dep] = n[v]
                     PROVE  FALSE
            BY DEF path
        <3> QED
            BY <2>3, <2>4
    <2>6. {n[v] : v \in V \cup {dep}} = path \cup {n[dep]}
        BY DEF path
    <2>7. Passed(V \cup {dep}, dep)
        <3>1. d[f] \subseteq Under(d, f)
            BY UnderIsClosed
        <3>2. dep \in Under(d, f)
            <4>1. CASE g = f
                BY <2>2, <3>1, <4>1
            <4>2. CASE g \in Under(d, f)
                BY <2>2, <4>2, UnderIsTransitive
            <4> QED
                BY <1>1, <4>1, <4>2
        <3>3. ASSUME NEW v \in V
              PROVE  dep \in Under(d, v)
            <4>1. CASE v = g
                BY <2>2, <2>3, <4>1
            <4>2. CASE g \in Under(d, v)
                BY <2>2, <4>2, UnderIsTransitive
            <4> QED
                BY <1>1, <4>1, <4>2
        <3> QED
            BY <1>1, <3>2, <3>3
    <2>8. Left(V) \in Nat \ {0} /\ Left(V \cup {dep}) = Left(V) - 1
        BY <2>3, <2>4, OneFewer
    <2> HIDE DEF Left, Passed
    <2>9. k - 1 \in S /\ Left(V \cup {dep}) <= k - 1 /\ V \cup {dep} \in SUBSET Features
        BY <1>1, <2>3, <2>8
    <2>10. ~Check(n, d)[<<dep, {n[v] : v \in V \cup {dep}}>>]
        BY <2>3, <2>7, <2>9
    <2> QED
        BY <2>2, <2>5, <2>6, <2>10
<1> HIDE DEF Left, Passed
<1>2. 0 \in S
    BY <1>1
<1>3. ASSUME NEW k \in Nat, k \in S
      PROVE  k + 1 \in S
    <2>1. k + 1 \in Nat /\ (k + 1) - 1 \in S
        BY <1>3
    <2> QED
        BY <1>1, <2>1
<1> HIDE DEF S
<1>4. Nat \subseteq S
    BY <1>2, <1>3, Induct
<1>5. Passed({f}, f) /\ {f} \in SUBSET Features
    BY DEF Passed
<1>6. Left({f}) \in Nat
    BY FeaturesAssumption, FS_Subset, FS_CardinalityType DEF Left
<1>7. ~Check(n, d)[<<f, {n[v] : v \in {f}}>>]
    <2>1. Left({f}) \in S /\ Left({f}) <= Left({f})
        BY <1>4, <1>6
    <2> QED
        BY <1>5, <2>1 DEF S
<1>8. {n[v] : v \in {f}} = {n[f]}
    OBVIOUS
<1> QED
    BY <1>7, <1>8 DEF Accepts

-----------------------------------------------------------------------------
(* The results.                                                             *)

Inv ==
    /\ TypeOK
    /\ settled /\ output # Nil => Accepts(id, deps, output)
    /\ OverflowsOnlyIfChanged

LEMMA InvInit ==
    ASSUME Init
    PROVE  Inv
BY DEF Init, Inv, TypeOK, OverflowsOnlyIfChanged

LEMMA InvStep ==
    ASSUME Inv, [Next]_vars
    PROVE  Inv'
<1>1. CASE \E f, g \in Features : AddDependency(f, g)
    <2>1. PICK f \in Features, g \in Features : AddDependency(f, g)
        BY <1>1
    <2>2. TypeOK' /\ settled' = FALSE /\ outcome' = "added"
        BY <2>1 DEF AddDependency, Inv, TypeOK
    <2> QED
        BY <2>2 DEF Inv, OverflowsOnlyIfChanged
<1>2. CASE \E f \in Features : SetOutputFeature(f)
    <2>1. PICK f \in Features : SetOutputFeature(f)
        BY <1>2
    <2>2. /\ UNCHANGED <<id, deps>> /\ settled' = TRUE
          /\ \/ output' = Nil /\ outcome' = "cycle"
             \/ output' = f /\ outcome' = "set" /\ Accepts(id, deps, f)
        <3>1. CASE HasDependencyCycle(f)
            BY <2>1, <3>1 DEF SetOutputFeature
        <3>2. CASE ~HasDependencyCycle(f)
            <4>1. Accepts(id, deps, f)
                BY <3>2, Unfolded
            <4> QED
                BY <2>1, <3>2, <4>1 DEF SetOutputFeature
        <3> QED
            BY <3>1, <3>2
    <2>3. TypeOK'
        BY <2>2 DEF Inv, TypeOK
    <2>4. settled' /\ output' # Nil => Accepts(id', deps', output')
        BY <2>2
    <2>5. OverflowsOnlyIfChanged'
        BY <2>2 DEF OverflowsOnlyIfChanged
    <2> QED
        BY <2>3, <2>4, <2>5 DEF Inv
<1>3. CASE Calculate
    <2>1. UNCHANGED <<id, deps, output, settled>>
        BY <1>3 DEF Calculate
    <2>2. \/ outcome' = "null_dereference"
          \/ outcome' = "cost"
          \/ outcome' = "stack_overflow" /\ output # Nil /\ output \notin Evaluable
        <3>1. CASE output = Nil
            BY <1>3, <3>1 DEF Calculate
        <3>2. CASE output # Nil /\ output \in Evaluable
            BY <1>3, <3>2 DEF Calculate
        <3>3. CASE output # Nil /\ output \notin Evaluable
            BY <1>3, <3>3 DEF Calculate
        <3> QED
            BY <3>1, <3>2, <3>3
    <2>3. settled /\ output # Nil => output \in Evaluable
        <3> SUFFICES ASSUME settled, output # Nil
                     PROVE  output \in Evaluable
            OBVIOUS
        <3>1. id \in Names /\ deps \in DepsOf /\ output \in Features /\ Accepts(id, deps, output)
            BY DEF Inv, TypeOK, Names, DepsOf
        <3> QED
            BY <3>1, AcceptedReturns, Unfolded
    <2>4. TypeOK'
        BY <2>1, <2>2 DEF Inv, TypeOK
    <2>5. OverflowsOnlyIfChanged'
        BY <2>1, <2>2, <2>3 DEF OverflowsOnlyIfChanged
    <2>6. settled' /\ output' # Nil => Accepts(id', deps', output')
        BY <2>1 DEF Inv
    <2> QED
        BY <2>4, <2>5, <2>6 DEF Inv
<1>4. CASE SetNoOutput
    BY <1>4 DEF SetNoOutput, Inv, TypeOK, OverflowsOnlyIfChanged
<1>5. CASE UNCHANGED vars
    BY <1>5 DEF vars, Inv, TypeOK, OverflowsOnlyIfChanged
<1> QED
    BY <1>1, <1>2, <1>3, <1>4, <1>5 DEF Next

THEOREM Invariant == Spec => []Inv
<1>1. Init => Inv
    BY InvInit
<1>2. Inv /\ [Next]_vars => Inv'
    BY InvStep
<1> QED
    BY <1>1, <1>2, PTL DEF Spec

\* Dependencies are features, and the output one of them or none, whatever is
\* called in which order (FeatureManager.cpp:59-83, Feature.cpp:12-14).
THEOREM TypeCorrect == Spec => []TypeOK
<1>1. Inv => TypeOK
    BY DEF Inv
<1> QED
    BY <1>1, Invariant, PTL

\* The check looks at names along each path, yet every graph of objects it accepts
\* has no cycle and is evaluated in finitely many calls (FeatureManager.cpp:30-68).
THEOREM CheckIsSound == Spec => []AcceptedOutputsReturn
<1>1. Inv => AcceptedOutputsReturn
    <2> SUFFICES ASSUME Inv, settled, output # Nil
                 PROVE  Acyclic(output) /\ output \in Evaluable
        BY DEF AcceptedOutputsReturn
    <2>1. id \in Names /\ deps \in DepsOf /\ output \in Features /\ Accepts(id, deps, output)
        BY DEF Inv, TypeOK, Names, DepsOf
    <2>2. NoCycle(deps, output) /\ output \in Returns(deps)[N]
        BY <2>1, AcceptedHasNoCycle, AcceptedReturns
    <2> QED
        BY <2>2, Unfolded
<1> QED
    BY <1>1, Invariant, PTL

\* The stack overflows only if a dependency was added to a graph after it had been
\* accepted (Feature.cpp:12-14, FeatureManager.cpp:70-83).
THEOREM OverflowNeedsAChange == Spec => []OverflowsOnlyIfChanged
<1>1. Inv => OverflowsOnlyIfChanged
    BY DEF Inv
<1> QED
    BY <1>1, Invariant, PTL

\* And with unique names it refuses nothing else (Feature.hpp:19,
\* FeatureManager.cpp:46-51).
THEOREM CheckIsComplete == Spec => RefusesOnlyCycles
<1>1. ASSUME Inv
      PROVE  \A f \in Features :
                 (\A g, h \in Features : id[g] = id[h] => g = h) /\ Acyclic(f) /\ SetOutputFeature(f)
                     => outcome' = "set"
    <2> SUFFICES ASSUME NEW f \in Features, \A g, h \in Features : id[g] = id[h] => g = h,
                        Acyclic(f), SetOutputFeature(f)
                 PROVE  outcome' = "set"
        OBVIOUS
    <2>1. id \in Names /\ deps \in DepsOf /\ NoCycle(deps, f)
        BY <1>1, Unfolded DEF Inv, TypeOK, Names, DepsOf
    <2>2. ~HasDependencyCycle(f)
        BY <2>1, AcyclicIsAccepted, Unfolded
    <2> QED
        BY <2>2 DEF SetOutputFeature
<1> QED
    BY <1>1, Invariant, PTL DEF RefusesOnlyCycles
=============================================================================
