--------------------------- MODULE WarningsProofs ----------------------------
(***************************************************************************)
(* Proofs about what a route costs and what its user is warned of, for     *)
(* every mesh and every world.                                             *)
(***************************************************************************)
EXTENDS Warnings, FiniteSetTheorems, Induction

-----------------------------------------------------------------------------
(* Folds.  What a fold has after each element of its sequence.              *)

LEMMA MaxIs ==
    ASSUME NEW S \in SUBSET Int, NEW m \in S, \A x \in S : x <= m
    PROVE  Max(S) = m
<1>1. \A y \in S : m >= y
    OBVIOUS
<1>2. Max(S) \in S /\ \A y \in S : Max(S) >= y
    BY <1>1 DEF Max
<1>3. m \in Int /\ Max(S) \in Int /\ Max(S) >= m /\ Max(S) <= m
    BY <1>2
<1> QED
    BY <1>3

LEMMA MaxIsIn ==
    ASSUME NEW n \in Nat, NEW S \in SUBSET (1 .. n), S # {}
    PROVE  Max(S) \in S
<1> DEFINE T == {n - x : x \in S}
<1>1. T \subseteq Nat /\ T # {}
    <2>1. PICK x \in S : TRUE
        OBVIOUS
    <2>2. n - x \in T
        BY <2>1
    <2>3. T \subseteq Nat
        OBVIOUS
    <2> QED
        BY <2>2, <2>3
<1>2. PICK t \in T : \A u \in T : t <= u
    BY <1>1, LeastNatural
<1>3. PICK m \in S : t = n - m
    BY <1>2
<1>4. \A x \in S : x <= m
    <2>1. \A x \in S : n - x \in T
        OBVIOUS
    <2> QED
        BY <1>2, <1>3, <2>1
<1>5. S \in SUBSET Int
    OBVIOUS
<1> QED
    BY <1>4, <1>5, MaxIs

Folds(D, G, base, s, iter) ==
    /\ iter \in [SUBSET DOMAIN s -> D]
    /\ iter = [S \in SUBSET DOMAIN s |->
                  IF S = {} THEN base ELSE G[<<iter[S \ {Max(S)}], s[Max(S)]>>]]
Folded(D, G, base, s) == CHOOSE iter : Folds(D, G, base, s, iter)

\* A function may be defined by recursion over the subsets of an interval.
LEMMA FoldExists ==
    ASSUME NEW D, NEW E, NEW base \in D, NEW G \in [D \X E -> D], NEW s \in Seq(E)
    PROVE  /\ Folds(D, G, base, s, Folded(D, G, base, s))
           /\ \A S \in SUBSET DOMAIN s : S # {} =>
                 Folded(D, G, base, s)[S \ {Max(S)}] \in D /\ s[Max(S)] \in E
<1> DEFINE Upto(h, k) ==
        /\ h \in [SUBSET (1 .. k) -> D]
        /\ \A S \in SUBSET (1 .. k) :
              h[S] = IF S = {} THEN base ELSE G[<<h[S \ {Max(S)}], s[Max(S)]>>]
    T == {k \in Nat : k <= Len(s) => \E h : Upto(h, k)}
<1>1. 0 \in T
    <2>1. Upto([S \in SUBSET (1 .. 0) |-> base], 0)
        OBVIOUS
    <2> QED
        BY <2>1
<1> HIDE DEF Upto
<1>2. ASSUME NEW k \in Nat, k \in T
      PROVE  k + 1 \in T
    <2> SUFFICES ASSUME k + 1 <= Len(s)
                 PROVE  \E h : Upto(h, k + 1)
        OBVIOUS
    <2>1. PICK h : Upto(h, k)
        BY <1>2
    <2> DEFINE g == [S \in SUBSET (1 .. k + 1) |->
                        IF k + 1 \in S THEN G[<<h[S \ {k + 1}], s[k + 1]>>] ELSE h[S]]
    <2>2. s[k + 1] \in E
        OBVIOUS
    <2>3. \A S \in SUBSET (1 .. k + 1) : S \ {k + 1} \in SUBSET (1 .. k)
        OBVIOUS
    <2>4. \A S \in SUBSET (1 .. k + 1) : h[S \ {k + 1}] \in D
        BY <2>1, <2>3 DEF Upto
    <2>5. \A S \in SUBSET (1 .. k + 1) : k + 1 \notin S => h[S] \in D /\ S \in SUBSET (1 .. k)
        BY <2>1, <2>3 DEF Upto
    <2>6. g \in [SUBSET (1 .. k + 1) -> D]
        BY <2>2, <2>4, <2>5
    <2>7. ASSUME NEW S \in SUBSET (1 .. k + 1)
          PROVE  g[S] = IF S = {} THEN base ELSE G[<<g[S \ {Max(S)}], s[Max(S)]>>]
        <3>1. CASE k + 1 \in S
            <4>1. Max(S) = k + 1
                BY <3>1, MaxIs
            <4>2. k + 1 \notin S \ {k + 1} /\ S \ {k + 1} \in SUBSET (1 .. k + 1)
                OBVIOUS
            <4>3. g[S \ {k + 1}] = h[S \ {k + 1}]
                BY <4>2
            <4>4. g[S] = G[<<h[S \ {k + 1}], s[k + 1]>>]
                BY <3>1
            <4> QED
                BY <3>1, <4>1, <4>3, <4>4
        <3>2. CASE k + 1 \notin S
            <4>1. S \in SUBSET (1 .. k) /\ g[S] = h[S]
                BY <2>5, <3>2
            <4>2. k + 1 \notin S \ {Max(S)} /\ S \ {Max(S)} \in SUBSET (1 .. k + 1)
                BY <3>2
            <4>3. g[S \ {Max(S)}] = h[S \ {Max(S)}]
                BY <4>2
            <4>4. h[S] = IF S = {} THEN base ELSE G[<<h[S \ {Max(S)}], s[Max(S)]>>]
                BY <2>1, <4>1 DEF Upto
            <4> QED
                BY <4>1, <4>3, <4>4
        <3> QED
            BY <3>1, <3>2
    <2> HIDE DEF g
    <2>8. Upto(g, k + 1)
        BY <2>6, <2>7 DEF Upto
    <2> QED
        BY <2>8
<1> HIDE DEF T
<1>3. Len(s) \in Nat /\ DOMAIN s = 1 .. Len(s)
    OBVIOUS
<1>4. Len(s) \in T
    BY <1>1, <1>2, <1>3, Induct
<1>5. PICK h : Upto(h, Len(s))
    BY <1>3, <1>4 DEF T
<1>6. h \in [SUBSET DOMAIN s -> D]
    BY <1>3, <1>5 DEF Upto
<1>7. h = [S \in SUBSET DOMAIN s |-> h[S]]
    BY <1>6
<1>8. Folds(D, G, base, s, h)
    BY <1>3, <1>5, <1>6, <1>7 DEF Folds, Upto
<1>9. Folds(D, G, base, s, Folded(D, G, base, s))
    BY <1>8 DEF Folded
<1>10. ASSUME NEW S \in SUBSET DOMAIN s, S # {}
       PROVE  Folded(D, G, base, s)[S \ {Max(S)}] \in D /\ s[Max(S)] \in E
    <2>1. Max(S) \in DOMAIN s
        BY <1>3, <1>10, MaxIsIn
    <2>2. S \ {Max(S)} \in SUBSET DOMAIN s
        OBVIOUS
    <2>3. s \in [DOMAIN s -> E]
        OBVIOUS
    <2>4. Folded(D, G, base, s) \in [SUBSET DOMAIN s -> D]
        BY <1>9 DEF Folds
    <2> QED
        BY <2>1, <2>2, <2>3, <2>4
<1> QED
    BY <1>9, <1>10

LEMMA Intervals ==
    ASSUME NEW k \in Nat
    PROVE  Max(1 .. k + 1) = k + 1 /\ (1 .. k + 1) \ {k + 1} = 1 .. k /\ 1 .. k + 1 # {}
<1>1. k + 1 \in 1 .. k + 1 /\ (1 .. k + 1) \in SUBSET Int /\ \A x \in 1 .. k + 1 : x <= k + 1
    OBVIOUS
<1>2. Max(1 .. k + 1) = k + 1
    BY <1>1, MaxIs
<1> QED
    BY <1>2

Messages == DOMAIN Priority

AddedUpTo(o, s) ==
    CHOOSE iter : iter = [S \in SUBSET DOMAIN s |->
        IF S = {} THEN o ELSE AddWarning(iter[S \ {Max(S)}], s[Max(S)])]

LEMMA AddWarningSteps ==
    ASSUME NEW o \in Messages, NEW s \in Seq(Messages)
    PROVE  /\ FoldLeft(AddWarning, o, s) = AddedUpTo(o, s)[1 .. Len(s)]
           /\ AddedUpTo(o, s)[{}] = o
           /\ \A k \in Nat : k + 1 <= Len(s) =>
                 AddedUpTo(o, s)[1 .. k + 1] = AddWarning(AddedUpTo(o, s)[1 .. k], s[k + 1])
<1> DEFINE G == [x \in Messages \X Messages |-> AddWarning(x[1], x[2])]
           h == Folded(Messages, G, o, s)
           it == AddedUpTo(o, s)
<1>1. G \in [Messages \X Messages -> Messages]
    BY DEF AddWarning
<1> HIDE DEF h, it
<1>2. /\ Folds(Messages, G, o, s, h)
      /\ \A S \in SUBSET DOMAIN s : S # {} => h[S \ {Max(S)}] \in Messages /\ s[Max(S)] \in Messages
    <2> HIDE DEF G
    <2> QED
        BY <1>1, FoldExists DEF h
<1>3. h = [S \in SUBSET DOMAIN s |-> IF S = {} THEN o ELSE AddWarning(h[S \ {Max(S)}], s[Max(S)])]
    <2>1. \A S \in SUBSET DOMAIN s : S # {} =>
              G[<<h[S \ {Max(S)}], s[Max(S)]>>] = AddWarning(h[S \ {Max(S)}], s[Max(S)])
        BY <1>2
    <2>2. h = [S \in SUBSET DOMAIN s |-> IF S = {} THEN o ELSE G[<<h[S \ {Max(S)}], s[Max(S)]>>]]
        BY <1>2 DEF Folds
    <2> HIDE DEF G
    <2> QED
        BY <2>1, <2>2
<1>4. it = [S \in SUBSET DOMAIN s |-> IF S = {} THEN o ELSE AddWarning(it[S \ {Max(S)}], s[Max(S)])]
    BY <1>3 DEF it, AddedUpTo
<1>5. Len(s) \in Nat /\ DOMAIN s = 1 .. Len(s)
    OBVIOUS
<1>6. FoldLeft(AddWarning, o, s) = it[1 .. Len(s)]
    BY <1>5 DEF FoldLeft, MapThenFoldSet, it, AddedUpTo
<1>7. it[{}] = o /\ \A S \in SUBSET DOMAIN s : S # {} =>
                          it[S] = AddWarning(it[S \ {Max(S)}], s[Max(S)])
    BY <1>4
<1>8. ASSUME NEW k \in Nat, k + 1 <= Len(s)
      PROVE  it[1 .. k + 1] = AddWarning(it[1 .. k], s[k + 1])
    <2>1. 1 .. k + 1 \in SUBSET DOMAIN s
        BY <1>5, <1>8
    <2> DEFINE I == 1 .. k + 1
    <2>2. Max(I) = k + 1 /\ I \ {k + 1} = 1 .. k /\ I # {}
        BY Intervals
    <2> HIDE DEF I
    <2>3. it[I] = AddWarning(it[I \ {Max(I)}], s[Max(I)])
        BY <1>7, <2>1, <2>2 DEF I
    <2> QED
        BY <2>2, <2>3 DEF I
<1> QED
    BY <1>6, <1>7, <1>8 DEF it

Values == [n : Nat, d : Nat \ {0}]
Totals == [value : Values \cup {Inf}, warnings : Seq(Messages), done : BOOLEAN]
Flags == [value : BOOLEAN, warnings : Seq(Messages)]
Speeds == [value : Values \cup {Inf}, warnings : Seq(Messages)]
Dependencies == ({"BOOL"} \X Flags) \cup ({"DOUBLE"} \X Speeds)

Bests == Faces \cup {"none"}

LEMMA ProductOfValues ==
    ASSUME NEW x \in Values \cup {Inf}, NEW y \in Values \cup {Inf}
    PROVE  Times(x, y) \in Values \cup {Inf}
<1>1. CASE x = Inf \/ y = Inf
    BY <1>1 DEF Times
<1>2. CASE x # Inf /\ y # Inf
    <2>1. x.n \in Nat /\ y.n \in Nat /\ x.d \in Nat \ {0} /\ y.d \in Nat \ {0}
        BY <1>2 DEF Values
    <2>2. x.n * y.n \in Nat /\ x.d * y.d \in Nat \ {0}
        BY <2>1
    <2> QED
        BY <1>2, <2>2 DEF Times, Fraction, Values
<1> QED
    BY <1>1, <1>2

LEMMA MultiplyType ==
    ASSUME NEW t \in Totals, NEW x \in Dependencies
    PROVE  Multiply(t, x) \in Totals
<1>1. /\ t.value \in Values \cup {Inf} /\ t.warnings \in Seq(Messages) /\ t.done \in BOOLEAN
      /\ x[1] \in {"BOOL", "DOUBLE"} /\ x[2].warnings \in Seq(Messages)
      /\ x[1] = "BOOL" => x[2].value \in BOOLEAN
      /\ x[1] = "DOUBLE" => x[2].value \in Values \cup {Inf}
    BY DEF Totals, Dependencies, Flags, Speeds
<1>2. t.warnings \o x[2].warnings \in Seq(Messages)
    BY <1>1
<1> DEFINE w == [t EXCEPT !.warnings = @ \o x[2].warnings]
           p == Times(t.value, x[2].value)
<1>3. w \in Totals
    BY <1>1, <1>2 DEF Totals
<1>4. x[1] = "DOUBLE" => p \in Values \cup {Inf}
    BY <1>1, ProductOfValues
<1>5. Fraction(0, 1) \in Values /\ Zero(p) \in BOOLEAN
    BY DEF Fraction, Values, Zero
<1>6. /\ x[1] = "DOUBLE" => [w EXCEPT !.value = p, !.done = Zero(p)] \in Totals
      /\ [w EXCEPT !.value = Fraction(0, 1), !.done = TRUE] \in Totals
    <2> HIDE DEF w, p
    <2> QED
        BY <1>3, <1>4, <1>5 DEF Totals
<1>7. Multiply(t, x) =
          CASE t.done -> t
            [] ~t.done /\ x[1] = "DOUBLE" -> [w EXCEPT !.value = p, !.done = Zero(p)]
            [] ~t.done /\ x[1] = "BOOL" ->
                  IF x[2].value THEN w ELSE [w EXCEPT !.value = Fraction(0, 1), !.done = TRUE]
    BY DEF Multiply
<1> HIDE DEF w, p
<1> QED
    BY <1>1, <1>3, <1>6, <1>7

GravestUpTo(o, s) ==
    CHOOSE iter : iter = [S \in SUBSET DOMAIN s |->
        IF S = {} THEN o ELSE Graver(iter[S \ {Max(S)}], s[Max(S)])]

LEMMA GraverSteps ==
    ASSUME NEW o \in Bests, NEW s \in Seq(Faces)
    PROVE  /\ FoldLeft(Graver, o, s) = GravestUpTo(o, s)[1 .. Len(s)]
           /\ GravestUpTo(o, s)[{}] = o
           /\ \A k \in Nat : k + 1 <= Len(s) =>
                 GravestUpTo(o, s)[1 .. k + 1] = Graver(GravestUpTo(o, s)[1 .. k], s[k + 1])
<1> DEFINE G == [x \in Bests \X Faces |-> Graver(x[1], x[2])]
           h == Folded(Bests, G, o, s)
           it == GravestUpTo(o, s)
<1>1. G \in [Bests \X Faces -> Bests]
    BY DEF Graver, Bests
<1> HIDE DEF h, it
<1>2. /\ Folds(Bests, G, o, s, h)
      /\ \A S \in SUBSET DOMAIN s : S # {} => h[S \ {Max(S)}] \in Bests /\ s[Max(S)] \in Faces
    <2> HIDE DEF G
    <2> QED
        BY <1>1, FoldExists DEF h
<1>3. h = [S \in SUBSET DOMAIN s |-> IF S = {} THEN o ELSE Graver(h[S \ {Max(S)}], s[Max(S)])]
    <2>1. \A S \in SUBSET DOMAIN s : S # {} =>
              G[<<h[S \ {Max(S)}], s[Max(S)]>>] = Graver(h[S \ {Max(S)}], s[Max(S)])
        BY <1>2
    <2>2. h = [S \in SUBSET DOMAIN s |-> IF S = {} THEN o ELSE G[<<h[S \ {Max(S)}], s[Max(S)]>>]]
        BY <1>2 DEF Folds
    <2> HIDE DEF G
    <2> QED
        BY <2>1, <2>2
<1>4. it = [S \in SUBSET DOMAIN s |-> IF S = {} THEN o ELSE Graver(it[S \ {Max(S)}], s[Max(S)])]
    BY <1>3 DEF it, GravestUpTo
<1>5. Len(s) \in Nat /\ DOMAIN s = 1 .. Len(s)
    OBVIOUS
<1>6. FoldLeft(Graver, o, s) = it[1 .. Len(s)]
    BY <1>5 DEF FoldLeft, MapThenFoldSet, it, GravestUpTo
<1>7. it[{}] = o /\ \A S \in SUBSET DOMAIN s : S # {} =>
                          it[S] = Graver(it[S \ {Max(S)}], s[Max(S)])
    BY <1>4
<1>8. ASSUME NEW k \in Nat, k + 1 <= Len(s)
      PROVE  it[1 .. k + 1] = Graver(it[1 .. k], s[k + 1])
    <2>1. 1 .. k + 1 \in SUBSET DOMAIN s
        BY <1>5, <1>8
    <2> DEFINE I == 1 .. k + 1
    <2>2. Max(I) = k + 1 /\ I \ {k + 1} = 1 .. k /\ I # {}
        BY Intervals
    <2> HIDE DEF I
    <2>3. it[I] = Graver(it[I \ {Max(I)}], s[Max(I)])
        BY <1>7, <2>1, <2>2 DEF I
    <2> QED
        BY <2>2, <2>3 DEF I
<1> QED
    BY <1>6, <1>7, <1>8 DEF it

MultipliedUpTo(o, s) ==
    CHOOSE iter : iter = [S \in SUBSET DOMAIN s |->
        IF S = {} THEN o ELSE Multiply(iter[S \ {Max(S)}], s[Max(S)])]

LEMMA MultiplySteps ==
    ASSUME NEW o \in Totals, NEW s \in Seq(Dependencies)
    PROVE  /\ FoldLeft(Multiply, o, s) = MultipliedUpTo(o, s)[1 .. Len(s)]
           /\ MultipliedUpTo(o, s)[{}] = o
           /\ \A k \in Nat : k + 1 <= Len(s) =>
                 MultipliedUpTo(o, s)[1 .. k + 1] = Multiply(MultipliedUpTo(o, s)[1 .. k], s[k + 1])
<1> DEFINE G == [x \in Totals \X Dependencies |-> Multiply(x[1], x[2])]
           h == Folded(Totals, G, o, s)
           it == MultipliedUpTo(o, s)
<1>1. G \in [Totals \X Dependencies -> Totals]
    BY MultiplyType
<1> HIDE DEF h, it
<1>2. /\ Folds(Totals, G, o, s, h)
      /\ \A S \in SUBSET DOMAIN s : S # {} => h[S \ {Max(S)}] \in Totals /\ s[Max(S)] \in Dependencies
    <2> HIDE DEF G
    <2> QED
        BY <1>1, FoldExists DEF h
<1>3. h = [S \in SUBSET DOMAIN s |-> IF S = {} THEN o ELSE Multiply(h[S \ {Max(S)}], s[Max(S)])]
    <2>1. \A S \in SUBSET DOMAIN s : S # {} =>
              G[<<h[S \ {Max(S)}], s[Max(S)]>>] = Multiply(h[S \ {Max(S)}], s[Max(S)])
        BY <1>2
    <2>2. h = [S \in SUBSET DOMAIN s |-> IF S = {} THEN o ELSE G[<<h[S \ {Max(S)}], s[Max(S)]>>]]
        BY <1>2 DEF Folds
    <2> HIDE DEF G
    <2> QED
        BY <2>1, <2>2
<1>4. it = [S \in SUBSET DOMAIN s |-> IF S = {} THEN o ELSE Multiply(it[S \ {Max(S)}], s[Max(S)])]
    BY <1>3 DEF it, MultipliedUpTo
<1>5. Len(s) \in Nat /\ DOMAIN s = 1 .. Len(s)
    OBVIOUS
<1>6. FoldLeft(Multiply, o, s) = it[1 .. Len(s)]
    BY <1>5 DEF FoldLeft, MapThenFoldSet, it, MultipliedUpTo
<1>7. it[{}] = o /\ \A S \in SUBSET DOMAIN s : S # {} =>
                          it[S] = Multiply(it[S \ {Max(S)}], s[Max(S)])
    BY <1>4
<1>8. ASSUME NEW k \in Nat, k + 1 <= Len(s)
      PROVE  it[1 .. k + 1] = Multiply(it[1 .. k], s[k + 1])
    <2>1. 1 .. k + 1 \in SUBSET DOMAIN s
        BY <1>5, <1>8
    <2> DEFINE I == 1 .. k + 1
    <2>2. Max(I) = k + 1 /\ I \ {k + 1} = 1 .. k /\ I # {}
        BY Intervals
    <2> HIDE DEF I
    <2>3. it[I] = Multiply(it[I \ {Max(I)}], s[Max(I)])
        BY <1>7, <2>1, <2>2 DEF I
    <2> QED
        BY <2>2, <2>3 DEF I
<1> QED
    BY <1>6, <1>7, <1>8 DEF it

SumFrom(o, s) == FoldLeft(+, o, s)
SumUpTo(o, s) ==
    CHOOSE iter : iter = [S \in SUBSET DOMAIN s |->
        IF S = {} THEN o ELSE iter[S \ {Max(S)}] + s[Max(S)]]

LEMMA SumSteps ==
    ASSUME NEW o \in Int, NEW s \in Seq(Int)
    PROVE  /\ SumFrom(o, s) = SumUpTo(o, s)[1 .. Len(s)]
           /\ SumUpTo(o, s)[{}] = o
           /\ \A k \in Nat : k + 1 <= Len(s) =>
                 SumUpTo(o, s)[1 .. k + 1] = SumUpTo(o, s)[1 .. k] + s[k + 1]
<1> DEFINE G == [x \in Int \X Int |-> x[1] + x[2]]
           h == Folded(Int, G, o, s)
           it == SumUpTo(o, s)
<1>1. G \in [Int \X Int -> Int]
    OBVIOUS
<1> HIDE DEF h, it
<1>2. /\ Folds(Int, G, o, s, h)
      /\ \A S \in SUBSET DOMAIN s : S # {} => h[S \ {Max(S)}] \in Int /\ s[Max(S)] \in Int
    <2> HIDE DEF G
    <2> QED
        BY <1>1, FoldExists DEF h
<1>3. h = [S \in SUBSET DOMAIN s |-> IF S = {} THEN o ELSE h[S \ {Max(S)}] + s[Max(S)]]
    <2>1. \A S \in SUBSET DOMAIN s : S # {} =>
              G[<<h[S \ {Max(S)}], s[Max(S)]>>] = h[S \ {Max(S)}] + s[Max(S)]
        BY <1>2
    <2>2. h = [S \in SUBSET DOMAIN s |-> IF S = {} THEN o ELSE G[<<h[S \ {Max(S)}], s[Max(S)]>>]]
        BY <1>2 DEF Folds
    <2> HIDE DEF G
    <2> QED
        BY <2>1, <2>2
<1>4. it = [S \in SUBSET DOMAIN s |-> IF S = {} THEN o ELSE it[S \ {Max(S)}] + s[Max(S)]]
    BY <1>3 DEF it, SumUpTo
<1>5. Len(s) \in Nat /\ DOMAIN s = 1 .. Len(s)
    OBVIOUS
<1>6. SumFrom(o, s) = it[1 .. Len(s)]
    BY <1>5 DEF SumFrom, FoldLeft, MapThenFoldSet, it, SumUpTo
<1>7. it[{}] = o /\ \A S \in SUBSET DOMAIN s : S # {} =>
                          it[S] = it[S \ {Max(S)}] + s[Max(S)]
    BY <1>4
<1>8. ASSUME NEW k \in Nat, k + 1 <= Len(s)
      PROVE  it[1 .. k + 1] = it[1 .. k] + s[k + 1]
    <2>1. 1 .. k + 1 \in SUBSET DOMAIN s
        BY <1>5, <1>8
    <2> DEFINE I == 1 .. k + 1
    <2>2. Max(I) = k + 1 /\ I \ {k + 1} = 1 .. k /\ I # {}
        BY Intervals
    <2> HIDE DEF I
    <2>3. it[I] = it[I \ {Max(I)}] + s[Max(I)]
        BY <1>7, <2>1, <2>2 DEF I
    <2> QED
        BY <2>2, <2>3 DEF I
<1> QED
    BY <1>6, <1>7, <1>8 DEF it

-----------------------------------------------------------------------------
(* What the folds give.                                                     *)

LEMMA Priorities ==
    /\ Messages = {"NONE", "slight", "steep", "woodland", "potentialHeather", "heather",
                   "marsh", "bog", "untraversable", "water", "noWaterData"}
    /\ \A m \in Messages : Priority[m] \in Nat
    /\ Priority["NONE"] = 0
    /\ \A m \in {"heather", "marsh", "bog", "untraversable", "water", "noWaterData"} :
          Priority[m] >= 10
BY DEF Messages, Priority

\* Of all the warnings added to a face one of the gravest stays.
LEMMA GravestStays ==
    ASSUME NEW o \in Messages, NEW s \in Seq(Messages)
    PROVE  /\ FoldLeft(AddWarning, o, s) \in {o} \cup ToSet(s)
           /\ FoldLeft(AddWarning, o, s) \in Messages
           /\ \A m \in {o} \cup ToSet(s) : Priority[FoldLeft(AddWarning, o, s)] >= Priority[m]
<1> DEFINE it == AddedUpTo(o, s)
           Seen(k) == {o} \cup {s[i] : i \in 1 .. k}
           T == {k \in Nat : k <= Len(s) =>
                    it[1 .. k] \in Seen(k) /\ \A m \in Seen(k) : Priority[it[1 .. k]] >= Priority[m]}
<1> HIDE DEF it
<1>1. /\ FoldLeft(AddWarning, o, s) = it[1 .. Len(s)] /\ it[{}] = o
      /\ \A k \in Nat : k + 1 <= Len(s) => it[1 .. k + 1] = AddWarning(it[1 .. k], s[k + 1])
    BY AddWarningSteps DEF it
<1>2. 0 \in T
    <2>1. 1 .. 0 = {} /\ Seen(0) = {o} /\ Priority[o] \in Nat
        BY Priorities
    <2> QED
        BY <1>1, <2>1
<1>3. ASSUME NEW k \in Nat, k \in T
      PROVE  k + 1 \in T
    <2> SUFFICES ASSUME k + 1 <= Len(s)
                 PROVE  /\ it[1 .. k + 1] \in Seen(k + 1)
                        /\ \A m \in Seen(k + 1) : Priority[it[1 .. k + 1]] >= Priority[m]
        OBVIOUS
    <2>1. it[1 .. k] \in Seen(k) /\ \A m \in Seen(k) : Priority[it[1 .. k]] >= Priority[m]
        BY <1>3
    <2>2. it[1 .. k + 1] = AddWarning(it[1 .. k], s[k + 1])
        BY <1>1
    <2>3. Seen(k + 1) = Seen(k) \cup {s[k + 1]}
        OBVIOUS
    <2>4. Seen(k + 1) \subseteq Messages
        OBVIOUS
    <2>5. \A m \in Seen(k + 1) : Priority[m] \in Nat
        BY <2>4, Priorities
    <2> HIDE DEF Seen, T
    <2> QED
        BY <2>1, <2>2, <2>3, <2>5 DEF AddWarning
<1>4. Len(s) \in Nat /\ Seen(Len(s)) = {o} \cup ToSet(s) /\ Seen(Len(s)) \subseteq Messages
    BY DEF ToSet
<1> HIDE DEF T
<1>5. Len(s) \in T
    BY <1>2, <1>3, <1>4, Induct
<1> HIDE DEF Seen
<1> QED
    BY <1>1, <1>4, <1>5 DEF T

LEMMA ElementsOfConcat ==
    ASSUME NEW X, NEW a \in Seq(X), NEW b \in Seq(X)
    PROVE  a \o b \in Seq(X) /\ ToSet(a \o b) = ToSet(a) \cup ToSet(b)
<1>1. a \o b \in Seq(X) /\ Len(a \o b) = Len(a) + Len(b)
    OBVIOUS
<1>2. \A i \in 1 .. Len(a) + Len(b) : (a \o b)[i] = IF i <= Len(a) THEN a[i] ELSE b[i - Len(a)]
    OBVIOUS
<1>3. ToSet(a \o b) = {(a \o b)[i] : i \in 1 .. Len(a) + Len(b)}
    BY <1>1 DEF ToSet
<1>4. ToSet(a) = {a[i] : i \in 1 .. Len(a)} /\ ToSet(b) = {b[i] : i \in 1 .. Len(b)}
    BY DEF ToSet
<1>5. ToSet(a \o b) \subseteq ToSet(a) \cup ToSet(b)
    BY <1>2, <1>3, <1>4
<1>6. \A i \in 1 .. Len(a) : i \in 1 .. Len(a) + Len(b) /\ (a \o b)[i] = a[i]
    BY <1>2
<1>7. \A i \in 1 .. Len(b) : i + Len(a) \in 1 .. Len(a) + Len(b) /\ (a \o b)[i + Len(a)] = b[i]
    BY <1>2
<1> QED
    BY <1>1, <1>3, <1>4, <1>5, <1>6, <1>7

LEMMA Joined ==
    ASSUME NEW X, NEW s \in Seq(Seq(X))
    PROVE  /\ FlattenSeq(s) \in Seq(X)
           /\ ToSet(FlattenSeq(s)) = UNION {ToSet(s[i]) : i \in DOMAIN s}
<1> DEFINE n == Len(s)
           joined == CHOOSE joined :
               joined = [i \in 1 .. n |-> IF i = 1 THEN s[i] ELSE joined[i - 1] \o s[i]]
           G == [i \in 1 .. n |-> [x \in Seq(X) |-> x \o s[i]]]
           r == Recursion(n, Seq(X), <<>>, G)
           Seen(k) == UNION {ToSet(s[i]) : i \in 1 .. k}
           T == {k \in Nat : k + 1 <= n => joined[k + 1] \in Seq(X)
                                           /\ ToSet(joined[k + 1]) = Seen(k + 1)}
<1>1. n \in Nat /\ DOMAIN s = 1 .. n /\ \A i \in 1 .. n : s[i] \in Seq(X)
    OBVIOUS
<1> HIDE DEF n
<1>2. G \in [1 .. n -> [Seq(X) -> Seq(X)]] /\ <<>> \in Seq(X)
    BY <1>1
<1> HIDE DEF G, r, joined
<1>3. r \in [0 .. n -> Seq(X)] /\ r[0] = <<>> /\ \A i \in 1 .. n : r[i] = G[i][r[i - 1]]
    <2> DEFINE D == Seq(X)
               e == <<>>
    <2>0. n \in Nat
        BY <1>1
    <2>1. G \in [1 .. n -> [D -> D]] /\ e \in D
        BY <1>2
    <2>2. r = Recursion(n, D, e, G)
        BY DEF r
    <2> HIDE DEF D, e
    <2>3. r \in [0 .. n -> D] /\ r[0] = e /\ \A i \in 1 .. n : r[i] = G[i][r[i - 1]]
        BY <2>0, <2>1, <2>2, Recurs, SMTT(60)
    <2> QED
        BY <2>3 DEF D, e
<1>4. \A i \in 1 .. n : r[i] = IF i = 1 THEN s[i] ELSE r[i - 1] \o s[i]
    <2> SUFFICES ASSUME NEW i \in 1 .. n
                 PROVE  r[i] = IF i = 1 THEN s[i] ELSE r[i - 1] \o s[i]
        OBVIOUS
    <2>1. i - 1 \in 0 .. n /\ r[i - 1] \in Seq(X)
        BY <1>1, <1>3
    <2>2. r[i] = r[i - 1] \o s[i]
        BY <1>3, <2>1 DEF G
    <2>3. i = 1 => <<>> \o s[i] = s[i]
        BY <1>1
    <2>4. i = 1 => r[i - 1] = <<>>
        BY <1>3
    <2> QED
        BY <2>2, <2>3, <2>4
<1>5. joined = [i \in 1 .. n |-> IF i = 1 THEN s[i] ELSE joined[i - 1] \o s[i]]
    <2> DEFINE q == [i \in 1 .. n |-> r[i]]
    <2>1. \A i \in 1 .. n : i # 1 => q[i - 1] = r[i - 1]
        BY <1>1
    <2>2. q = [i \in 1 .. n |-> IF i = 1 THEN s[i] ELSE q[i - 1] \o s[i]]
        BY <1>4, <2>1
    <2> HIDE DEF q
    <2> QED
        BY <2>2 DEF joined
<1>6. \A i \in 1 .. n : joined[i] = IF i = 1 THEN s[i] ELSE joined[i - 1] \o s[i]
    BY <1>5
<1>7. FlattenSeq(s) = IF n = 0 THEN s ELSE joined[n]
    BY DEF FlattenSeq, n, joined
<1>8. 0 \in T
    <2> SUFFICES ASSUME 1 <= n
                 PROVE  joined[1] \in Seq(X) /\ ToSet(joined[1]) = Seen(1)
        OBVIOUS
    <2>1. 1 .. 1 = {1} /\ joined[1] = s[1]
        BY <1>1, <1>6
    <2> QED
        BY <1>1, <2>1
<1>9. ASSUME NEW k \in Nat, k \in T
      PROVE  k + 1 \in T
    <2> SUFFICES ASSUME k + 1 + 1 <= n
                 PROVE  joined[k + 1 + 1] \in Seq(X) /\ ToSet(joined[k + 1 + 1]) = Seen(k + 1 + 1)
        OBVIOUS
    <2> DEFINE a == joined[k + 1]
               b == s[k + 1 + 1]
    <2>1. a \in Seq(X) /\ ToSet(a) = Seen(k + 1)
        BY <1>1, <1>9
    <2>2. joined[k + 1 + 1] = a \o b
        <3>1. k + 1 + 1 \in 1 .. n /\ k + 1 + 1 # 1 /\ (k + 1 + 1) - 1 = k + 1
            BY <1>1
        <3> QED
            BY <1>6, <3>1
    <2>3. Seen(k + 1 + 1) = Seen(k + 1) \cup ToSet(b)
        <3>1. 1 .. k + 1 + 1 = (1 .. k + 1) \cup {k + 1 + 1}
            OBVIOUS
        <3> QED
            BY <3>1
    <2>4. b \in Seq(X)
        BY <1>1
    <2>5. a \o b \in Seq(X) /\ ToSet(a \o b) = ToSet(a) \cup ToSet(b)
        BY <2>1, <2>4, ElementsOfConcat
    <2> HIDE DEF a, b, Seen
    <2> QED
        BY <2>1, <2>2, <2>3, <2>5
<1>10. CASE n = 0
    <2>1. s = <<>> /\ FlattenSeq(s) = s /\ DOMAIN s = {}
        BY <1>1, <1>7, <1>10 DEF n
    <2>2. UNION {ToSet(s[i]) : i \in DOMAIN s} = {}
        BY <2>1
    <2>3. ToSet(s) = {}
        BY <2>1 DEF ToSet
    <2>4. s \in Seq(X)
        BY <2>1
    <2> QED
        BY <2>1, <2>2, <2>3, <2>4
<1>11. CASE n # 0
    <2> HIDE DEF T
    <2>1. n - 1 \in T
        BY <1>1, <1>8, <1>9, <1>11, Induct
    <2> HIDE DEF Seen
    <2>2. joined[n] \in Seq(X) /\ ToSet(joined[n]) = Seen(n)
        BY <1>1, <1>11, <2>1 DEF T
    <2> QED
        BY <1>1, <1>7, <1>11, <2>2 DEF Seen
<1> QED
    BY <1>10, <1>11

LEMMA GravestIsGravest ==
    ASSUME warnings \in [Faces -> Messages], NEW v \in Vertices
    PROVE  /\ Gravest(v) \in {"none"} \cup ToSet(Around[v])
           /\ \A f \in ToSet(Around[v]) : Priority[warnings[f]] > 0 =>
                 Gravest(v) # "none" /\ Priority[warnings[Gravest(v)]] >= Priority[warnings[f]]
<1> DEFINE s == Around[v]
           it == GravestUpTo("none", s)
           Seen(k) == {s[i] : i \in 1 .. k}
           Right(b, F) == /\ b \in {"none"} \cup F
                          /\ \A f \in F : warnings[f] # "NONE" =>
                                b # "none" /\ Priority[warnings[b]] >= Priority[warnings[f]]
           T == {k \in Nat : k <= Len(s) => Right(it[1 .. k], Seen(k))}
<1>0. s \in Seq(Faces) /\ "none" \in Bests /\ "none" \notin Faces
    BY MeshAssumption DEF Bests
<1> HIDE DEF s, it
<1>1. /\ FoldLeft(Graver, "none", s) = it[1 .. Len(s)] /\ it[{}] = "none"
      /\ \A k \in Nat : k + 1 <= Len(s) => it[1 .. k + 1] = Graver(it[1 .. k], s[k + 1])
    BY <1>0, GraverSteps DEF it
<1>2. 0 \in T
    <2>1. 1 .. 0 = {} /\ Seen(0) = {}
        OBVIOUS
    <2> QED
        BY <1>1, <2>1
<1>3. ASSUME NEW b, NEW F \in SUBSET Faces, NEW f \in Faces, Right(b, F)
      PROVE  Right(Graver(b, f), F \cup {f})
    <2>1. \A g \in Faces : warnings[g] \in Messages /\ Priority[warnings[g]] \in Nat
        BY Priorities
    <2>2. \A g \in Faces : warnings[g] = "NONE" => Priority[warnings[g]] = 0
        BY Priorities
    <2>3. CASE b = "none"
        <3>1. \A g \in F : warnings[g] = "NONE"
            BY <1>3, <2>3
        <3>2. Graver(b, f) = IF warnings[f] = "NONE" THEN b ELSE f
            BY <2>3 DEF Graver
        <3> QED
            BY <1>0, <2>1, <2>3, <3>1, <3>2
    <2>4. CASE b # "none"
        <3>1. b \in F /\ b \in Faces
            BY <1>3, <2>4
        <3>2. Graver(b, f) = IF Priority[warnings[f]] > Priority[warnings[b]] THEN f ELSE b
            BY <2>4 DEF Graver
        <3>3. \A g \in F : Priority[warnings[b]] >= Priority[warnings[g]]
            BY <1>3, <2>1, <2>2, <3>1
        <3>4. \A g \in F \cup {f} : Priority[warnings[Graver(b, f)]] >= Priority[warnings[g]]
            BY <2>1, <3>1, <3>2, <3>3
        <3> QED
            BY <1>0, <3>1, <3>2, <3>4
    <2> QED
        BY <2>3, <2>4
<1> HIDE DEF Right
<1>4. ASSUME NEW k \in Nat, k \in T
      PROVE  k + 1 \in T
    <2> SUFFICES ASSUME k + 1 <= Len(s)
                 PROVE  Right(it[1 .. k + 1], Seen(k + 1))
        OBVIOUS
    <2>1. Right(it[1 .. k], Seen(k))
        BY <1>0, <1>4
    <2>2. it[1 .. k + 1] = Graver(it[1 .. k], s[k + 1])
        BY <1>1
    <2>3. Seen(k + 1) = Seen(k) \cup {s[k + 1]}
        OBVIOUS
    <2>4. Seen(k) \in SUBSET Faces /\ s[k + 1] \in Faces
        BY <1>0
    <2> HIDE DEF Seen, T
    <2> QED
        BY <1>3, <2>1, <2>2, <2>3, <2>4
<1>5. Len(s) \in Nat /\ Seen(Len(s)) = ToSet(s) /\ ToSet(s) \subseteq Faces
    BY <1>0 DEF ToSet
<1> HIDE DEF T
<1>6. Len(s) \in T
    BY <1>2, <1>4, <1>5, Induct
<1> HIDE DEF Seen
<1>7. Right(FoldLeft(Graver, "none", s), ToSet(s))
    BY <1>1, <1>5, <1>6 DEF T
<1>8. Gravest(v) = FoldLeft(Graver, "none", s)
    BY DEF Gravest, s
<1>9. Right(Gravest(v), ToSet(s))
    BY <1>7, <1>8
<1>10. \A f \in ToSet(s) : Priority[warnings[f]] > 0 => warnings[f] # "NONE"
    BY Priorities
<1> QED
    BY <1>9, <1>10 DEF Right, s

-----------------------------------------------------------------------------
(* The edges calculated when a vertex is closed.                            *)

Edges == {e \in Faces \X Vertices \X Vertices : e[2] # e[3] /\ {e[2], e[3]} \subseteq Corners[e[1]]}
EdgesFrom(v) == {e \in Edges : e[2] = v}

LEMMA SequenceOfSet ==
    ASSUME NEW S, IsFiniteSet(S)
    PROVE  SetToSeq(S) \in Seq(S)
<1>1. Cardinality(S) \in Nat /\ ExistsBijection(1 .. Cardinality(S), S)
    BY FS_CardinalityType
<1>2. PICK f \in [1 .. Cardinality(S) -> S] : IsInjective(f)
    BY <1>1 DEF ExistsBijection, Bijection, Injection, IsInjective
<1>3. SetToSeq(S) \in [1 .. Cardinality(S) -> S]
    BY <1>2 DEF SetToSeq
<1> QED
    BY <1>1, <1>3

LEMMA EdgesAreEdges ==
    ASSUME NEW v \in Vertices
    PROVE  EdgesAround(v) \in Seq(EdgesFrom(v))
<1> DEFINE Rest(f) == (Corners[f] \cap world.safe) \ (DOMAIN closed \cup {v})
           Open(f) == SetToSeq(Rest(f))
           At(f) == [j \in DOMAIN Open(f) |-> <<f, v, Open(f)[j]>>]
<1>1. Around[v] \in Seq(Faces) /\ \A f \in ToSet(Around[v]) : f \in Faces /\ v \in Corners[f]
    BY MeshAssumption
<1>2. ASSUME NEW f \in ToSet(Around[v])
      PROVE  At(f) \in Seq(EdgesFrom(v))
    <2>1. IsFiniteSet(Rest(f))
        <3>1. Rest(f) \in SUBSET Vertices
            BY <1>1 DEF Vertices
        <3> QED
            BY <3>1, FS_Subset, MeshAssumption
    <2>2. Open(f) \in Seq(Rest(f))
        BY <2>1, SequenceOfSet
    <2>3. \A u \in Rest(f) : <<f, v, u>> \in EdgesFrom(v)
        BY <1>1 DEF EdgesFrom, Edges, Vertices
    <2> HIDE DEF Open, Rest
    <2>4. DOMAIN Open(f) = 1 .. Len(Open(f)) /\ \A j \in DOMAIN Open(f) : Open(f)[j] \in Rest(f)
        BY <2>2
    <2>5. Len(Open(f)) \in Nat
        BY <2>2
    <2>6. At(f) \in [1 .. Len(Open(f)) -> EdgesFrom(v)]
        BY <2>3, <2>4
    <2> QED
        BY <2>5, <2>6
<1>3. EdgesAround(v) = FlattenSeq([i \in DOMAIN Around[v] |-> At(Around[v][i])])
    BY DEF EdgesAround
<1> HIDE DEF At
<1>4. [i \in DOMAIN Around[v] |-> At(Around[v][i])] \in Seq(Seq(EdgesFrom(v)))
    <2>1. DOMAIN Around[v] = 1 .. Len(Around[v]) /\ Len(Around[v]) \in Nat
        BY <1>1
    <2>2. \A i \in DOMAIN Around[v] : At(Around[v][i]) \in Seq(EdgesFrom(v))
        BY <1>2 DEF ToSet
    <2>3. [i \in DOMAIN Around[v] |-> At(Around[v][i])] \in [1 .. Len(Around[v]) -> Seq(EdgesFrom(v))]
        BY <2>1, <2>2
    <2> QED
        BY <2>1, <2>3
<1> QED
    BY <1>3, <1>4, Joined

-----------------------------------------------------------------------------
(* Multipliers of one, two and three dependencies.                          *)

Nothing == [value |-> Fraction(1, 1), warnings |-> <<>>, done |-> FALSE]

LEMMA NothingIsTotal == Nothing \in Totals
BY DEF Nothing, Totals, Values, Fraction

LEMMA OneDependency ==
    ASSUME NEW a \in Dependencies
    PROVE  MultiplierFeature(<<a>>) =
               Feature(Multiply(Nothing, a).value, Multiply(Nothing, a).warnings)
<1> DEFINE s == <<a>>
           it == MultipliedUpTo(Nothing, s)
<1>1. s \in Seq(Dependencies) /\ Len(s) = 1 /\ s[1] = a
    OBVIOUS
<1> HIDE DEF s, it
<1>2. /\ FoldLeft(Multiply, Nothing, s) = it[1 .. Len(s)] /\ it[{}] = Nothing
      /\ \A k \in Nat : k + 1 <= Len(s) => it[1 .. k + 1] = Multiply(it[1 .. k], s[k + 1])
    BY <1>1, NothingIsTotal, MultiplySteps DEF it
<1>3. \A k \in {0} : k \in Nat /\ k + 1 <= Len(s)
    BY <1>1
<1>4. \A k \in {0} : it[1 .. k + 1] = Multiply(it[1 .. k], s[k + 1])
    BY <1>2, <1>3
<1>5. 1 .. 0 = {} /\ 0 + 1 = 1
    OBVIOUS
<1>6. FoldLeft(Multiply, Nothing, s) = Multiply(Nothing, a)
    BY <1>1, <1>2, <1>4, <1>5
<1>7. MultiplierFeature(s) = Feature(FoldLeft(Multiply, Nothing, s).value,
                                     FoldLeft(Multiply, Nothing, s).warnings)
    BY DEF MultiplierFeature, Nothing
<1> QED
    BY <1>6, <1>7 DEF s

LEMMA TwoDependencies ==
    ASSUME NEW a \in Dependencies, NEW b \in Dependencies
    PROVE  MultiplierFeature(<<a, b>>) =
               Feature(Multiply(Multiply(Nothing, a), b).value,
                       Multiply(Multiply(Nothing, a), b).warnings)
<1> DEFINE s == <<a, b>>
           it == MultipliedUpTo(Nothing, s)
<1>1. s \in Seq(Dependencies) /\ Len(s) = 2 /\ s[1] = a /\ s[2] = b
    OBVIOUS
<1> HIDE DEF s, it
<1>2. /\ FoldLeft(Multiply, Nothing, s) = it[1 .. Len(s)] /\ it[{}] = Nothing
      /\ \A k \in Nat : k + 1 <= Len(s) => it[1 .. k + 1] = Multiply(it[1 .. k], s[k + 1])
    BY <1>1, NothingIsTotal, MultiplySteps DEF it
<1>3. \A k \in {0, 1} : k \in Nat /\ k + 1 <= Len(s)
    BY <1>1
<1>4. \A k \in {0, 1} : it[1 .. k + 1] = Multiply(it[1 .. k], s[k + 1])
    BY <1>2, <1>3
<1>5. 1 .. 0 = {} /\ 0 + 1 = 1 /\ 1 + 1 = 2
    OBVIOUS
<1>6. FoldLeft(Multiply, Nothing, s) = Multiply(Multiply(Nothing, a), b)
    BY <1>1, <1>2, <1>4, <1>5
<1>7. MultiplierFeature(s) = Feature(FoldLeft(Multiply, Nothing, s).value,
                                     FoldLeft(Multiply, Nothing, s).warnings)
    BY DEF MultiplierFeature, Nothing
<1> QED
    BY <1>6, <1>7 DEF s

LEMMA ThreeDependencies ==
    ASSUME NEW a \in Dependencies, NEW b \in Dependencies, NEW c \in Dependencies
    PROVE  MultiplierFeature(<<a, b, c>>) =
               Feature(Multiply(Multiply(Multiply(Nothing, a), b), c).value,
                       Multiply(Multiply(Multiply(Nothing, a), b), c).warnings)
<1> DEFINE s == <<a, b, c>>
           it == MultipliedUpTo(Nothing, s)
<1>1. s \in Seq(Dependencies) /\ Len(s) = 3 /\ s[1] = a /\ s[2] = b /\ s[3] = c
    OBVIOUS
<1> HIDE DEF s, it
<1>2. /\ FoldLeft(Multiply, Nothing, s) = it[1 .. Len(s)] /\ it[{}] = Nothing
      /\ \A k \in Nat : k + 1 <= Len(s) => it[1 .. k + 1] = Multiply(it[1 .. k], s[k + 1])
    BY <1>1, NothingIsTotal, MultiplySteps DEF it
<1>3. \A k \in {0, 1, 2} : k \in Nat /\ k + 1 <= Len(s)
    BY <1>1
<1>4. \A k \in {0, 1, 2} : it[1 .. k + 1] = Multiply(it[1 .. k], s[k + 1])
    BY <1>2, <1>3
<1>5. 1 .. 0 = {} /\ 0 + 1 = 1 /\ 1 + 1 = 2 /\ 2 + 1 = 3
    OBVIOUS
<1>6. FoldLeft(Multiply, Nothing, s) = Multiply(Multiply(Multiply(Nothing, a), b), c)
    BY <1>1, <1>2, <1>4, <1>5
<1>7. MultiplierFeature(s) = Feature(FoldLeft(Multiply, Nothing, s).value,
                                     FoldLeft(Multiply, Nothing, s).warnings)
    BY DEF MultiplierFeature, Nothing
<1> QED
    BY <1>6, <1>7 DEF s

\* A multiplier is done once it is zero, and a zero comes with a grave warning.
Grave(s) == \E m \in ToSet(s) : Priority[m] >= 10
Sound(t) == /\ t \in Totals /\ t.value \in Values
            /\ t.done <=> Zero(t.value)
            /\ t.done => Grave(t.warnings)
Warns(f) == /\ f \in [value : Values, warnings : Seq(Messages)]
            /\ Zero(f.value) => Grave(f.warnings)

LEMMA GraveOfConcat ==
    ASSUME NEW a \in Seq(Messages), NEW b \in Seq(Messages)
    PROVE  a \o b \in Seq(Messages) /\ (Grave(a \o b) <=> Grave(a) \/ Grave(b))
<1>1. a \o b \in Seq(Messages) /\ ToSet(a \o b) = ToSet(a) \cup ToSet(b)
    BY ElementsOfConcat
<1> QED
    BY <1>1 DEF Grave

LEMMA MultiplyDouble ==
    ASSUME NEW t, NEW f, Sound(t), Warns(f)
    PROVE  LET m == Multiply(t, <<"DOUBLE", f>>) IN
           /\ Sound(m) /\ (m.done <=> t.done \/ Zero(f.value))
           /\ ~t.done => m.value = Fraction(t.value.n * f.value.n, t.value.d * f.value.d)
           /\ ~t.done /\ Grave(f.warnings) => Grave(m.warnings)
<1> DEFINE m == Multiply(t, <<"DOUBLE", f>>)
           p == Times(t.value, f.value)
<1>1. /\ t \in Totals /\ t.value \in Values /\ f.value \in Values
      /\ t.warnings \in Seq(Messages) /\ f.warnings \in Seq(Messages) /\ t.done \in BOOLEAN
    BY DEF Sound, Warns, Totals
<1>2. CASE t.done
    <2>1. m = t
        BY <1>2 DEF Multiply
    <2> QED
        BY <1>2, <2>1 DEF Sound
<1>3. CASE ~t.done
    <2>1. t.value # Inf /\ f.value # Inf
        BY <1>1 DEF Values, Inf, Fraction
    <2>2. p = Fraction(t.value.n * f.value.n, t.value.d * f.value.d)
        BY <2>1 DEF Times
    <2>3. m = [[t EXCEPT !.warnings = @ \o f.warnings] EXCEPT !.value = p, !.done = Zero(p)]
        BY <1>3 DEF Multiply
    <2>4. t.value.n \in Nat /\ f.value.n \in Nat /\ t.value.d \in Nat \ {0} /\ f.value.d \in Nat \ {0}
        BY <1>1 DEF Values
    <2>5. /\ t.value.n * f.value.n \in Nat /\ t.value.d * f.value.d \in Nat \ {0}
          /\ t.value.n * f.value.n = 0 <=> t.value.n = 0 \/ f.value.n = 0
        BY <2>4
    <2>6. p \in Values /\ (Zero(p) <=> Zero(t.value) \/ Zero(f.value)) /\ Zero(p) \in BOOLEAN
        BY <2>2, <2>5 DEF Values, Fraction, Zero
    <2>7. t.warnings \o f.warnings \in Seq(Messages)
          /\ (Grave(t.warnings \o f.warnings) <=> Grave(t.warnings) \/ Grave(f.warnings))
        BY <1>1, GraveOfConcat
    <2>8. m.value = p /\ m.done = Zero(p) /\ m.warnings = t.warnings \o f.warnings /\ m \in Totals
        <3> HIDE DEF p
        <3> QED
            BY <1>1, <2>3, <2>6, <2>7 DEF Totals
    <2>9. ~Zero(t.value)
        BY <1>3 DEF Sound
    <2> HIDE DEF m, p
    <2>10. Sound(m) /\ (m.done <=> Zero(f.value))
        BY <2>6, <2>7, <2>8, <2>9 DEF Sound, Warns
    <2> QED
        BY <1>3, <2>2, <2>7, <2>8, <2>10 DEF m
<1> QED
    BY <1>2, <1>3

-----------------------------------------------------------------------------
(* The speed on a slope, whatever the coefficients.                         *)

LEMMA Powers ==
    ASSUME NEW D, NEW x, NEW k \in Nat, 1 \in D, \A y \in D : x * y \in D
    PROVE  Pow(x, k) \in D
<1> DEFINE p == CHOOSE p : p = [i \in 0 .. k |-> IF i = 0 THEN 1 ELSE x * p[i - 1]]
           G == [i \in 1 .. k |-> [y \in D |-> x * y]]
           r == Recursion(k, D, 1, G)
<1>1. r \in [0 .. k -> D] /\ r[0] = 1 /\ \A i \in 1 .. k : r[i] = G[i][r[i - 1]]
    <2> DEFINE one == 1
    <2>1. G \in [1 .. k -> [D -> D]] /\ one \in D
        OBVIOUS
    <2> HIDE DEF G, one
    <2>2. LET t == Recursion(k, D, one, G) IN
              t \in [0 .. k -> D] /\ t[0] = one /\ \A i \in 1 .. k : t[i] = G[i][t[i - 1]]
        BY <2>1, Recurs, SMTT(60)
    <2> QED
        BY <2>2 DEF one
<1> HIDE DEF r
<1>2. r = [i \in 0 .. k |-> IF i = 0 THEN 1 ELSE x * r[i - 1]]
    <2>1. \A i \in 1 .. k : r[i] = x * r[i - 1]
        <3>1. \A i \in 1 .. k : i - 1 \in 0 .. k
            OBVIOUS
        <3> QED
            BY <1>1, <3>1
    <2>2. \A i \in 0 .. k : r[i] = IF i = 0 THEN 1 ELSE x * r[i - 1]
        BY <1>1, <2>1
    <2>3. r = [i \in 0 .. k |-> r[i]]
        BY <1>1
    <2> QED
        BY <2>2, <2>3
<1>3. p = [i \in 0 .. k |-> IF i = 0 THEN 1 ELSE x * p[i - 1]]
    BY <1>2
<1>4. Pow(x, k) = p[k]
    BY DEF Pow
<1> HIDE DEF p, G
<1>5. \A i \in Nat : i <= k => p[i] \in D
    <2> DEFINE T == {i \in Nat : i <= k => p[i] \in D}
    <2>1. 0 \in T
        BY <1>3
    <2>2. ASSUME NEW i \in Nat, i \in T
          PROVE  i + 1 \in T
        <3> SUFFICES ASSUME i + 1 <= k
                     PROVE  p[i + 1] \in D
            OBVIOUS
        <3>1. p[i] \in D
            BY <2>2
        <3>2. p[i + 1] = x * p[i]
            <4>1. i + 1 \in 0 .. k /\ i + 1 # 0 /\ (i + 1) - 1 = i
                OBVIOUS
            <4> QED
                BY <1>3, <4>1
        <3> QED
            BY <3>1, <3>2
    <2> HIDE DEF T
    <2>3. Nat \subseteq T
        BY <2>1, <2>2, Induct
    <2> QED
        BY <2>3 DEF T
<1> QED
    BY <1>4, <1>5

LEMMA ElementOf ==
    ASSUME NEW X, NEW s \in Seq(X), NEW i \in 1 .. Len(s)
    PROVE  s[i] \in X
OBVIOUS

LEMMA TableIsSequence ==
    ASSUME NEW X, NEW n \in Nat, NEW s \in [1 .. n -> X]
    PROVE  s \in Seq(X) /\ Len(s) = n
OBVIOUS

SumOf(s) == SumFrom(0, s)

LEMMA SumIsInt ==
    ASSUME NEW s \in Seq(Int)
    PROVE  SumOf(s) \in Int
<1> DEFINE it == SumUpTo(0, s)
<1>1. /\ SumOf(s) = it[1 .. Len(s)] /\ it[{}] = 0
      /\ \A k \in Nat : k + 1 <= Len(s) => it[1 .. k + 1] = it[1 .. k] + s[k + 1]
    <2>1. 0 \in Int
        OBVIOUS
    <2> HIDE DEF it
    <2> QED
        BY <2>1, SumSteps DEF SumOf, it
<1> HIDE DEF it
<1> DEFINE T == {k \in Nat : k <= Len(s) => it[1 .. k] \in Int}
<1>2. 0 \in T
    <2>1. 1 .. 0 = {}
        OBVIOUS
    <2> QED
        BY <1>1, <2>1
<1>3. ASSUME NEW k \in Nat, k \in T
      PROVE  k + 1 \in T
    <2> SUFFICES ASSUME k + 1 <= Len(s)
                 PROVE  it[1 .. k + 1] \in Int
        OBVIOUS
    <2>1. it[1 .. k] \in Int /\ s[k + 1] \in Int
        BY <1>3, ElementOf
    <2> QED
        BY <1>1, <2>1
<1> HIDE DEF T
<1>4. Nat \subseteq T
    BY <1>2, <1>3, Induct
<1>5. Len(s) \in Nat
    OBVIOUS
<1> QED
    BY <1>1, <1>4, <1>5 DEF T

\* The terms of the polynomial without its coefficients, for a slope of n in d.
Terms(n, d, top) == [i \in 1 .. top + 1 |-> Pow(n, i - 1) * Pow(d, top - i + 1)]

LEMMA SumOfTerms ==
    ASSUME NEW n \in Int, NEW d \in Nat \ {0}, NEW top \in Nat
    PROVE  SumOf(Terms(n, d, top)) \in Int /\ Pow(d, top) \in Nat \ {0}
<1>1. \A k \in Nat : Pow(n, k) \in Int /\ Pow(d, k) \in Nat \ {0}
    <2>1. 1 \in Int /\ \A y \in Int : n * y \in Int
        OBVIOUS
    <2>2. 1 \in Nat \ {0} /\ \A y \in Nat \ {0} : d * y \in Nat \ {0}
        OBVIOUS
    <2> QED
        BY <2>1, <2>2, Powers
<1>2. \A i \in 1 .. top + 1 : Pow(n, i - 1) * Pow(d, top - i + 1) \in Int
    <2> SUFFICES ASSUME NEW i \in 1 .. top + 1
                 PROVE  Pow(n, i - 1) * Pow(d, top - i + 1) \in Int
        OBVIOUS
    <2>1. i - 1 \in Nat /\ top - i + 1 \in Nat
        OBVIOUS
    <2>2. Pow(n, i - 1) \in Int /\ Pow(d, top - i + 1) \in Int
        BY <1>1, <2>1
    <2> QED
        BY <2>2
<1>3. Terms(n, d, top) \in [1 .. top + 1 -> Int]
    BY <1>2 DEF Terms
<1>4. Terms(n, d, top) \in Seq(Int)
    BY <1>3, TableIsSequence
<1> QED
    BY <1>1, <1>4, SumIsInt

LEMMA GradientSpeeds ==
    ASSUME NEW w \in Worlds, NEW u \in Vertices, NEW v \in Vertices
    PROVE  Warns(GradientSpeed(w, u, v))
<1> DEFINE n == w.height[v] - w.height[u]
           d == w.run
           x == Gradient(w, u, v)
           coefficients == IF x.n > 0 THEN Upwards ELSE Downwards
           top == Len(coefficients) - 1
           y == SolvePolynomial(x, coefficients)
           z == Capped(y)
<1>1. n \in Int /\ d \in Nat \ {0}
    BY WorldAssumption
<1>2. x.n = n /\ x.d = d
    BY DEF Gradient, Fraction
<1>3. top \in Nat
    BY DEF Upwards, Downwards
<1>4. y = Fraction(SumOf(Terms(n, d, top)), Pow(d, top))
    BY <1>2 DEF SolvePolynomial, SumOf, SumFrom, Terms
<1>5. y.n \in Int /\ y.d \in Nat \ {0} /\ y = Fraction(y.n, y.d)
    <2> HIDE DEF n, d, top, y
    <2> QED
        BY <1>1, <1>3, <1>4, SumOfTerms DEF Fraction
<1>6. GradientSpeed(w, u, v) =
          Feature(z, IF z.n <= 0 THEN <<"untraversable">>
                     ELSE IF 2 * z.n < z.d THEN <<"steep">>
                     ELSE IF 10 * z.n < 8 * z.d THEN <<"slight">> ELSE <<>>)
    BY DEF GradientSpeed
<1> HIDE DEF x, y
<1>7. z \in Values /\ (Zero(z) <=> z.n <= 0)
    BY <1>5 DEF Capped, Fraction, Values, Zero
<1>8. /\ <<"untraversable">> \in Seq(Messages) /\ <<"steep">> \in Seq(Messages)
      /\ <<"slight">> \in Seq(Messages) /\ <<>> \in Seq(Messages)
    BY Priorities
<1>9. Grave(<<"untraversable">>)
    <2>1. "untraversable" \in ToSet(<<"untraversable">>)
        BY DEF ToSet
    <2> QED
        BY <2>1, Priorities DEF Grave
<1> HIDE DEF z
<1> DEFINE m == IF z.n <= 0 THEN <<"untraversable">>
                ELSE IF 2 * z.n < z.d THEN <<"steep">>
                ELSE IF 10 * z.n < 8 * z.d THEN <<"slight">> ELSE <<>>
<1>10. m \in Seq(Messages) /\ (z.n <= 0 => Grave(m))
    BY <1>8, <1>9
<1>11. GradientSpeed(w, u, v) = Feature(z, m)
    BY <1>6
<1> HIDE DEF m
<1> QED
    BY <1>7, <1>10, <1>11 DEF Warns, Feature

-----------------------------------------------------------------------------
(* What an edge costs.                                                      *)

BadSlope(w, u, v) == Zero(GradientSpeed(w, u, v).value)
BadGround(type)   == Zero(TerrainSpeed(type).value)
BadWater(w, f)    == w.preset = "time" /\ Water(w.water[f]).value

LEMMA GraveMessages ==
    \A m \in Messages : /\ <<m>> \in Seq(Messages) /\ <<>> \in Seq(Messages)
                        /\ Priority[m] >= 10 => Grave(<<m>>)
<1> SUFFICES ASSUME NEW m \in Messages
             PROVE  /\ <<m>> \in Seq(Messages) /\ <<>> \in Seq(Messages)
                    /\ Priority[m] >= 10 => Grave(<<m>>)
    OBVIOUS
<1>1. m \in ToSet(<<m>>)
    BY DEF ToSet
<1> QED
    BY <1>1 DEF Grave

LEMMA TerrainSpeeds ==
    ASSUME NEW type
    PROVE  LET t == TerrainSpeed(type) IN
           /\ Warns(t) /\ t.value.n <= t.value.d
<1>1. /\ <<"woodland">> \in Seq(Messages) /\ <<"potentialHeather">> \in Seq(Messages)
      /\ <<"heather">> \in Seq(Messages) /\ <<"marsh">> \in Seq(Messages)
      /\ <<"bog">> \in Seq(Messages) /\ <<>> \in Seq(Messages)
      /\ Grave(<<"heather">>) /\ Grave(<<"marsh">>) /\ Grave(<<"bog">>)
    BY Priorities, GraveMessages
<1> HIDE DEF Messages
<1> QED
    BY <1>1 DEF TerrainSpeed, Warns, Feature, Fraction, Values, Zero

LEMMA WaterFlags ==
    ASSUME NEW tag
    PROVE  Water(tag) \in Flags /\ (Water(tag).value => Grave(Water(tag).warnings))
<1>1. /\ <<"water">> \in Seq(Messages) /\ <<"noWaterData">> \in Seq(Messages)
      /\ <<>> \in Seq(Messages) /\ Grave(<<"water">>) /\ Grave(<<"noWaterData">>)
    BY Priorities, GraveMessages
<1>2. CASE tag = "WATER"
    <2>1. Water(tag) = Feature(TRUE, <<"water">>)
        BY <1>2 DEF Water
    <2> QED
        BY <1>1, <2>1 DEF Flags, Feature
<1>3. CASE tag = "LAND"
    <2>1. Water(tag) = Feature(FALSE, <<>>)
        BY <1>3 DEF Water
    <2> QED
        BY <1>1, <2>1 DEF Flags, Feature
<1>4. CASE tag # "WATER" /\ tag # "LAND"
    <2>1. Water(tag) = Feature(TRUE, <<"noWaterData">>)
        BY <1>4 DEF Water
    <2> QED
        BY <1>1, <2>1 DEF Flags, Feature
<1> QED
    BY <1>2, <1>3, <1>4

LEMMA NothingIsSound ==
    Sound(Nothing) /\ ~Nothing.done /\ Nothing.value.n = 1 /\ Nothing.value.d = 1
BY NothingIsTotal DEF Sound, Nothing, Fraction, Values, Zero

\* What water makes of the speed, as the first dependency of three.
LEMMA WaterSpeeds ==
    ASSUME NEW w \in Worlds, NEW f \in Faces
    PROVE  LET t == Multiply(Nothing, WaterSpeed(w, f)) IN
           /\ WaterSpeed(w, f) \in Dependencies
           /\ Sound(t) /\ (t.done <=> BadWater(w, f)) /\ t.value.n <= t.value.d
<1> DEFINE a == Water(w.water[f])
           x == WaterSpeed(w, f)
           t == Multiply(Nothing, x)
<1>1. a \in Flags /\ (a.value => Grave(a.warnings))
    BY WaterFlags
<1>2. a.value \in BOOLEAN /\ a.warnings \in Seq(Messages) /\ <<>> \in Seq(Messages)
    BY <1>1 DEF Flags
<1>3. /\ Nothing.warnings = <<>> /\ Nothing.value = Fraction(1, 1) /\ Nothing.done = FALSE
      /\ Nothing = [value |-> Fraction(1, 1), warnings |-> <<>>, done |-> FALSE]
    BY DEF Nothing
<1>4. <<>> \o a.warnings = a.warnings /\ a.warnings \o <<>> = a.warnings
    BY <1>2
<1>0. BadWater(w, f) <=> w.preset = "time" /\ a.value
    BY DEF BadWater
<1> HIDE DEF a
<1>5. CASE w.preset = "time"
    <2> DEFINE b == InverseBool(a)
    <2>1. x = <<"BOOL", b>>
        BY <1>5 DEF WaterSpeed, a
    <2>2. b \in Flags /\ b.value = ~a.value /\ b.warnings = a.warnings
        BY <1>2 DEF InverseBool, Feature, Flags
    <2>3. x \in Dependencies
        BY <2>1, <2>2 DEF Dependencies
    <2> HIDE DEF b
    <2>4. CASE a.value
        <3>1. t = [value |-> Fraction(0, 1), warnings |-> a.warnings, done |-> TRUE]
            <4>1. Multiply(Nothing, <<"BOOL", b>>) =
                      [[Nothing EXCEPT !.warnings = @ \o b.warnings]
                          EXCEPT !.value = Fraction(0, 1), !.done = TRUE]
                BY <1>3, <2>2, <2>4 DEF Multiply
            <4> QED
                BY <1>3, <1>4, <2>1, <2>2, <4>1
        <3>2. Sound(t) /\ t.done /\ t.value.n <= t.value.d
            BY <1>1, <1>2, <2>4, <3>1 DEF Sound, Totals, Values, Fraction, Zero
        <3> QED
            BY <1>0, <1>5, <2>3, <2>4, <3>2
    <2>5. CASE ~a.value
        <3>1. t = [value |-> Fraction(1, 1), warnings |-> a.warnings, done |-> FALSE]
            <4>1. Multiply(Nothing, <<"BOOL", b>>) = [Nothing EXCEPT !.warnings = @ \o b.warnings]
                BY <1>3, <2>2, <2>5 DEF Multiply
            <4> QED
                BY <1>3, <1>4, <2>1, <2>2, <4>1
        <3>2. Sound(t) /\ ~t.done /\ t.value.n <= t.value.d
            BY <1>1, <1>2, <3>1 DEF Sound, Totals, Values, Fraction, Zero
        <3> QED
            BY <1>0, <1>5, <2>3, <2>5, <3>2
    <2> QED
        BY <2>4, <2>5
<1>6. CASE w.preset # "time"
    <2>1. w.preset = "swimming" \/ w.preset = "restrict swimming"
        BY <1>6, WorldAssumption DEF Presets
    <2>2. PICK q \in {Fraction(89, 100), Fraction(1, 1000)} :
              x = <<"DOUBLE", ConditionalFeature(a, Feature(q, <<>>), Feature(Fraction(1, 1), <<>>))>>
        <3> DEFINE Joins(q) == ConditionalFeature(a, Feature(q, <<>>), Feature(Fraction(1, 1), <<>>))
        <3>1. CASE w.preset = "swimming"
            <4>1. x = <<"DOUBLE", Joins(Fraction(89, 100))>>
                BY <3>1 DEF WaterSpeed, Constant, a
            <4> QED
                BY <4>1
        <3>2. CASE w.preset = "restrict swimming"
            <4>1. x = <<"DOUBLE", Joins(Fraction(1, 1000))>>
                BY <3>2 DEF WaterSpeed, Constant, a
            <4> QED
                BY <4>1
        <3> QED
            BY <2>1, <3>1, <3>2
    <2> DEFINE b == ConditionalFeature(a, Feature(q, <<>>), Feature(Fraction(1, 1), <<>>))
    <2>3. /\ b.value = IF a.value THEN q ELSE Fraction(1, 1)
          /\ b.warnings = a.warnings
          /\ b = Feature(b.value, b.warnings)
        BY <1>2, <1>4 DEF ConditionalFeature, Feature
    <2>4. x = <<"DOUBLE", b>>
        BY <2>2
    <2> HIDE DEF b
    <2>5. b.value \in Values /\ b.value.n \in 1 .. b.value.d
        BY <2>2, <2>3 DEF Values, Fraction
    <2>6. Warns(b) /\ ~Zero(b.value)
        BY <1>2, <2>3, <2>5 DEF Warns, Feature, Zero
    <2>7. x \in Dependencies
        BY <1>2, <2>3, <2>4, <2>5 DEF Dependencies, Speeds, Feature
    <2>8. Sound(t) /\ ~t.done /\ t.value = Fraction(1 * b.value.n, 1 * b.value.d)
        BY <2>4, <2>6, NothingIsSound, MultiplyDouble
    <2>9. t.value.n <= t.value.d
        <3>1. t.value.n = 1 * b.value.n /\ t.value.d = 1 * b.value.d
            BY <2>8 DEF Fraction
        <3> QED
            BY <2>5, <3>1 DEF Values
    <2> QED
        BY <1>0, <1>6, <2>7, <2>8, <2>9
<1> QED
    BY <1>5, <1>6

LEMMA DoubleDependency ==
    ASSUME NEW f, Warns(f)
    PROVE  <<"DOUBLE", f>> \in Dependencies
<1>1. f \in Speeds
    BY DEF Warns, Speeds
<1> QED
    BY <1>1 DEF Dependencies

LEMMA PathSpeedIs ==
    ASSUME NEW w \in Worlds, NEW u \in Vertices, NEW v \in Vertices
    PROVE  /\ Warns(PathSpeed(w, u, v))
           /\ PathSpeed(w, u, v).value = GradientSpeed(w, u, v).value
           /\ Zero(PathSpeed(w, u, v).value) <=> BadSlope(w, u, v)
<1> DEFINE g == GradientSpeed(w, u, v)
           t == Multiply(Nothing, <<"DOUBLE", g>>)
<1>1. Warns(g) /\ (Zero(g.value) <=> BadSlope(w, u, v))
    BY GradientSpeeds DEF BadSlope
<1>2. PathSpeed(w, u, v) = Feature(t.value, t.warnings)
    BY <1>1, DoubleDependency, OneDependency DEF PathSpeed
<1> HIDE DEF g
<1>3. /\ Sound(t) /\ (t.done <=> Zero(g.value))
      /\ t.value = Fraction(1 * g.value.n, 1 * g.value.d)
    BY <1>1, NothingIsSound, MultiplyDouble
<1> HIDE DEF t
<1>4. g.value \in Values
    BY <1>1 DEF Warns
<1>5. t.value = g.value
    BY <1>3, <1>4 DEF Fraction, Values
<1>6. t.warnings \in Seq(Messages)
    BY <1>3 DEF Sound, Totals
<1>7. PathSpeed(w, u, v).value = t.value /\ PathSpeed(w, u, v).warnings = t.warnings
    BY <1>2 DEF Feature
<1>8. Warns(PathSpeed(w, u, v))
    BY <1>2, <1>3, <1>5, <1>4, <1>6 DEF Warns, Sound, Feature
<1> QED
    BY <1>1, <1>5, <1>7, <1>8 DEF g

LEMMA Products ==
    ASSUME NEW a \in Nat, NEW b \in Nat \ {0}, NEW c \in Nat, NEW d \in Nat \ {0}, a <= b, c <= d
    PROVE  a * c \in Nat /\ b * d \in Nat \ {0} /\ a * c <= b * d
<1>1. a * c <= b * c /\ b * c <= b * d
    OBVIOUS
<1>2. a * c \in Nat /\ b * c \in Nat /\ b * d \in Nat \ {0}
    OBVIOUS
<1> QED
    BY <1>1, <1>2

Slowed(x, y) == \E p \in Nat, q \in Nat \ {0} : p <= q /\ x = Fraction(p * y.n, q * y.d)

LEMMA SpeedIs ==
    ASSUME NEW w \in Worlds, NEW f \in Faces, NEW u \in Vertices, NEW v \in Vertices
    PROVE  LET s == Speed(w, f, u, v) IN
           /\ Warns(s)
           /\ Zero(s.value) <=> \/ BadWater(w, f) \/ BadGround(w.terrain[f]) \/ BadSlope(w, u, v)
           /\ ~Zero(s.value) => Slowed(s.value, GradientSpeed(w, u, v).value)
<1> DEFINE x == WaterSpeed(w, f)
           k == TerrainSpeed(w.terrain[f])
           g == GradientSpeed(w, u, v)
           t1 == Multiply(Nothing, x)
           t2 == Multiply(t1, <<"DOUBLE", k>>)
           t3 == Multiply(t2, <<"DOUBLE", g>>)
           s == Speed(w, f, u, v)
<1>1. /\ x \in Dependencies /\ Sound(t1) /\ (t1.done <=> BadWater(w, f))
      /\ t1.value.n <= t1.value.d
    BY WaterSpeeds
<1>2. Warns(k) /\ (Zero(k.value) <=> BadGround(w.terrain[f])) /\ k.value.n <= k.value.d
    BY TerrainSpeeds DEF BadGround
<1>3. Warns(g) /\ (Zero(g.value) <=> BadSlope(w, u, v))
    BY GradientSpeeds DEF BadSlope
<1>4. s = Feature(t3.value, t3.warnings)
    BY <1>1, <1>2, <1>3, DoubleDependency, ThreeDependencies DEF Speed
<1> HIDE DEF s, x, k, g, t1
<1>5. /\ Sound(t2) /\ (t2.done <=> t1.done \/ Zero(k.value))
      /\ ~t1.done => t2.value = Fraction(t1.value.n * k.value.n, t1.value.d * k.value.d)
    BY <1>1, <1>2, MultiplyDouble
<1> HIDE DEF t2
<1>6. /\ Sound(t3) /\ (t3.done <=> t2.done \/ Zero(g.value))
      /\ ~t2.done => t3.value = Fraction(t2.value.n * g.value.n, t2.value.d * g.value.d)
    BY <1>3, <1>5, MultiplyDouble
<1> HIDE DEF t3
<1>7. s.value = t3.value /\ s.warnings = t3.warnings
    BY <1>4 DEF Feature
<1>8. t3.warnings \in Seq(Messages) /\ t3.value \in Values /\ (t3.done <=> Zero(t3.value))
    BY <1>6 DEF Sound, Totals
<1>9. Warns(s)
    BY <1>4, <1>6, <1>8 DEF Warns, Sound, Feature
<1>10. ASSUME ~Zero(s.value)
       PROVE  Slowed(s.value, g.value)
    <2>1. ~t1.done /\ ~t2.done /\ ~t3.done
        BY <1>5, <1>6, <1>7, <1>8, <1>10
    <2>2. t1.value \in Values /\ k.value \in Values
        BY <1>1, <1>2 DEF Sound, Warns
    <2>3. /\ t1.value.n \in Nat /\ t1.value.d \in Nat \ {0} /\ t1.value.n <= t1.value.d
          /\ k.value.n \in Nat /\ k.value.d \in Nat \ {0} /\ k.value.n <= k.value.d
        BY <1>1, <1>2, <2>2 DEF Values
    <2> DEFINE p == t1.value.n * k.value.n
               q == t1.value.d * k.value.d
    <2>4. p \in Nat /\ q \in Nat \ {0} /\ p <= q
        BY <2>3, Products
    <2>5. t2.value.n = p /\ t2.value.d = q
        BY <1>5, <2>1 DEF Fraction
    <2> HIDE DEF p, q
    <2>6. s.value = Fraction(p * g.value.n, q * g.value.d)
        BY <1>6, <1>7, <2>1, <2>5
    <2> QED
        BY <2>4, <2>6 DEF Slowed
<1>11. Zero(s.value) <=> BadWater(w, f) \/ BadGround(w.terrain[f]) \/ BadSlope(w, u, v)
    BY <1>1, <1>2, <1>3, <1>5, <1>6, <1>7, <1>8
<1> QED
    BY <1>9, <1>10, <1>11 DEF s, g

LEMMA SpeedWithPathIs ==
    ASSUME NEW w \in Worlds, NEW f \in Faces, NEW u \in Vertices, NEW v \in Vertices
    PROVE  LET s == SpeedWithPath(w, f, u, v) IN
           /\ Warns(s)
           /\ Zero(s.value) <=>
                  \/ BadSlope(w, u, v)
                  \/ {u, v} \notin w.paths /\ (BadGround(w.terrain[f]) \/ BadWater(w, f))
           /\ {u, v} \in w.paths => s.value = PathSpeed(w, u, v).value
<1> DEFINE c == Path(w, u, v)
           a == PathSpeed(w, u, v)
           b == Speed(w, f, u, v)
           s == SpeedWithPath(w, f, u, v)
           z == IF c.value THEN a ELSE b
<1>1. c.warnings = <<>> /\ (c.value <=> {u, v} \in w.paths)
    BY DEF Path, Feature
<1>2. Warns(a) /\ (Zero(a.value) <=> BadSlope(w, u, v))
    BY PathSpeedIs
<1>3. Warns(b) /\ (Zero(b.value) <=> BadWater(w, f) \/ BadGround(w.terrain[f]) \/ BadSlope(w, u, v))
    BY SpeedIs
<1>4. s = Feature(z.value, c.warnings \o z.warnings)
    BY DEF SpeedWithPath, ConditionalFeature
<1> HIDE DEF a, b, c, s
<1>5. Warns(z)
    BY <1>2, <1>3
<1> HIDE DEF z
<1>6. c.warnings \o z.warnings = z.warnings
    BY <1>1, <1>5 DEF Warns
<1>7. s = z
    BY <1>4, <1>5, <1>6 DEF Warns, Feature
<1>8. z = IF {u, v} \in w.paths THEN a ELSE b
    BY <1>1 DEF z
<1> QED
    BY <1>2, <1>3, <1>5, <1>7, <1>8 DEF s, a

\* An edge that can be passed costs something finite; one that cannot has its warning.
LEMMA TimeIs ==
    ASSUME NEW w \in Worlds, NEW f \in Faces, NEW u \in Vertices, NEW v \in Vertices
    PROVE  LET t == Time(w, f, u, v)
               s == SpeedWithPath(w, f, u, v) IN
           /\ t.warnings \in Seq(Messages) /\ NotNegative(t.value)
           /\ t.value = Inf <=> Zero(s.value)
           /\ t.value = Inf => Grave(t.warnings)
<1> DEFINE s == SpeedWithPath(w, f, u, v)
           e == Distance(w, u, v)
           i == InverseFeature(s)
           t1 == Multiply(Nothing, <<"DOUBLE", e>>)
           t2 == Multiply(t1, <<"DOUBLE", i>>)
           t == Time(w, f, u, v)
<1>1. Warns(s)
    BY SpeedWithPathIs
<1>2. Warns(e) /\ e.value.n \in Nat \ {0} /\ e.value.d = 1
    BY WorldAssumption DEF Distance, Warns, Feature, Fraction, Values, Zero
<1> HIDE DEF s, e, t
<1>3. s.value \in Values /\ s.warnings \in Seq(Messages)
    BY <1>1 DEF Warns
<1>4. i.value = (IF Zero(s.value) THEN Inf ELSE Fraction(s.value.d, s.value.n))
      /\ i.warnings = s.warnings
    BY DEF InverseFeature, Feature
<1>5. i \in Speeds
    BY <1>3 DEF InverseFeature, Feature, Speeds, Values, Fraction, Zero
<1> HIDE DEF i
<1>6. <<"DOUBLE", e>> \in Dependencies /\ <<"DOUBLE", i>> \in Dependencies
    BY <1>2, <1>5, DoubleDependency DEF Dependencies
<1>7. t = Feature(t2.value, t2.warnings)
    BY <1>6, TwoDependencies DEF Time, t, e, i, s
<1>8. /\ Sound(t1) /\ ~t1.done
      /\ t1.value = Fraction(1 * e.value.n, 1 * e.value.d)
    <2>1. ~Zero(e.value)
        BY <1>2 DEF Zero
    <2> QED
        BY <1>2, <2>1, NothingIsSound, MultiplyDouble
<1>9. t1 \in Totals /\ t1.value.n \in Nat \ {0} /\ t1.value.d = 1 /\ t1.value # Inf
    BY <1>2, <1>8 DEF Sound, Fraction, Inf
<1> HIDE DEF t1
<1>10. t2 \in Totals
    BY <1>6, <1>9, MultiplyType
<1>11. t2.value = Times(t1.value, i.value) /\ t2.warnings = t1.warnings \o i.warnings
    <2> DEFINE p == Times(t1.value, i.value)
    <2>1. t2 = [[t1 EXCEPT !.warnings = @ \o i.warnings] EXCEPT !.value = p, !.done = Zero(p)]
        BY <1>8 DEF Multiply
    <2> HIDE DEF p
    <2>2. t2.value = p /\ t2.warnings = t1.warnings \o i.warnings
        BY <1>9, <2>1 DEF Totals
    <2> QED
        BY <2>2 DEF p
<1> HIDE DEF t2
<1>12. t.warnings \in Seq(Messages) /\ t.value = t2.value /\ t.warnings = t2.warnings
    BY <1>7, <1>10 DEF Totals, Feature
<1>13. CASE Zero(s.value)
    <2>1. t.value = Inf
        BY <1>4, <1>11, <1>12, <1>13 DEF Times
    <2>2. Grave(s.warnings) /\ t1.warnings \in Seq(Messages)
        BY <1>1, <1>9, <1>13 DEF Warns, Totals
    <2>3. Grave(t.warnings)
        BY <1>3, <1>4, <1>11, <1>12, <2>2, GraveOfConcat
    <2>4. NotNegative(Inf)
        BY DEF NotNegative, Inf, Fraction
    <2> QED
        BY <1>12, <1>13, <2>1, <2>3, <2>4 DEF t, s
<1>14. CASE ~Zero(s.value)
    <2>1. s.value.n \in Nat \ {0} /\ s.value.d \in Nat \ {0}
        BY <1>3, <1>14 DEF Values, Zero
    <2>2. i.value = Fraction(s.value.d, s.value.n) /\ i.value # Inf
        BY <1>4, <1>14, <2>1 DEF Fraction, Inf
    <2>3. t.value = Fraction(t1.value.n * s.value.d, t1.value.d * s.value.n)
        BY <1>9, <1>11, <1>12, <2>2 DEF Times, Fraction
    <2>4. t1.value.n * s.value.d \in Nat /\ t1.value.d * s.value.n \in Nat \ {0}
        BY <1>9, <2>1
    <2>5. NotNegative(t.value) /\ t.value # Inf
        BY <2>3, <2>4 DEF NotNegative, Fraction, Inf
    <2> QED
        BY <1>12, <1>14, <2>5 DEF t, s
<1> QED
    BY <1>13, <1>14

LEMMA EdgeTimeIs ==
    ASSUME world \in Worlds, NEW e \in Edges
    PROVE  /\ EdgeTime(e).warnings \in Seq(Messages) /\ NotNegative(EdgeTime(e).value)
           /\ EdgeTime(e).value = Inf <=> NoSpeed(e[1], e[2], e[3])
           /\ EdgeTime(e).value = Inf => Grave(EdgeTime(e).warnings)
<1>1. e[1] \in Faces /\ e[2] \in Vertices /\ e[3] \in Vertices
    BY DEF Edges
<1> DEFINE t == Time(world, e[1], e[2], e[3])
           s == SpeedWithPath(world, e[1], e[2], e[3])
<1>2. /\ t.warnings \in Seq(Messages) /\ NotNegative(t.value)
      /\ t.value = Inf <=> Zero(s.value)
      /\ t.value = Inf => Grave(t.warnings)
    BY <1>1, TimeIs
<1>3. Zero(s.value) <=>
          \/ BadSlope(world, e[2], e[3])
          \/ /\ {e[2], e[3]} \notin world.paths
             /\ BadGround(world.terrain[e[1]]) \/ BadWater(world, e[1])
    BY <1>1, SpeedWithPathIs
<1>4. EdgeTime(e) = t
    BY DEF EdgeTime
<1> HIDE DEF t, s
<1> QED
    BY <1>2, <1>3, <1>4 DEF NoSpeed, BadSlope, BadGround, BadWater

-----------------------------------------------------------------------------
(* The search.                                                              *)

Raised(f, edges) == UNION {ToSet(EdgeTime(e).warnings) : e \in {e \in ToSet(edges) : e[1] = f}}

LEMMA WarnedIs ==
    ASSUME world \in Worlds, NEW f \in Faces, warnings[f] \in Messages, NEW edges \in Seq(Edges)
    PROVE  /\ Raised(f, edges) \subseteq Messages /\ Warned(f, edges) \in Messages
           /\ Warned(f, edges) \in {warnings[f]} \cup Raised(f, edges)
           /\ \A m \in {warnings[f]} \cup Raised(f, edges) : Priority[Warned(f, edges)] >= Priority[m]
<1> DEFINE One(i) == IF edges[i][1] = f THEN EdgeTime(edges[i]).warnings ELSE <<>>
           s == [i \in DOMAIN edges |-> One(i)]
<1>1. DOMAIN edges = 1 .. Len(edges) /\ Len(edges) \in Nat /\ \A i \in DOMAIN edges : edges[i] \in Edges
    BY ElementOf
<1>2. \A i \in DOMAIN edges : One(i) \in Seq(Messages)
    <2>1. <<>> \in Seq(Messages)
        OBVIOUS
    <2> QED
        BY <1>1, <2>1, EdgeTimeIs
<1>3. Warned(f, edges) = FoldLeft(AddWarning, warnings[f], FlattenSeq(s))
    BY DEF Warned
<1> HIDE DEF One
<1>4. s \in [1 .. Len(edges) -> Seq(Messages)]
    BY <1>1, <1>2
<1>5. s \in Seq(Seq(Messages)) /\ DOMAIN s = DOMAIN edges
    BY <1>1, <1>4, TableIsSequence
<1>6. UNION {ToSet(s[i]) : i \in DOMAIN s} = Raised(f, edges)
    <2>1. ASSUME NEW i \in DOMAIN edges
          PROVE  ToSet(s[i]) \subseteq Raised(f, edges)
        <3>1. s[i] = One(i)
            OBVIOUS
        <3>2. CASE edges[i][1] = f
            BY <3>1, <3>2 DEF Raised, One, ToSet
        <3>3. CASE edges[i][1] # f
            <4>1. ToSet(s[i]) = {}
                BY <3>1, <3>3 DEF One, ToSet
            <4> QED
                BY <4>1
        <3> QED
            BY <3>2, <3>3
    <2>2. ASSUME NEW e \in ToSet(edges), e[1] = f
          PROVE  \E i \in DOMAIN edges : s[i] = EdgeTime(e).warnings
        <3>1. PICK i \in DOMAIN edges : edges[i] = e
            BY DEF ToSet
        <3> QED
            BY <2>2, <3>1 DEF One
    <2> HIDE DEF s
    <2>3. UNION {ToSet(s[i]) : i \in DOMAIN s} \subseteq Raised(f, edges)
        BY <1>5, <2>1
    <2>4. Raised(f, edges) \subseteq UNION {ToSet(s[i]) : i \in DOMAIN s}
        BY <1>5, <2>2 DEF Raised
    <2> QED
        BY <2>3, <2>4
<1> HIDE DEF s
<1>7. FlattenSeq(s) \in Seq(Messages) /\ ToSet(FlattenSeq(s)) = Raised(f, edges)
    BY <1>5, <1>6, Joined
<1>8. ToSet(FlattenSeq(s)) \subseteq Messages
    BY <1>7 DEF ToSet
<1> QED
    BY <1>3, <1>7, <1>8, GravestStays

TreeInv ==
    /\ world \in Worlds /\ status \in {"searching", "found", "failed", "invalid"}
    /\ DOMAIN closed \subseteq Vertices /\ \A v \in DOMAIN closed : closed[v] \in DOMAIN closed
    /\ \A n \in queued : n[1] \in Vertices /\ (n[2] \in DOMAIN closed \/ (n[1] = Start /\ n[2] = Start))
    /\ warnings \in [Faces -> Messages] /\ raised \in [Faces -> SUBSET Messages]
    /\ calculated \subseteq Edges

\* What was raised for a face, its warning outweighs.
WarnInv ==
    /\ \A e \in calculated : ToSet(EdgeTime(e).warnings) \subseteq raised[e[1]]
    /\ status # "found" => \A f \in Faces :
          /\ warnings[f] \in {"NONE"} \cup raised[f]
          /\ \A m \in raised[f] : Priority[warnings[f]] >= Priority[m]

Inv == TreeInv /\ WarnInv /\ ShowsGravest

LEMMA InvInit ==
    ASSUME Init
    PROVE  Inv
<1>1. DOMAIN closed = {} /\ Start \in Vertices
    BY MeshAssumption DEF Init
<1>2. "NONE" \in Messages
    BY Priorities
<1> QED
    BY <1>1, <1>2 DEF Init, Inv, TreeInv, WarnInv, ShowsGravest

LEMMA RouteIsClosed ==
    ASSUME TreeInv, End \in DOMAIN closed
    PROVE  RouteButEnd \subseteq DOMAIN closed
<1> DEFINE N == Cardinality(Vertices)
           D == DOMAIN closed
           G == [v \in D |-> Before(v)]
           back == CHOOSE back : back = [k \in 0 .. N |-> IF k = 0 THEN End ELSE Before(back[k - 1])]
<1>1. N \in Nat
    BY FS_CardinalityType, MeshAssumption
<1>2. G \in [D -> D]
    BY DEF Before, TreeInv
<1> HIDE DEF N, D, G, back
<1>3. End \in D
    BY DEF D
<1> DEFINE Gs == [k \in 1 .. N |-> G]
           r == Recursion(N, D, End, Gs)
<1>4. r \in [0 .. N -> D] /\ r[0] = End /\ \A k \in 1 .. N : r[k] = G[r[k - 1]]
    <2>1. Gs \in [1 .. N -> [D -> D]]
        BY <1>2
    <2> HIDE DEF Gs
    <2>2. r \in [0 .. N -> D] /\ r[0] = End /\ \A k \in 1 .. N : r[k] = Gs[k][r[k - 1]]
        BY <1>1, <1>3, <2>1, Recurs, SMTT(60)
    <2> HIDE DEF r
    <2> QED
        BY <2>2 DEF Gs
<1> HIDE DEF Gs, r
<1>5. \A k \in 1 .. N : r[k] = Before(r[k - 1])
    <2> SUFFICES ASSUME NEW k \in 1 .. N
                 PROVE  r[k] = Before(r[k - 1])
        OBVIOUS
    <2>1. k - 1 \in 0 .. N /\ r[k - 1] \in D
        BY <1>1, <1>4
    <2> QED
        BY <1>4, <2>1 DEF G
<1>6. r = [k \in 0 .. N |-> IF k = 0 THEN End ELSE Before(r[k - 1])]
    <2>1. \A k \in 0 .. N : r[k] = IF k = 0 THEN End ELSE Before(r[k - 1])
        BY <1>1, <1>4, <1>5
    <2>2. r = [k \in 0 .. N |-> r[k]]
        BY <1>4
    <2> QED
        BY <2>1, <2>2
<1>7. back = [k \in 0 .. N |-> IF k = 0 THEN End ELSE Before(back[k - 1])]
    BY <1>6 DEF back
<1>8. \A k \in Nat : k <= N => back[k] \in D
    <2> DEFINE T == {k \in Nat : k <= N => back[k] \in D}
    <2>1. 0 \in T
        BY <1>1, <1>3, <1>7
    <2>2. ASSUME NEW k \in Nat, k \in T
          PROVE  k + 1 \in T
        <3> SUFFICES ASSUME k + 1 <= N
                     PROVE  back[k + 1] \in D
            OBVIOUS
        <3>1. back[k] \in D
            BY <1>1, <2>2
        <3>2. back[k + 1] = Before(back[k])
            <4>1. k + 1 \in 0 .. N /\ k + 1 # 0 /\ (k + 1) - 1 = k
                BY <1>1
            <4> QED
                BY <1>7, <4>1
        <3>3. \A v \in D : Before(v) \in D
            BY <1>2 DEF G
        <3> QED
            BY <3>1, <3>2, <3>3
    <2> HIDE DEF T
    <2>3. Nat \subseteq T
        BY <2>1, <2>2, Induct
    <2> QED
        BY <2>3 DEF T
<1>9. RouteButEnd \subseteq {back[k] : k \in 1 .. N}
    BY DEF RouteButEnd, back, N
<1>10. \A k \in 1 .. N : k \in Nat /\ k <= N
    BY <1>1
<1> QED
    BY <1>8, <1>9, <1>10 DEF D

LEMMA CloseStep ==
    ASSUME TreeInv, WarnInv, NEW n \in queued, Close(n)
    PROVE  TreeInv' /\ WarnInv'
<1> DEFINE v == n[1]
           edges == EdgesAround(v)
<1>1. v \in Vertices /\ (n[2] \in DOMAIN closed \/ (v = Start /\ n[2] = Start))
    BY DEF TreeInv
<1>2. /\ closed' = [x \in DOMAIN closed \cup {v} |-> IF x = v THEN n[2] ELSE closed[x]]
      /\ queued' = (queued \ {n}) \cup {<<e[3], e[2], EdgeTime(e).value>> : e \in ToSet(edges)}
      /\ warnings' = [f \in Faces |-> Warned(f, edges)]
      /\ raised' = [f \in Faces |-> raised[f] \cup Raised(f, edges)]
      /\ calculated' = calculated \cup ToSet(edges)
      /\ world' = world /\ status' = status
    BY DEF Close, Reaches, Raised
<1>3. edges \in Seq(EdgesFrom(v))
    BY <1>1, EdgesAreEdges
<1> HIDE DEF v, edges
<1>4. /\ \A e \in ToSet(edges) : e \in Edges /\ e[2] = v /\ e[3] \in Vertices
      /\ edges \in Seq(Edges)
    <2>1. EdgesFrom(v) \subseteq Edges
        BY DEF EdgesFrom
    <2>2. \A e \in EdgesFrom(v) : e \in Edges /\ e[2] = v /\ e[3] \in Vertices
        BY DEF EdgesFrom, Edges
    <2>3. \A e \in ToSet(edges) : e \in EdgesFrom(v)
        BY <1>3, ElementOf DEF ToSet
    <2>4. edges \in [1 .. Len(edges) -> Edges] /\ Len(edges) \in Nat
        BY <1>3, <2>1
    <2> QED
        BY <2>2, <2>3, <2>4, TableIsSequence
<1>5. \A f \in Faces : /\ Raised(f, edges) \subseteq Messages /\ Warned(f, edges) \in Messages
                       /\ Warned(f, edges) \in {warnings[f]} \cup Raised(f, edges)
                       /\ \A m \in {warnings[f]} \cup Raised(f, edges) :
                             Priority[Warned(f, edges)] >= Priority[m]
    <2>1. world \in Worlds /\ \A f \in Faces : warnings[f] \in Messages
        BY DEF TreeInv
    <2> QED
        BY <1>4, <2>1, WarnedIs
<1>6. DOMAIN closed' = DOMAIN closed \cup {v} /\ \A x \in DOMAIN closed' : closed'[x] \in DOMAIN closed'
    BY <1>1, <1>2 DEF TreeInv
<1>7. \A x \in queued' : x[1] \in Vertices /\ (x[2] \in DOMAIN closed' \/ (x[1] = Start /\ x[2] = Start))
    <2>1. \A x \in queued : x[1] \in Vertices /\ (x[2] \in DOMAIN closed' \/ (x[1] = Start /\ x[2] = Start))
        BY <1>6 DEF TreeInv
    <2>2. \A e \in ToSet(edges) : e[3] \in Vertices /\ e[2] \in DOMAIN closed'
        BY <1>4, <1>6
    <2> SUFFICES ASSUME NEW x \in queued'
                 PROVE  x[1] \in Vertices /\ (x[2] \in DOMAIN closed' \/ (x[1] = Start /\ x[2] = Start))
        OBVIOUS
    <2>3. CASE x \in queued
        BY <2>1, <2>3
    <2>4. CASE x \notin queued
        <3>1. PICK e \in ToSet(edges) : x = <<e[3], e[2], EdgeTime(e).value>>
            BY <1>2, <2>4
        <3>2. x[1] = e[3] /\ x[2] = e[2]
            BY <3>1
        <3> QED
            BY <2>2, <3>2
    <2> QED
        BY <2>3, <2>4
<1>8. TreeInv'
    <2>1. world' \in Worlds /\ status' \in {"searching", "found", "failed", "invalid"}
        BY <1>2 DEF TreeInv
    <2>2. DOMAIN closed' \subseteq Vertices
        BY <1>1, <1>6 DEF TreeInv
    <2>3. warnings' \in [Faces -> Messages] /\ raised' \in [Faces -> SUBSET Messages]
        BY <1>2, <1>5 DEF TreeInv
    <2>4. calculated' \subseteq Edges
        BY <1>2, <1>4 DEF TreeInv
    <2> QED
        BY <1>6, <1>7, <2>1, <2>2, <2>3, <2>4 DEF TreeInv
<1>9. \A e \in calculated' : ToSet(EdgeTime(e)'.warnings) \subseteq raised'[e[1]]
    <2>1. \A e : EdgeTime(e)' = EdgeTime(e)
        BY <1>2 DEF EdgeTime
    <2>2. ASSUME NEW e \in calculated
          PROVE  ToSet(EdgeTime(e).warnings) \subseteq raised'[e[1]]
        <3>1. e[1] \in Faces
            BY DEF TreeInv, Edges
        <3> QED
            BY <1>2, <3>1 DEF WarnInv
    <2>3. ASSUME NEW e \in ToSet(edges)
          PROVE  ToSet(EdgeTime(e).warnings) \subseteq raised'[e[1]]
        <3>1. e[1] \in Faces
            BY <1>4 DEF Edges
        <3>2. ToSet(EdgeTime(e).warnings) \subseteq Raised(e[1], edges)
            BY DEF Raised
        <3> QED
            BY <1>2, <3>1, <3>2
    <2> QED
        BY <1>2, <2>1, <2>2, <2>3
<1>10. ASSUME NEW f \in Faces
       PROVE  /\ warnings'[f] \in {"NONE"} \cup raised'[f]
              /\ \A m \in raised'[f] : Priority[warnings'[f]] >= Priority[m]
    <2>1. status = "searching"
        BY DEF Close, Reaches
    <2>2. /\ warnings[f] \in {"NONE"} \cup raised[f]
          /\ \A m \in raised[f] : Priority[warnings[f]] >= Priority[m]
          /\ raised[f] \subseteq Messages /\ warnings[f] \in Messages
        BY <2>1 DEF WarnInv, TreeInv
    <2>3. warnings'[f] = Warned(f, edges) /\ raised'[f] = raised[f] \cup Raised(f, edges)
        BY <1>2
    <2> DEFINE a == warnings[f]
               b == Warned(f, edges)
               R == Raised(f, edges)
    <2>4. /\ b \in {a} \cup R /\ b \in Messages /\ R \subseteq Messages
          /\ \A m \in {a} \cup R : Priority[b] >= Priority[m]
        BY <1>5
    <2> HIDE DEF a, b, R
    <2>5. \A m \in Messages : Priority[m] \in Nat
        BY Priorities
    <2>6. \A m \in raised[f] : Priority[b] >= Priority[m]
        BY <2>2, <2>4, <2>5 DEF a
    <2> QED
        BY <2>2, <2>3, <2>4, <2>6 DEF a, b, R
<1>11. WarnInv'
    BY <1>9, <1>10 DEF WarnInv
<1> QED
    BY <1>8, <1>11

LEMMA InvalidStep ==
    ASSUME TreeInv, WarnInv, NEW n \in queued, Invalid(n)
    PROVE  TreeInv' /\ WarnInv'
<1> DEFINE v == n[1]
<1>1. v \in Vertices /\ (n[2] \in DOMAIN closed \/ (v = Start /\ n[2] = Start))
    BY DEF TreeInv
<1>2. /\ closed' = [x \in DOMAIN closed \cup {v} |-> IF x = v THEN n[2] ELSE closed[x]]
      /\ status = "searching" /\ status' = "invalid"
      /\ UNCHANGED <<world, queued, warnings, raised, calculated>>
    BY DEF Invalid, Reaches
<1> HIDE DEF v
<1>3. DOMAIN closed' = DOMAIN closed \cup {v} /\ \A x \in DOMAIN closed' : closed'[x] \in DOMAIN closed'
    BY <1>1, <1>2 DEF TreeInv
<1>4. TreeInv'
    BY <1>1, <1>2, <1>3 DEF TreeInv
<1>5. WarnInv'
    BY <1>2 DEF WarnInv, EdgeTime
<1> QED
    BY <1>4, <1>5

LEMMA FoundShows ==
    ASSUME TreeInv, WarnInv, Found
    PROVE  ShowsGravest'
<1>1. /\ End \in DOMAIN closed /\ status # "found" /\ raised' = raised /\ closed' = closed
      /\ warnings' = [f \in Faces |-> IF f \in Shown THEN warnings[f] ELSE "NONE"]
    BY DEF Found
<1>2. RouteButEnd' = RouteButEnd
    BY <1>1 DEF RouteButEnd, Before
<1>3. RouteButEnd \subseteq Vertices
    BY <1>1, RouteIsClosed DEF TreeInv
<1>4. \A v \in Vertices : ToSet(Around[v]) = {f \in Faces : v \in Corners[f]}
    BY MeshAssumption
<1>5. warnings \in [Faces -> Messages] /\ raised \in [Faces -> SUBSET Messages]
    BY DEF TreeInv
<1>6. \A f \in Faces : /\ warnings[f] \in {"NONE"} \cup raised[f]
                       /\ \A m \in raised[f] : Priority[warnings[f]] >= Priority[m]
    BY <1>1 DEF WarnInv
<1>7. ASSUME NEW f \in Faces, warnings'[f] # "NONE"
      PROVE  /\ warnings'[f] \in raised[f] /\ Priority[warnings'[f]] >= MinPriority
             /\ \E v \in RouteButEnd : v \in Corners[f]
    <2>1. f \in Shown /\ warnings'[f] = warnings[f]
        BY <1>1, <1>7
    <2>2. PICK v \in RouteButEnd : f = Gravest(v) /\ f # "none"
        BY <2>1 DEF Shown
    <2>3. f \in ToSet(Around[v])
        BY <1>3, <1>5, <2>2, GravestIsGravest
    <2>4. v \in Corners[f]
        BY <1>3, <1>4, <2>3
    <2> QED
        BY <1>6, <1>7, <2>1, <2>4 DEF Shown
<1>8. ASSUME NEW v \in RouteButEnd, NEW f \in ToSet(Around[v]), NEW m \in raised[f],
             Priority[m] >= MinPriority
      PROVE  \E g \in ToSet(Around[v]) : Priority[warnings'[g]] >= Priority[m]
    <2>1. f \in Faces /\ v \in Vertices
        BY <1>3, <1>4
    <2>2. m \in Messages /\ Priority[m] \in Nat /\ Priority[warnings[f]] \in Nat
        BY <1>5, <2>1, Priorities
    <2>3. Priority[warnings[f]] >= Priority[m]
        BY <1>6, <2>1
    <2>4. Priority[warnings[f]] > 0
        BY <1>8, <2>2, <2>3, PriorityAssumption
    <2> DEFINE g == Gravest(v)
    <2>5. g \in ToSet(Around[v]) /\ g # "none" /\ Priority[warnings[g]] >= Priority[warnings[f]]
        BY <1>5, <2>1, <2>4, GravestIsGravest
    <2> HIDE DEF g
    <2>6. g \in Faces /\ Priority[warnings[g]] \in Nat
        BY <1>4, <1>5, <2>1, <2>5, Priorities
    <2>7. Priority[warnings[g]] >= Priority[m] /\ Priority[warnings[g]] >= MinPriority
        BY <1>8, <2>2, <2>3, <2>5, <2>6, PriorityAssumption
    <2>8. g \in Shown
        BY <2>5, <2>7 DEF Shown, g
    <2>9. warnings'[g] = warnings[g]
        BY <1>1, <2>6, <2>8
    <2> QED
        BY <2>5, <2>7, <2>9
<1> QED
    BY <1>1, <1>2, <1>7, <1>8 DEF ShowsGravest

LEMMA InvStep ==
    ASSUME Inv, [Next]_vars
    PROVE  Inv'
<1>1. TreeInv /\ WarnInv
    BY DEF Inv
<1>2. CASE \E n \in queued : Close(n)
    <2>1. PICK n \in queued : Close(n)
        BY <1>2
    <2>2. status' # "found"
        BY <2>1 DEF Close, Reaches
    <2> QED
        BY <1>1, <2>1, <2>2, CloseStep DEF Inv, ShowsGravest
<1>3. CASE Found
    <2>1. ShowsGravest'
        BY <1>1, <1>3, FoundShows
    <2>2. "NONE" \in Messages
        BY Priorities
    <2>3. TreeInv'
        BY <1>1, <1>3, <2>2 DEF TreeInv, Found
    <2>4. WarnInv'
        BY <1>1, <1>3 DEF WarnInv, Found, EdgeTime
    <2> QED
        BY <2>1, <2>3, <2>4 DEF Inv
<1>4. CASE Fail
    <2>1. TreeInv' /\ WarnInv' /\ status' # "found"
        BY <1>1, <1>4 DEF TreeInv, WarnInv, Fail, EdgeTime
    <2> QED
        BY <2>1 DEF Inv, ShowsGravest
<1>5. CASE \E n \in queued : Invalid(n)
    <2>1. PICK n \in queued : Invalid(n)
        BY <1>5
    <2>2. status' # "found"
        BY <2>1 DEF Invalid
    <2> QED
        BY <1>1, <2>1, <2>2, InvalidStep DEF Inv, ShowsGravest
<1>6. CASE UNCHANGED vars
    <2>1. RouteButEnd' = RouteButEnd
        BY <1>6 DEF vars, RouteButEnd, Before
    <2>2. ShowsGravest'
        BY <1>6, <2>1 DEF vars, Inv, ShowsGravest
    <2>3. TreeInv' /\ WarnInv'
        BY <1>1, <1>6 DEF vars, TreeInv, WarnInv, EdgeTime
    <2> QED
        BY <2>2, <2>3 DEF Inv
<1> QED
    BY <1>2, <1>3, <1>4, <1>5, <1>6 DEF Next

THEOREM Invariant == Spec => []Inv
<1>1. Init => Inv
    BY InvInit
<1>2. Inv /\ [Next]_vars => Inv'
    BY InvStep
<1> QED
    BY <1>1, <1>2, PTL DEF Spec

\* Every parent is closed or the start, every warning is a message, and every edge
\* calculated is one of its face (Router.cpp:119-160).
THEOREM TypeCorrect == Spec => []TypeOK
<1>1. Inv => TypeOK
    <2> SUFFICES ASSUME TreeInv
                 PROVE  TypeOK
        BY DEF Inv
    <2>1. Range(closed) \subseteq Vertices
        BY DEF TreeInv, Range
    <2>2. \A e \in calculated : e[1] \in Faces /\ e[2] # e[3] /\ {e[2], e[3]} \subseteq Corners[e[1]]
        BY DEF TreeInv, Edges
    <2> QED
        BY <2>1, <2>2 DEF TreeInv, TypeOK, Messages
<1> QED
    BY <1>1, Invariant, PTL

\* In every world no edge costs less than nothing, and exactly those cost infinitely much
\* of whose factors one is zero: the slope's, or off the paths the ground's or water's
\* (Presets.cpp:50-77).
THEOREM InfiniteOnlyWithoutSpeed == Spec => []InfiniteWhereNoSpeed
<1>1. Inv => InfiniteWhereNoSpeed
    BY EdgeTimeIs DEF Inv, TreeInv, InfiniteWhereNoSpeed
<1> QED
    BY <1>1, Invariant, PTL

LEMMA WholeQuotient ==
    ASSUME NEW q \in Nat, NEW d \in Nat \ {0}
    PROVE  (q * d) \div d = q
<1> DEFINE z == (q * d) \div d
<1>1. q * d \in Int
    OBVIOUS
<1>2. z \in Int /\ d * z <= q * d /\ q * d < d * (z + 1)
    BY <1>1
<1> HIDE DEF z
<1>3. z <= q
    BY <1>2
<1>4. q < z + 1
    BY <1>2
<1> QED
    BY <1>2, <1>3, <1>4 DEF z

\* A path is never slower than the ground it lies on (Presets.cpp:56-70).
THEOREM PathsAreNeverSlower == Spec => []PathNeverSlower
<1>1. Inv => PathNeverSlower
    <2> SUFFICES ASSUME TreeInv, NEW e \in calculated,
                        {e[2], e[3]} \in world.paths
                 PROVE  LET on  == PathSpeed(world, e[2], e[3]).value
                            off == Speed(world, e[1], e[2], e[3]).value
                            all == SpeedWithPath(world, e[1], e[2], e[3]).value
                        IN  all = on /\ all.n * (off.d \div all.d) >= off.n
        BY DEF Inv, PathNeverSlower
    <2> DEFINE on  == PathSpeed(world, e[2], e[3]).value
               off == Speed(world, e[1], e[2], e[3]).value
               all == SpeedWithPath(world, e[1], e[2], e[3]).value
    <2>1. world \in Worlds /\ e[1] \in Faces /\ e[2] \in Vertices /\ e[3] \in Vertices
        BY DEF TreeInv, Edges
    <2>2. on \in Values /\ on = GradientSpeed(world, e[2], e[3]).value
        BY <2>1, PathSpeedIs DEF Warns
    <2>3. all = on
        BY <2>1, SpeedWithPathIs
    <2>4. off \in Values /\ (~Zero(off) => Slowed(off, on))
        BY <2>1, <2>2, SpeedIs DEF Warns
    <2> HIDE DEF on, off, all
    <2>5. on.n \in Nat /\ on.d \in Nat \ {0} /\ off.n \in Nat /\ off.d \in Nat \ {0}
        BY <2>2, <2>4 DEF Values
    <2>6. CASE Zero(off)
        <3>1. off.n = 0
            BY <2>6 DEF Zero
        <3> DEFINE q == off.d \div on.d
        <3>2. q \in Nat
            BY <2>5
        <3> HIDE DEF q
        <3>3. on.n * q >= off.n
            BY <2>5, <3>1, <3>2
        <3> QED
            BY <2>3, <3>3 DEF q, on, off, all
    <2>7. CASE ~Zero(off)
        <3>1. PICK p \in Nat, q \in Nat \ {0} : p <= q /\ off = Fraction(p * on.n, q * on.d)
            BY <2>4, <2>7 DEF Slowed
        <3>2. off.n = p * on.n /\ off.d = q * on.d
            BY <3>1 DEF Fraction
        <3>3. (q * on.d) \div on.d = q
            BY <2>5, WholeQuotient
        <3>4. on.n * q >= p * on.n
            BY <2>5, <3>1
        <3> QED
            BY <2>3, <3>2, <3>3, <3>4 DEF on, off, all
    <2> QED
        BY <2>6, <2>7
<1> QED
    BY <1>1, Invariant, PTL

\* Wherever the search met an impassable edge, the face bears a grave warning until the
\* route is found (Feature.cpp:16-35, Router.cpp:88-94).
THEOREM ImpassablesAreWarned == Spec => []ImpassableIsWarned
<1>1. Inv => ImpassableIsWarned
    <2> SUFFICES ASSUME TreeInv, WarnInv, status # "found", NEW e \in calculated,
                        EdgeTime(e).value = Inf
                 PROVE  Priority[warnings[e[1]]] >= MinPriority
        BY DEF Inv, ImpassableIsWarned
    <2>1. world \in Worlds /\ e \in Edges /\ e[1] \in Faces
        BY DEF TreeInv, Edges
    <2>2. PICK m \in ToSet(EdgeTime(e).warnings) : Priority[m] >= 10
        BY <2>1, EdgeTimeIs DEF Grave
    <2>3. m \in raised[e[1]] /\ m \in Messages /\ warnings[e[1]] \in Messages
        BY <2>1 DEF WarnInv, TreeInv
    <2>4. Priority[warnings[e[1]]] >= Priority[m]
        BY <2>1, <2>3 DEF WarnInv
    <2>5. Priority[m] \in Nat /\ Priority[warnings[e[1]]] \in Nat
        BY <2>3, Priorities
    <2> QED
        BY <2>2, <2>4, <2>5, PriorityAssumption
<1> QED
    BY <1>1, Invariant, PTL

\* With a route only grave warnings of faces beside it are shown, and nothing graver was
\* left out at any vertex but the end (TsrState.cpp:8-56).
THEOREM GravestAreShown == Spec => []ShowsGravest
<1>1. Inv => ShowsGravest
    BY DEF Inv
<1> QED
    BY <1>1, Invariant, PTL
=============================================================================
