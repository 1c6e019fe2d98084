---------------------------- MODULE ContoursProofs ----------------------------
(***************************************************************************)
(* Proofs about Contours: the arithmetic of rounding and splitting, what a *)
(* segment becomes, what is loaded, and on these the properties of the     *)
(* state.                                                                  *)
(***************************************************************************)
EXTENDS Contours, Induction

-----------------------------------------------------------------------------
(* Selecting elements of a sequence.                                        *)

LEMMA OnlyByOne ==
    ASSUME NEW S, NEW s \in Seq(S), NEW keep
    PROVE  /\ OnlyUpTo(s, keep) \in [0 .. Len(s) -> Seq(S \cap keep)]
           /\ OnlyUpTo(s, keep)[0] = <<>>
           /\ \A i \in 1 .. Len(s) :
                 OnlyUpTo(s, keep)[i] =
                     IF s[i] \in keep THEN Append(OnlyUpTo(s, keep)[i - 1], s[i])
                                      ELSE OnlyUpTo(s, keep)[i - 1]
<1> DEFINE N == Len(s)
           D == Seq(S \cap keep)
           First == <<>>
           Step(i, t) == IF s[i] \in keep THEN Append(t, s[i]) ELSE t
           G == [i \in 1 .. N |-> [t \in D |-> Step(i, t)]]
           Body(r, i) == IF i = 0 THEN <<>>
                         ELSE IF s[i] \in keep THEN Append(r[i - 1], s[i]) ELSE r[i - 1]
           upTo == CHOOSE r : r = [i \in 0 .. N |-> Body(r, i)]
<1>1. N \in Nat /\ First \in D
    OBVIOUS
<1>2. G \in [1 .. N -> [D -> D]]
    <2> SUFFICES ASSUME NEW i \in 1 .. N, NEW t \in D
                 PROVE  Step(i, t) \in D
        BY DEF G
    <2>1. s[i] \in S
        OBVIOUS
    <2> QED
        BY <2>1
<1> DEFINE r == Recursion(N, D, First, G)
<1>3. r \in [0 .. N -> D] /\ r[0] = First /\ \A n \in 1 .. N : r[n] = G[n][r[n - 1]]
    <2> HIDE DEF N, D, G, First
    <2> QED
        BY <1>1, <1>2, Recurs, SMTT(60)
<1> HIDE DEF r
<1>4. r \in [0 .. N -> D] /\ r[0] = <<>> /\ \A n \in 1 .. N : r[n] = G[n][r[n - 1]]
    BY <1>3
<1>5. ASSUME NEW n \in 1 .. N
      PROVE  r[n] = Step(n, r[n - 1])
    <2>1. r[n - 1] \in D
        BY <1>1, <1>4
    <2> HIDE DEF Step, D
    <2> QED
        BY <1>4, <2>1
<1>6. r = [i \in 0 .. N |-> Body(r, i)]
    <2>1. ASSUME NEW i \in 0 .. N
          PROVE  r[i] = Body(r, i)
        <3>1. CASE i = 0
            BY <1>4, <3>1
        <3>2. CASE i # 0
            <4>1. i \in 1 .. N
                BY <1>1, <3>2
            <4>2. r[i] = Step(i, r[i - 1])
                BY <1>5, <4>1
            <4> QED
                BY <3>2, <4>2
        <3> QED
            BY <3>1, <3>2
    <2> HIDE DEF Body
    <2> QED
        BY <1>4, <2>1
<1>7. upTo = [i \in 0 .. N |-> Body(upTo, i)]
    <2> HIDE DEF Body
    <2> QED
        BY <1>6
<1>8. OnlyUpTo(s, keep) = upTo
    BY DEF OnlyUpTo
<1> HIDE DEF upTo
<1>9. \A i \in 0 .. N : upTo[i] = Body(upTo, i)
    <2> HIDE DEF Body
    <2> QED
        BY <1>7
\* Both are the same function.
<1> DEFINE Same == {i \in Nat : i \in 0 .. N => upTo[i] = r[i]}
<1>10. 0 \in Same
    BY <1>1, <1>4, <1>9
<1>11. ASSUME NEW i \in Nat, i \in Same
       PROVE  i + 1 \in Same
    <2> SUFFICES ASSUME i + 1 \in 0 .. N
                 PROVE  upTo[i + 1] = r[i + 1]
        OBVIOUS
    <2>1. i \in 0 .. N /\ i + 1 \in 1 .. N /\ (i + 1) - 1 = i /\ i + 1 # 0
        BY <1>1
    <2>2. upTo[i + 1] = Step(i + 1, upTo[i])
        BY <1>9, <2>1
    <2>3. upTo[i] = r[i]
        BY <1>11, <2>1
    <2> QED
        BY <1>5, <2>1, <2>2, <2>3
<1>12. Nat \subseteq Same
    <2> HIDE DEF Same
    <2> QED
        BY <1>10, <1>11, Induct
<1>13. \A i \in 0 .. N : upTo[i] = r[i]
    BY <1>12
<1>14. upTo = r
    <2> HIDE DEF Body
    <2> QED
        BY <1>4, <1>7, <1>13
<1>15. \A i \in 1 .. N : r[i] = IF s[i] \in keep THEN Append(r[i - 1], s[i]) ELSE r[i - 1]
    BY <1>5
<1> QED
    BY <1>4, <1>8, <1>14, <1>15

LEMMA SeqIntro ==
    ASSUME NEW S, NEW n \in Nat, NEW g \in [1 .. n -> S]
    PROVE  g \in Seq(S)
OBVIOUS

LEMMA SeqOfSubset ==
    ASSUME NEW S, NEW T, S \subseteq T, NEW s \in Seq(S)
    PROVE  s \in Seq(T)
OBVIOUS

\* What is kept comes from s and is in keep.
LEMMA OnlyType ==
    ASSUME NEW S, NEW s \in Seq(S), NEW keep
    PROVE  Only(s, keep) \in Seq(S \cap keep)
<1>1. OnlyUpTo(s, keep) \in [0 .. Len(s) -> Seq(S \cap keep)]
    BY OnlyByOne
<1>2. Len(s) \in 0 .. Len(s)
    OBVIOUS
<1> QED
    BY <1>1, <1>2 DEF Only

LEMMA OnlySelects ==
    ASSUME NEW S, NEW s \in Seq(S), NEW keep
    PROVE  ToSet(Only(s, keep)) \subseteq ToSet(s) \cap keep
<1>1. s \in Seq(ToSet(s))
    BY DEF ToSet
<1>2. Only(s, keep) \in Seq(ToSet(s) \cap keep)
    BY <1>1, OnlyType
<1> QED
    BY <1>2 DEF ToSet

\* Where at most the last element is left out, the others stay in place.
LEMMA OnlyDropsLast ==
    ASSUME NEW S, NEW s \in Seq(S), s # <<>>, NEW keep,
           \A i \in 1 .. Len(s) - 1 : s[i] \in keep
    PROVE  Only(s, keep) = IF s[Len(s)] \in keep THEN s ELSE [i \in 1 .. Len(s) - 1 |-> s[i]]
<1> DEFINE N == Len(s)
           Front_(n) == [i \in 1 .. n |-> s[i]]
           r == OnlyUpTo(s, keep)
<1>1. N \in Nat \ {0}
    OBVIOUS
<1>2. /\ r[0] = <<>>
      /\ \A i \in 1 .. N : r[i] = IF s[i] \in keep THEN Append(r[i - 1], s[i]) ELSE r[i - 1]
      /\ Only(s, keep) = r[N]
    BY OnlyByOne DEF Only
<1> HIDE DEF r
<1>3. ASSUME NEW i \in 1 .. N
      PROVE  Append(Front_(i - 1), s[i]) = Front_(i)
    <2>1. Front_(i - 1) \in Seq(S) /\ Len(Front_(i - 1)) = i - 1
        BY <1>1
    <2> QED
        BY <1>1, <2>1
<1> DEFINE P == {i \in Nat : i \in 0 .. N - 1 => r[i] = Front_(i)}
<1>4. 0 \in P
    BY <1>2
<1>5. ASSUME NEW i \in Nat, i \in P
      PROVE  i + 1 \in P
    <2> SUFFICES ASSUME i + 1 \in 0 .. N - 1
                 PROVE  r[i + 1] = Front_(i + 1)
        OBVIOUS
    <2>1. i \in 0 .. N - 1 /\ i + 1 \in 1 .. N - 1 /\ i + 1 \in 1 .. N /\ (i + 1) - 1 = i
        BY <1>1
    <2>2. r[i] = Front_(i) /\ s[i + 1] \in keep
        BY <1>5, <2>1
    <2> HIDE DEF Front_
    <2> QED
        BY <1>2, <1>3, <2>1, <2>2
<1>6. N - 1 \in P /\ N - 1 \in 0 .. N - 1
    <2> HIDE DEF P
    <2> QED
        BY <1>1, <1>4, <1>5, Induct
<1>7. r[N - 1] = Front_(N - 1)
    BY <1>6
<1>8. N \in 1 .. N /\ Front_(N) = s
    BY <1>1
<1> HIDE DEF Front_
<1>9. Only(s, keep) = IF s[N] \in keep THEN s ELSE Front_(N - 1)
    BY <1>2, <1>3, <1>7, <1>8
<1> QED
    BY <1>9 DEF Front_

-----------------------------------------------------------------------------
(* Rounding, and where a segment is split.                                  *)

\* Rounding gives whole metres, within half a metre.
LEMMA RoundedNear ==
    ASSUME NEW n \in Int, NEW d \in Nat \ {0}
    PROVE  /\ Rounded(n, d) \in Int
           /\ Rounded(n, d) % Metre = 0
           /\ d * (2 * Rounded(n, d) - Metre) <= 2 * n
           /\ 2 * n < d * (2 * Rounded(n, d) + Metre)
<1> DEFINE W == 2 * d * Metre
           Q == 2 * n + d * Metre
           k == Q \div W
           r == Metre * k
<1>1. Metre \in Nat \ {0} /\ W \in Nat \ {0} /\ Q \in Int
    BY UnitAssumption
<1>2. k \in Int /\ W * k <= Q /\ Q < W * k + W
    <2> HIDE DEF W, Q
    <2> QED
        BY <1>1
<1>3. W * k = 2 * (d * r)
    <2> HIDE DEF k
    <2> QED
        BY <1>1, <1>2
<1>4. r \in Int /\ r % Metre = 0
    <2> HIDE DEF k
    <2> QED
        BY <1>1, <1>2
<1>5. Rounded(n, d) = r
    BY DEF Rounded
<1> HIDE DEF r, k
<1>6. d * (2 * r - Metre) = 2 * (d * r) - d * Metre /\ d * (2 * r + Metre) = 2 * (d * r) + d * Metre
    BY <1>1, <1>4
<1>7. d * r \in Int /\ d * Metre \in Int
    BY <1>1, <1>4
<1> QED
    BY <1>1, <1>2, <1>3, <1>4, <1>5, <1>6, <1>7

\* The k-th point that splits a segment, before those outside are dropped.
Split(p, q, m, k) == Rounded(p * Splits(p, q, m) + (q - p) * k, Splits(p, q, m))

\* A long segment is split at least once, into pieces of the limit or a little more.
LEMMA SplitsBounds ==
    ASSUME NEW p \in Nat, NEW q \in Nat, NEW m \in Nat, m >= Metre, Long(p, q, m)
    PROVE  /\ Splits(p, q, m) \in Nat \ {0}
           /\ Splits(p, q, m) * m <= Distance(p, q)
           /\ Distance(p, q) < Splits(p, q, m) * m + m
<1> DEFINE D == Distance(p, q)
           s == D \div m
<1>1. D \in Nat /\ m \in Nat \ {0} /\ D > m
    BY UnitAssumption DEF Distance, Long
<1>2. s \in Int /\ m * s <= D /\ D < m * s + m
    <2> HIDE DEF D
    <2> QED
        BY <1>1
<1>3. s >= 1
    <2> HIDE DEF s, D
    <2> QED
        BY <1>1, <1>2
<1> HIDE DEF s, D
<1>4. Splits(p, q, m) = s
    BY DEF Splits, s, D
<1>5. s * m = m * s
    BY <1>1, <1>2
<1> QED
    BY <1>1, <1>2, <1>3, <1>4, <1>5 DEF D

\* What rounding says of a split point.
LEMMA SplitNear ==
    ASSUME NEW p \in Nat, NEW q \in Nat, NEW m \in Nat, m >= Metre, Long(p, q, m),
           NEW k \in 1 .. Splits(p, q, m)
    PROVE  LET s == Splits(p, q, m)
               r == Split(p, q, m, k)
           IN  /\ r \in Int /\ r % Metre = 0
               /\ 2 * (s * r) <= 2 * (s * p) + 2 * ((q - p) * k) + s * Metre
               /\ 2 * (s * p) + 2 * ((q - p) * k) < 2 * (s * r) + s * Metre
<1> DEFINE s == Splits(p, q, m)
           r == Split(p, q, m, k)
<1>1. s \in Nat \ {0} /\ Metre \in Nat \ {0}
    BY SplitsBounds, UnitAssumption
<1>2. p * s + (q - p) * k \in Int
    BY <1>1
<1>3. /\ r \in Int /\ r % Metre = 0
      /\ s * (2 * r - Metre) <= 2 * (p * s + (q - p) * k)
      /\ 2 * (p * s + (q - p) * k) < s * (2 * r + Metre)
    BY <1>1, <1>2, RoundedNear DEF Split
<1> HIDE DEF s, r
<1>4. /\ s * (2 * r - Metre) = 2 * (s * r) - s * Metre
      /\ s * (2 * r + Metre) = 2 * (s * r) + s * Metre
      /\ 2 * (p * s + (q - p) * k) = 2 * (s * p) + 2 * ((q - p) * k)
    BY <1>1, <1>3
<1>5. s * r \in Int /\ s * Metre \in Int /\ s * p \in Int /\ (q - p) * k \in Int
    BY <1>1, <1>3
<1>6. /\ 2 * (s * r) <= 2 * (s * p) + 2 * ((q - p) * k) + s * Metre
      /\ 2 * (s * p) + 2 * ((q - p) * k) < 2 * (s * r) + s * Metre
    BY <1>3, <1>4, <1>5
<1> QED
    BY <1>3, <1>6 DEF s, r

\* All of them but the last lie between the ends.
LEMMA SplitBetween ==
    ASSUME NEW p \in Nat, NEW q \in Nat, NEW m \in Nat, m >= Metre, Long(p, q, m),
           NEW k \in 1 .. Splits(p, q, m) - 1
    PROVE  \/ p < Split(p, q, m, k) /\ Split(p, q, m, k) < q
           \/ q < Split(p, q, m, k) /\ Split(p, q, m, k) < p
<1> DEFINE s == Splits(p, q, m)
           r == Split(p, q, m, k)
           D == Distance(p, q)
<1>1. s \in Nat \ {0} /\ s * m <= D /\ Metre \in Nat \ {0}
    BY SplitsBounds, UnitAssumption
<1>2. k \in 1 .. s
    BY <1>1
<1>3. /\ r \in Int
      /\ 2 * (s * r) <= 2 * (s * p) + 2 * ((q - p) * k) + s * Metre
      /\ 2 * (s * p) + 2 * ((q - p) * k) < 2 * (s * r) + s * Metre
    BY <1>2, SplitNear
<1>4. D = IF p < q THEN q - p ELSE p - q
    BY DEF Distance
<1> HIDE DEF s, r, D
<1>5. s * Metre <= s * m /\ s * Metre \in Nat \ {0} /\ s * m \in Nat
    BY <1>1
<1>6. s * Metre <= D /\ D \in Nat
    BY <1>1, <1>4, <1>5
<1>7. D <= D * k /\ D * k + D <= D * s /\ D * k \in Nat /\ D * s \in Nat
    <2>1. k \in Nat \ {0} /\ s \in Nat /\ k + 1 <= s
        BY <1>1, <1>2 DEF s
    <2>2. D * (k + 1) <= D * s /\ D * 1 <= D * k
        BY <1>6, <2>1
    <2>3. D * (k + 1) = D * k + D
        BY <1>6, <2>1
    <2> QED
        BY <1>6, <2>1, <2>2, <2>3
<1>8. CASE p < q
    <2>1. (q - p) * k = D * k /\ s * q = s * p + D * s
        BY <1>1, <1>4, <1>8
    <2>2. s * r \in Int /\ s * p \in Int /\ s * q \in Int
        BY <1>1, <1>3
    <2>3. s * p < s * r /\ s * r < s * q
        BY <1>3, <1>5, <1>6, <1>7, <2>1, <2>2
    <2>4. p < r /\ r < q
        BY <1>1, <1>3, <2>3
    <2> QED
        BY <2>4 DEF r
<1>9. CASE ~(p < q)
    <2>1. (q - p) * k = - (D * k) /\ s * p = s * q + D * s
        BY <1>1, <1>4, <1>9
    <2>2. s * r \in Int /\ s * p \in Int /\ s * q \in Int
        BY <1>1, <1>3
    <2>3. s * q < s * r /\ s * r < s * p
        BY <1>3, <1>5, <1>6, <1>7, <2>1, <2>2
    <2>4. q < r /\ r < p
        BY <1>1, <1>3, <2>3
    <2> QED
        BY <2>4 DEF r
<1> QED
    BY <1>8, <1>9

\* The last is the end of the segment, rounded.
LEMMA SplitAtEnd ==
    ASSUME NEW p \in Nat, NEW q \in Nat, NEW m \in Nat, m >= Metre, Long(p, q, m)
    PROVE  LET r == Split(p, q, m, Splits(p, q, m))
           IN  /\ r \in Int /\ r % Metre = 0
               /\ 2 * r <= 2 * q + Metre
               /\ 2 * q < 2 * r + Metre
<1> DEFINE s == Splits(p, q, m)
           r == Split(p, q, m, s)
<1>1. s \in Nat \ {0} /\ Metre \in Nat \ {0}
    BY SplitsBounds, UnitAssumption
<1>2. s \in 1 .. s
    BY <1>1
<1>3. /\ r \in Int /\ r % Metre = 0
      /\ 2 * (s * r) <= 2 * (s * p) + 2 * ((q - p) * s) + s * Metre
      /\ 2 * (s * p) + 2 * ((q - p) * s) < 2 * (s * r) + s * Metre
    BY <1>2, SplitNear
<1> HIDE DEF s, r
<1>4. 2 * (s * p) + 2 * ((q - p) * s) = s * (2 * q) /\ 2 * (s * r) = s * (2 * r)
    BY <1>1, <1>3
<1>5. s * (2 * r) <= s * (2 * q) + s * Metre /\ s * (2 * q) < s * (2 * r) + s * Metre
    BY <1>3, <1>4
<1>6. s * (2 * r) <= s * (2 * q + Metre) /\ s * (2 * q) < s * (2 * r + Metre)
    BY <1>1, <1>3, <1>5
<1>7. 2 * r <= 2 * q + Metre /\ 2 * q < 2 * r + Metre
    BY <1>1, <1>3, <1>6
<1> QED
    BY <1>3, <1>7 DEF r, s

\* No piece is much longer than the limit.
LEMMA SplitStep ==
    ASSUME NEW p \in Nat, NEW q \in Nat, NEW m \in Nat, m >= Metre, Long(p, q, m)
    PROVE  LET s == Splits(p, q, m)
           IN  /\ 2 * Distance(p, Split(p, q, m, 1)) <= 4 * m + Metre
               /\ \A k \in 2 .. s :
                     2 * Distance(Split(p, q, m, k - 1), Split(p, q, m, k)) <= 4 * m + Metre
               /\ 2 * Distance(Split(p, q, m, s), q) <= 4 * m + Metre
               /\ s > 1 => 2 * Distance(Split(p, q, m, s - 1), q) <= 4 * m + Metre
<1> DEFINE s == Splits(p, q, m)
           D == Distance(p, q)
           e == q - p
           r(k) == Split(p, q, m, k)
           Bound == 4 * m + Metre
<1>1. /\ s \in Nat \ {0} /\ s * m <= D /\ D < s * m + m /\ Metre \in Nat \ {0}
      /\ m \in Nat /\ Metre <= m
    BY SplitsBounds, UnitAssumption
<1>2. ASSUME NEW k \in 1 .. s
      PROVE  /\ r(k) \in Int
             /\ 2 * (s * r(k)) <= 2 * (s * p) + 2 * (e * k) + s * Metre
             /\ 2 * (s * p) + 2 * (e * k) < 2 * (s * r(k)) + s * Metre
    BY SplitNear
<1>3. /\ e \in Int /\ D \in Nat /\ e <= D /\ - e <= D
    BY DEF Distance
<1>4. /\ r(s) \in Int
      /\ 2 * r(s) <= 2 * q + Metre
      /\ 2 * q < 2 * r(s) + Metre
    BY SplitAtEnd
<1>5. s * m \in Nat /\ s * Metre \in Nat /\ s * Metre <= s * m /\ s * p \in Int /\ s * q \in Int
    BY <1>1
<1>6. s * Bound = 4 * (s * m) + s * Metre /\ s * e = s * q - s * p
    BY <1>1
<1>7. ASSUME NEW a \in Int, NEW b \in Int,
             2 * (s * a) - 2 * (s * b) <= s * Bound, 2 * (s * b) - 2 * (s * a) <= s * Bound
      PROVE  2 * Distance(a, b) <= Bound
    <2> HIDE DEF Bound, s
    <2>1. Bound \in Nat
        BY <1>1 DEF Bound
    <2>2. s * (2 * a - 2 * b) <= s * Bound /\ s * (2 * b - 2 * a) <= s * Bound
        BY <1>1, <1>7
    <2>3. 2 * a - 2 * b <= Bound /\ 2 * b - 2 * a <= Bound
        BY <1>1, <2>1, <2>2
    <2> QED
        BY <2>3 DEF Distance
<1> HIDE DEF s, D, e, r, Bound
\* From the start to the first split point.
<1>8. 2 * Distance(p, r(1)) <= Bound
    <2>1. 1 \in 1 .. s /\ e * 1 = e
        BY <1>1, <1>3
    <2>2. s * r(1) \in Int /\ r(1) \in Int
        BY <1>1, <1>2, <2>1
    <2>3. /\ 2 * (s * r(1)) <= 2 * (s * p) + 2 * e + s * Metre
          /\ 2 * (s * p) + 2 * e < 2 * (s * r(1)) + s * Metre
        BY <1>2, <2>1
    <2>4. m <= s * m
        BY <1>1
    <2>5. 2 * (s * p) - 2 * (s * r(1)) <= s * Bound /\ 2 * (s * r(1)) - 2 * (s * p) <= s * Bound
        BY <1>1, <1>3, <1>5, <1>6, <2>2, <2>3, <2>4
    <2> QED
        BY <1>7, <2>2, <2>5
\* From each split point to the next.
<1>9. ASSUME NEW k \in 2 .. s
      PROVE  2 * Distance(r(k - 1), r(k)) <= Bound
    <2>1. k \in 1 .. s /\ k - 1 \in 1 .. s /\ e * (k - 1) = e * k - e /\ e * k \in Int
        BY <1>1, <1>3
    <2>2. r(k) \in Int /\ r(k - 1) \in Int /\ s * r(k) \in Int /\ s * r(k - 1) \in Int
        BY <1>1, <1>2, <2>1
    <2>3. /\ 2 * (s * r(k)) <= 2 * (s * p) + 2 * (e * k) + s * Metre
          /\ 2 * (s * p) + 2 * (e * k) < 2 * (s * r(k)) + s * Metre
        BY <1>2, <2>1
    <2>4. /\ 2 * (s * r(k - 1)) <= 2 * (s * p) + 2 * (e * k - e) + s * Metre
          /\ 2 * (s * p) + 2 * (e * k - e) < 2 * (s * r(k - 1)) + s * Metre
        BY <1>2, <2>1
    <2>5. 2 * m <= s * m
        <3>1. s >= 2
            BY <1>1
        <3> QED
            BY <1>1, <3>1
    <2>6. /\ 2 * (s * r(k - 1)) - 2 * (s * r(k)) <= s * Bound
          /\ 2 * (s * r(k)) - 2 * (s * r(k - 1)) <= s * Bound
        BY <1>1, <1>3, <1>5, <1>6, <2>1, <2>2, <2>3, <2>4, <2>5
    <2> QED
        BY <1>7, <2>2, <2>6
\* From the last, or the last but one, to the end.
<1>10. 2 * Distance(r(s), q) <= Bound
    <2>1. 2 * r(s) - 2 * q <= Metre /\ 2 * q - 2 * r(s) <= Metre
        BY <1>1, <1>4
    <2> QED
        BY <1>1, <1>4, <2>1 DEF Bound, Distance
<1>11. ASSUME s > 1
       PROVE  2 * Distance(r(s - 1), q) <= Bound
    <2>1. s - 1 \in 1 .. s /\ e * (s - 1) = s * e - e /\ s * e \in Int
        BY <1>1, <1>3, <1>11
    <2>2. r(s - 1) \in Int /\ s * r(s - 1) \in Int
        BY <1>1, <1>2, <2>1
    <2>3. /\ 2 * (s * r(s - 1)) <= 2 * (s * q) - 2 * e + s * Metre
          /\ 2 * (s * q) - 2 * e < 2 * (s * r(s - 1)) + s * Metre
        <3>1. /\ 2 * (s * r(s - 1)) <= 2 * (s * p) + 2 * (e * (s - 1)) + s * Metre
              /\ 2 * (s * p) + 2 * (e * (s - 1)) < 2 * (s * r(s - 1)) + s * Metre
            BY <1>2, <2>1
        <3>2. 2 * (s * p) + 2 * (e * (s - 1)) = 2 * (s * q) - 2 * e
            BY <1>3, <1>5, <1>6, <2>1
        <3> QED
            BY <3>1, <3>2
    <2>4. m <= s * m
        BY <1>1
    <2>5. /\ 2 * (s * r(s - 1)) - 2 * (s * q) <= s * Bound
          /\ 2 * (s * q) - 2 * (s * r(s - 1)) <= s * Bound
        BY <1>1, <1>3, <1>5, <1>6, <2>2, <2>3, <2>4
    <2> QED
        BY <1>7, <2>2, <2>5
<1> QED
    BY <1>8, <1>9, <1>10, <1>11 DEF s, r, Bound

\* The split points are those of the segment, or all of them but the last.
LEMMA SplitPointsAre ==
    ASSUME NEW p \in Lo .. Hi, NEW q \in Lo .. Hi, NEW m \in Nat, m >= Metre, Long(p, q, m)
    PROVE  LET s  == Splits(p, q, m)
               sp == SplitPoints(p, q, m)
           IN  /\ sp \in Seq(Lo .. Hi)
               /\ Len(sp) = IF Inside(Split(p, q, m, s)) THEN s ELSE s - 1
               /\ \A k \in 1 .. Len(sp) : sp[k] = Split(p, q, m, k)
<1> DEFINE s == Splits(p, q, m)
           points == [k \in 1 .. s |-> Split(p, q, m, k)]
           keep == {x \in ToSet(points) : Inside(x)}
<1>1. p \in Nat /\ q \in Nat /\ Lo \in Nat /\ Hi \in Nat
    BY UnitAssumption
<1>2. s \in Nat \ {0}
    BY <1>1, SplitsBounds
<1>3. ASSUME NEW k \in 1 .. s
      PROVE  Split(p, q, m, k) \in Int
    BY <1>1, SplitNear
<1>4. points \in Seq(Int) /\ points # <<>> /\ Len(points) = s
    <2> HIDE DEF s
    <2> QED
        BY <1>2, <1>3 DEF s
<1>5. SplitPoints(p, q, m) = Only(points, keep)
    BY DEF SplitPoints, Split
<1>6. ASSUME NEW k \in 1 .. s
      PROVE  points[k] \in keep <=> Inside(Split(p, q, m, k))
    <2>1. points[k] \in ToSet(points) /\ points[k] = Split(p, q, m, k)
        BY <1>4 DEF ToSet
    <2> QED
        BY <2>1
<1>7. ASSUME NEW k \in 1 .. s - 1
      PROVE  points[k] \in keep
    <2>1. k \in 1 .. s
        BY <1>2
    <2>2. \/ p < Split(p, q, m, k) /\ Split(p, q, m, k) < q
          \/ q < Split(p, q, m, k) /\ Split(p, q, m, k) < p
        BY <1>1, SplitBetween
    <2>3. Inside(Split(p, q, m, k))
        BY <1>1, <1>3, <2>1, <2>2 DEF Inside
    <2> QED
        BY <1>6, <2>1, <2>3
<1>8. keep \subseteq Lo .. Hi
    <2> SUFFICES ASSUME NEW x \in keep
                 PROVE  x \in Lo .. Hi
        OBVIOUS
    <2>1. PICK k \in 1 .. s : x = points[k]
        BY <1>4 DEF ToSet
    <2> QED
        BY <1>1, <1>3, <2>1 DEF Inside
<1> DEFINE front == [k \in 1 .. s - 1 |-> points[k]]
<1>9. Only(points, keep) = IF points[s] \in keep THEN points ELSE front
    <2> HIDE DEF points, keep, s
    <2> QED
        BY <1>2, <1>4, <1>7, OnlyDropsLast
<1>10. s \in 1 .. s /\ (points[s] \in keep <=> Inside(Split(p, q, m, s)))
    BY <1>2, <1>6
<1>11. Len(front) = s - 1 /\ \A k \in 1 .. s - 1 : front[k] = Split(p, q, m, k)
    BY <1>2
<1>12. Only(points, keep) \in Seq(Lo .. Hi)
    <2>1. Only(points, keep) \in Seq(Int \cap keep)
        <3> HIDE DEF points, keep
        <3> QED
            BY <1>4, OnlyType
    <2>2. Int \cap keep \subseteq Lo .. Hi
        BY <1>8
    <2> HIDE DEF keep, points
    <2> QED
        BY <2>1, <2>2, SeqOfSubset
<1>13. \A k \in 1 .. s : points[k] = Split(p, q, m, k)
    OBVIOUS
<1> HIDE DEF points, front, keep
<1>14. CASE Inside(Split(p, q, m, s))
    BY <1>4, <1>5, <1>9, <1>10, <1>12, <1>13, <1>14
<1>15. CASE ~Inside(Split(p, q, m, s))
    BY <1>5, <1>9, <1>10, <1>11, <1>12, <1>15
<1> QED
    BY <1>14, <1>15

-----------------------------------------------------------------------------
(* The constraints of a segment.                                            *)

\* The chain that Chain makes pairs of.
Way(p, q, m) == <<p>> \o SplitPoints(p, q, m) \o <<q>>

LEMMA WayIs ==
    ASSUME NEW p \in Lo .. Hi, NEW q \in Lo .. Hi, NEW m \in Nat, m >= Metre, Long(p, q, m)
    PROVE  LET n == Len(SplitPoints(p, q, m))
               w == Way(p, q, m)
           IN  /\ n \in Nat /\ w \in Seq(Lo .. Hi) /\ Len(w) = n + 2
               /\ w[1] = p /\ w[n + 2] = q
               /\ \A k \in 1 .. n : w[k + 1] = Split(p, q, m, k)
               /\ SegmentConstraints(p, q, m) = {<<w[i], w[i + 1]>> : i \in 1 .. n + 1}
<1> DEFINE sp == SplitPoints(p, q, m)
           w == Way(p, q, m)
<1>1. sp \in Seq(Lo .. Hi) /\ \A k \in 1 .. Len(sp) : sp[k] = Split(p, q, m, k)
    BY SplitPointsAre
<1>2. SegmentConstraints(p, q, m) = {<<w[i], w[i + 1]>> : i \in 1 .. Len(w) - 1}
    BY DEF SegmentConstraints, Chain, Way
<1>3. w = <<p>> \o sp \o <<q>>
    BY DEF Way
<1> HIDE DEF sp, w
<1>4. w \in Seq(Lo .. Hi) /\ Len(w) = Len(sp) + 2 /\ Len(sp) \in Nat
    BY <1>1, <1>3
<1>5. w[1] = p /\ w[Len(sp) + 2] = q /\ \A k \in 1 .. Len(sp) : w[k + 1] = sp[k]
    BY <1>1, <1>3
<1>6. Len(w) - 1 = Len(sp) + 1
    BY <1>4
<1> QED
    BY <1>1, <1>2, <1>4, <1>5, <1>6 DEF sp, w

\* Where a chain passes over a gap, one of its pieces does.
LEMMA SomePieceCovers ==
    ASSUME NEW n \in Nat, NEW w \in Seq(Int), Len(w) = n + 2,
           NEW a \in Int, NEW b \in Int, a < b,
           \A i \in 1 .. n + 2 : w[i] <= a \/ b <= w[i],
           \/ w[1] <= a /\ b <= w[n + 2]
           \/ w[n + 2] <= a /\ b <= w[1]
    PROVE  \E i \in 1 .. n + 1 : Covers(<<w[i], w[i + 1]>>, <<a, b>>)
<1>1. ASSUME NEW i \in 1 .. n + 1
      PROVE  /\ w[i] <= a /\ b <= w[i + 1] => Covers(<<w[i], w[i + 1]>>, <<a, b>>)
             /\ w[i + 1] <= a /\ b <= w[i] => Covers(<<w[i], w[i + 1]>>, <<a, b>>)
    <2>1. w[i] \in Int /\ w[i + 1] \in Int
        OBVIOUS
    <2> QED
        BY <2>1 DEF Covers, NormalizeSegmentOrder
<1>2. CASE w[1] <= a /\ b <= w[n + 2]
    <2> DEFINE T == {i \in Nat : i \in 1 .. n + 2 /\ b <= w[i]}
    <2>1. PICK i \in T : \A j \in T : i <= j
        <3>1. n + 2 \in T
            BY <1>2
        <3> HIDE DEF T
        <3>2. T \subseteq Nat
            BY DEF T
        <3> QED
            BY <3>1, <3>2, LeastNatural
    <2>2. w[1] \in Int
        OBVIOUS
    <2>3. i # 1 /\ i - 1 \in 1 .. n + 1 /\ i - 1 \notin T
        BY <1>2, <2>1, <2>2
    <2>4. w[i - 1] <= a
        BY <2>1, <2>3
    <2> DEFINE j == i - 1
    <2>5. j \in 1 .. n + 1 /\ j + 1 = i /\ w[j] <= a /\ b <= w[j + 1]
        BY <2>1, <2>3, <2>4
    <2> HIDE DEF j
    <2>6. Covers(<<w[j], w[j + 1]>>, <<a, b>>)
        BY <1>1, <2>5
    <2> QED
        BY <2>5, <2>6
<1>3. CASE w[n + 2] <= a /\ b <= w[1]
    <2> DEFINE T == {i \in Nat : i \in 1 .. n + 2 /\ w[i] <= a}
    <2>1. PICK i \in T : \A j \in T : i <= j
        <3>1. n + 2 \in T
            BY <1>3
        <3> HIDE DEF T
        <3>2. T \subseteq Nat
            BY DEF T
        <3> QED
            BY <3>1, <3>2, LeastNatural
    <2>2. w[1] \in Int
        OBVIOUS
    <2>3. i # 1 /\ i - 1 \in 1 .. n + 1 /\ i - 1 \notin T
        BY <1>3, <2>1, <2>2
    <2>4. b <= w[i - 1]
        BY <2>1, <2>3
    <2> DEFINE j == i - 1
    <2>5. j \in 1 .. n + 1 /\ j + 1 = i /\ w[j + 1] <= a /\ b <= w[j]
        BY <2>1, <2>3, <2>4
    <2> HIDE DEF j
    <2>6. Covers(<<w[j], w[j + 1]>>, <<a, b>>)
        BY <1>1, <2>5
    <2> QED
        BY <2>5, <2>6
<1> QED
    BY <1>2, <1>3

\* A segment's constraints run between vertices inside the mesh,
LEMMA SegmentInside ==
    ASSUME NEW p \in Lo .. Hi, NEW q \in Lo .. Hi, NEW m \in Nat, m >= Metre
    PROVE  SegmentConstraints(p, q, m) \subseteq (Lo .. Hi) \X (Lo .. Hi)
<1>1. CASE ~Long(p, q, m)
    BY <1>1 DEF SegmentConstraints
<1>2. CASE Long(p, q, m)
    <2> DEFINE n == Len(SplitPoints(p, q, m))
               w == Way(p, q, m)
    <2>1. /\ n \in Nat /\ w \in Seq(Lo .. Hi) /\ Len(w) = n + 2
          /\ SegmentConstraints(p, q, m) = {<<w[i], w[i + 1]>> : i \in 1 .. n + 1}
        BY <1>2, WayIs
    <2> HIDE DEF n, w
    <2>2. ASSUME NEW i \in 1 .. n + 1
          PROVE  w[i] \in Lo .. Hi /\ w[i + 1] \in Lo .. Hi
        <3>1. i \in 1 .. n + 2 /\ i + 1 \in 1 .. n + 2
            BY <2>1
        <3> DEFINE Mesh == Lo .. Hi
        <3>2. w \in Seq(Mesh)
            BY <2>1
        <3> HIDE DEF Mesh
        <3>3. w[i] \in Mesh /\ w[i + 1] \in Mesh
            BY <2>1, <3>1, <3>2
        <3> QED
            BY <3>3 DEF Mesh
    <2> QED
        BY <2>1, <2>2
<1> QED
    BY <1>1, <1>2

\* are none of them much longer than the limit,
LEMMA SegmentPieces ==
    ASSUME NEW p \in Lo .. Hi, NEW q \in Lo .. Hi, NEW m \in Nat, m >= Metre,
           NEW c \in SegmentConstraints(p, q, m)
    PROVE  2 * Distance(c[1], c[2]) <= 4 * m + Metre
<1> DEFINE s == Splits(p, q, m)
           n == Len(SplitPoints(p, q, m))
           w == Way(p, q, m)
           Bound == 4 * m + Metre
<1>1. p \in Nat /\ q \in Nat /\ Metre \in Nat
    BY UnitAssumption
<1>2. CASE ~Long(p, q, m)
    BY <1>1, <1>2 DEF SegmentConstraints, Long, Distance
<1>3. CASE Long(p, q, m)
    <2>1. /\ n \in Nat /\ w \in Seq(Lo .. Hi) /\ Len(w) = n + 2
          /\ w[1] = p /\ w[n + 2] = q
          /\ \A k \in 1 .. n : w[k + 1] = Split(p, q, m, k)
          /\ SegmentConstraints(p, q, m) = {<<w[i], w[i + 1]>> : i \in 1 .. n + 1}
        BY <1>3, WayIs
    <2>2. n = s \/ n = s - 1
        BY <1>3, SplitPointsAre
    <2>3. s \in Nat \ {0}
        BY <1>1, <1>3, SplitsBounds
    <2>4. /\ 2 * Distance(p, Split(p, q, m, 1)) <= Bound
          /\ \A k \in 2 .. s : 2 * Distance(Split(p, q, m, k - 1), Split(p, q, m, k)) <= Bound
          /\ 2 * Distance(Split(p, q, m, s), q) <= Bound
          /\ s > 1 => 2 * Distance(Split(p, q, m, s - 1), q) <= Bound
        BY <1>1, <1>3, SplitStep
    <2>5. s = 1 => 2 * Distance(p, q) <= Bound
        <3>1. Distance(p, q) < s * m + m /\ Distance(p, q) \in Nat
            BY <1>1, <1>3, SplitsBounds DEF Distance
        <3>2. s = 1 => s * m = m
            OBVIOUS
        <3> HIDE DEF s
        <3> QED
            BY <1>1, <3>1, <3>2
    <2> HIDE DEF s, n, w, Bound
    <2>6. PICK i \in 1 .. n + 1 : c = <<w[i], w[i + 1]>>
        BY <2>1
    <2>7. 2 * Distance(w[i], w[i + 1]) <= Bound
        <3>1. CASE i = 1 /\ n = 0
            BY <2>1, <2>2, <2>3, <2>5, <3>1
        <3>2. CASE i = 1 /\ n # 0
            <4>1. w[i + 1] = Split(p, q, m, 1)
                BY <2>1, <3>2
            <4> QED
                BY <2>1, <2>4, <3>2, <4>1
        <3>3. CASE i # 1 /\ i = n + 1
            <4>1. n \in 1 .. n /\ i = n + 1 /\ w[i] = Split(p, q, m, n) /\ w[i + 1] = q
                BY <2>1, <3>3
            <4>2. n = s \/ (s > 1 /\ n = s - 1)
                BY <2>2, <2>3, <4>1
            <4> QED
                BY <2>4, <4>1, <4>2
        <3>4. CASE i # 1 /\ i # n + 1
            <4>0. n \in Nat /\ i \in Nat /\ 1 <= i /\ i <= n + 1 /\ i # 1 /\ i # n + 1
                BY <2>1, <3>4
            <4>1. i - 1 \in 1 .. n /\ i \in 1 .. n /\ i \in 2 .. s
                BY <2>2, <2>3, <4>0
            <4>2. w[(i - 1) + 1] = Split(p, q, m, i - 1) /\ w[i + 1] = Split(p, q, m, i)
                BY <2>1, <4>1
            <4>3. (i - 1) + 1 = i
                BY <4>1
            <4> QED
                BY <2>4, <4>1, <4>2, <4>3
        <3> QED
            BY <3>1, <3>2, <3>3, <3>4
    <2> QED
        BY <2>6, <2>7 DEF Bound
<1> QED
    BY <1>2, <1>3

\* and lead from its one end to the other.
LEMMA SegmentJoins ==
    ASSUME NEW p \in Lo .. Hi, NEW q \in Lo .. Hi, NEW m \in Nat, m >= Metre,
           NEW V, \A c \in SegmentConstraints(p, q, m) : c[1] \in V /\ c[2] \in V,
           NEW a \in Int, NEW b \in Int, a < b,
           ~\E v \in V : a < v /\ v < b,
           Covers(<<p, q>>, <<a, b>>)
    PROVE  \E c \in SegmentConstraints(p, q, m) : Covers(c, <<a, b>>)
<1>1. CASE ~Long(p, q, m)
    BY <1>1 DEF SegmentConstraints
<1>2. CASE Long(p, q, m)
    <2> DEFINE n == Len(SplitPoints(p, q, m))
               w == Way(p, q, m)
    <2>1. /\ n \in Nat /\ w \in Seq(Lo .. Hi) /\ Len(w) = n + 2
          /\ w[1] = p /\ w[n + 2] = q
          /\ SegmentConstraints(p, q, m) = {<<w[i], w[i + 1]>> : i \in 1 .. n + 1}
        BY <1>2, WayIs
    <2> HIDE DEF n, w
    <2>2. w \in Seq(Int) /\ p \in Int /\ q \in Int
        BY <2>1, UnitAssumption
    <2>3. ASSUME NEW i \in 1 .. n + 1
          PROVE  w[i] \in V /\ w[i + 1] \in V
        <3>1. <<w[i], w[i + 1]>> \in SegmentConstraints(p, q, m)
            BY <2>1
        <3> QED
            BY <3>1
    <2>4. ASSUME NEW i \in 1 .. n + 2
          PROVE  w[i] <= a \/ b <= w[i]
        <3>1. w[i] \in V
            <4>1. CASE i = n + 2
                <5>1. n + 1 \in 1 .. n + 1 /\ (n + 1) + 1 = i
                    BY <2>1, <4>1
                <5> QED
                    BY <2>3, <5>1
            <4>2. CASE i # n + 2
                BY <2>1, <2>3, <4>2
            <4> QED
                BY <4>1, <4>2
        <3>2. w[i] \in Int
            BY <2>1, <2>2
        <3> QED
            BY <3>1, <3>2
    <2>5. (w[1] <= a /\ b <= w[n + 2]) \/ (w[n + 2] <= a /\ b <= w[1])
        BY <2>1, <2>2 DEF Covers, NormalizeSegmentOrder
    <2>6. PICK i \in 1 .. n + 1 : Covers(<<w[i], w[i + 1]>>, <<a, b>>)
        BY <2>1, <2>2, <2>4, <2>5, SomePieceCovers
    <2> QED
        BY <2>1, <2>6
<1> QED
    BY <1>1, <1>2

\* No split point is left only where the end is within half a metre of the hull.
LEMMA NoneInside ==
    ASSUME NEW p \in Lo .. Hi, NEW q \in Lo .. Hi, NEW m \in Nat, m >= Metre, Long(p, q, m),
           SplitPoints(p, q, m) = <<>>
    PROVE  2 * (q - Lo) <= Metre \/ 2 * (Hi - q) <= Metre
<1> DEFINE s == Splits(p, q, m)
           r == Split(p, q, m, s)
<1>1. p \in Nat /\ q \in Nat /\ Lo \in Nat /\ Hi \in Nat /\ Metre \in Nat
    BY UnitAssumption
<1>2. s \in Nat \ {0}
    BY <1>1, SplitsBounds
<1>3. 0 = IF Inside(r) THEN s ELSE s - 1
    BY SplitPointsAre
<1>4. r \in Int /\ 2 * r <= 2 * q + Metre /\ 2 * q < 2 * r + Metre
    BY <1>1, SplitAtEnd
<1> HIDE DEF s, r
<1>5. ~Inside(r)
    BY <1>2, <1>3
<1> QED
    BY <1>1, <1>4, <1>5 DEF Inside

-----------------------------------------------------------------------------
(* What is loaded, and how far it may be from what is shown.                *)

\* Whole metres may be off by half of slack; other points are closer, by half a metre,
\* so that a split point, which is rounded, is not further off.
Close(x, shown, slack) ==
    \E y \in shown : \/ x % Metre = 0 /\ 2 * Distance(x, y) <= slack
                     \/ 2 * Distance(x, y) + Metre <= slack

\* A contour follows one of those shown.
Follows(contour, outlines, slack) ==
    \E way \in ToSet(outlines) \ {Nil} :
        \A j \in DOMAIN contour : Close(contour[j], ToSet(way) \ {Nil}, slack)

LEMMA PresentType ==
    ASSUME NEW S, NEW s \in Seq(S \cup {Nil})
    PROVE  Present(s) \in Seq(S) /\ ToSet(Present(s)) \subseteq ToSet(s) \ {Nil}
<1>1. Only(s, ToSet(s) \ {Nil}) \in Seq((S \cup {Nil}) \cap (ToSet(s) \ {Nil}))
    BY OnlyType
<1>2. (S \cup {Nil}) \cap (ToSet(s) \ {Nil}) \subseteq S
    OBVIOUS
<1>3. Only(s, ToSet(s) \ {Nil}) \in Seq(S)
    BY <1>1, <1>2, SeqOfSubset
<1>4. ToSet(Only(s, ToSet(s) \ {Nil})) \subseteq ToSet(s) \cap (ToSet(s) \ {Nil})
    BY OnlySelects
<1> QED
    BY <1>3, <1>4 DEF Present

LEMMA JsonFollows ==
    ASSUME NEW ways \in Seq(Seq(Nat \cup {Nil}) \cup {Nil})
    PROVE  /\ LoadContoursFromJsonFile(ways) \in Seq(Seq(Nat))
           /\ \A i \in DOMAIN LoadContoursFromJsonFile(ways) :
                 Follows(LoadContoursFromJsonFile(ways)[i], ways, Metre)
<1> DEFINE Ways == Seq(Nat \cup {Nil})
           kept == Present(ways)
           loaded == [i \in DOMAIN kept |-> Present(kept[i])]
<1>1. kept \in Seq(Ways) /\ ToSet(kept) \subseteq ToSet(ways) \ {Nil}
    <2> HIDE DEF Ways
    <2>1. ways \in Seq(Ways \cup {Nil})
        BY DEF Ways
    <2> QED
        BY <2>1, PresentType
<1>2. LoadContoursFromJsonFile(ways) = loaded
    BY DEF LoadContoursFromJsonFile
<1> HIDE DEF kept, Ways
<1>3. ASSUME NEW i \in 1 .. Len(kept)
      PROVE  /\ kept[i] \in Seq(Nat \cup {Nil})
             /\ Present(kept[i]) \in Seq(Nat)
             /\ ToSet(Present(kept[i])) \subseteq ToSet(kept[i]) \ {Nil}
             /\ kept[i] \in ToSet(ways) \ {Nil}
    <2>1. kept[i] \in Ways
        BY <1>1
    <2>2. kept[i] \in ToSet(kept)
        BY <1>1 DEF ToSet
    <2>3. Present(kept[i]) \in Seq(Nat) /\ ToSet(Present(kept[i])) \subseteq ToSet(kept[i]) \ {Nil}
        BY <2>1, PresentType DEF Ways
    <2> QED
        BY <1>1, <2>1, <2>2, <2>3 DEF Ways
<1>4. DOMAIN kept = 1 .. Len(kept) /\ Len(kept) \in Nat
    BY <1>1
<1>5. loaded \in Seq(Seq(Nat)) /\ DOMAIN loaded = 1 .. Len(kept)
    BY <1>3, <1>4
<1>6. ASSUME NEW i \in 1 .. Len(kept)
      PROVE  Follows(loaded[i], ways, Metre)
    <2> DEFINE shown == ToSet(kept[i]) \ {Nil}
    <2>1. loaded[i] = Present(kept[i])
        BY <1>4
    <2>2. ASSUME NEW j \in DOMAIN Present(kept[i])
          PROVE  Close(Present(kept[i])[j], shown, Metre)
        <3>1. Present(kept[i])[j] \in ToSet(Present(kept[i])) /\ Present(kept[i])[j] \in Nat
            BY <1>3 DEF ToSet
        <3>2. Present(kept[i])[j] \in shown
            BY <1>3, <3>1
        <3> DEFINE x == Present(kept[i])[j]
        <3> HIDE DEF x, shown
        <3>3. 2 * Distance(x, x) + Metre <= Metre
            <4>1. x \in Nat
                BY <3>1 DEF x
            <4> QED
                BY <4>1, UnitAssumption DEF Distance
        <3>4. Close(x, shown, Metre)
            BY <3>2, <3>3 DEF Close, x
        <3> QED
            BY <3>4 DEF x
    <2>3. kept[i] \in ToSet(ways) \ {Nil}
        BY <1>3
    <2> QED
        BY <2>1, <2>2, <2>3 DEF Follows
<1> HIDE DEF loaded
<1> QED
    BY <1>2, <1>5, <1>6

LEMMA ImageFollows ==
    ASSUME NEW outlines \in Seq(Seq(Nat))
    PROVE  /\ ExtractFeatureContours(outlines) \in Seq(Seq(Nat))
           /\ \A i \in DOMAIN ExtractFeatureContours(outlines) :
                 Follows(ExtractFeatureContours(outlines)[i], outlines, Metre)
<1> DEFINE long == {contour \in ToSet(outlines) : Len(contour) > 1}
           kept == Only(outlines, long)
           loaded == [i \in DOMAIN kept |-> [j \in DOMAIN kept[i] |-> Rounded(kept[i][j], 1)]]
<1>1. kept \in Seq(Seq(Nat)) /\ ToSet(kept) \subseteq ToSet(outlines)
    <2> DEFINE Outlines == Seq(Nat)
    <2>1. outlines \in Seq(Outlines)
        OBVIOUS
    <2> HIDE DEF Outlines, long
    <2>2. kept \in Seq(Outlines \cap long)
        BY <2>1, OnlyType
    <2> HIDE DEF kept
    <2>3. Outlines \cap long \subseteq Outlines
        OBVIOUS
    <2>4. kept \in Seq(Outlines)
        BY <2>2, <2>3, SeqOfSubset
    <2>5. ToSet(kept) \subseteq ToSet(outlines) \cap long
        BY <2>1, OnlySelects DEF kept
    <2> QED
        BY <2>4, <2>5 DEF Outlines
<1>2. ExtractFeatureContours(outlines) = loaded
    BY DEF ExtractFeatureContours
<1> HIDE DEF kept
<1>3. DOMAIN kept = 1 .. Len(kept) /\ Len(kept) \in Nat
    BY <1>1
<1>4. ASSUME NEW i \in 1 .. Len(kept)
      PROVE  /\ kept[i] \in Seq(Nat) /\ kept[i] \in ToSet(outlines) \ {Nil}
             /\ DOMAIN kept[i] = 1 .. Len(kept[i]) /\ Len(kept[i]) \in Nat
    <2>1. kept[i] \in Seq(Nat)
        BY <1>1
    <2>2. kept[i] \in ToSet(kept)
        BY <1>3 DEF ToSet
    <2>3. kept[i] # Nil
        BY <2>1, NilAssumption
    <2> QED
        BY <1>1, <2>1, <2>2, <2>3
<1>5. ASSUME NEW x \in Nat
      PROVE  Rounded(x, 1) \in Nat /\ Rounded(x, 1) % Metre = 0 /\ 2 * Distance(Rounded(x, 1), x) <= Metre
    <2> DEFINE r == Rounded(x, 1)
    <2>1. r \in Int /\ r % Metre = 0 /\ 1 * (2 * r - Metre) <= 2 * x /\ 2 * x < 1 * (2 * r + Metre)
        <3>1. x \in Int /\ 1 \in Nat \ {0}
            OBVIOUS
        <3> QED
            BY <3>1, RoundedNear
    <2>2. Metre \in Nat \ {0}
        BY UnitAssumption
    <2> HIDE DEF r
    <2>3. 2 * Distance(r, x) <= Metre
        BY <2>1, <2>2 DEF Distance
    <2>4. r >= 0
        <3> SUFFICES ASSUME r < 0
                     PROVE  FALSE
            BY <2>1
        <3> DEFINE k == r \div Metre
        <3>1. r = Metre * k /\ k \in Int
            BY <2>1, <2>2
        <3> HIDE DEF k
        <3>2. k + 1 <= 0
            BY <2>1, <2>2, <3>1
        <3>3. r <= - Metre
            <4>1. Metre * (k + 1) <= 0 /\ Metre * (k + 1) = Metre * k + Metre
                BY <2>2, <3>1, <3>2
            <4> QED
                BY <2>2, <3>1, <4>1
        <3> QED
            BY <2>1, <2>2, <3>3
    <2> QED
        BY <2>1, <2>3, <2>4 DEF r
<1>6. loaded \in Seq(Seq(Nat)) /\ DOMAIN loaded = 1 .. Len(kept)
    <2>1. ASSUME NEW i \in 1 .. Len(kept)
          PROVE  [j \in DOMAIN kept[i] |-> Rounded(kept[i][j], 1)] \in Seq(Nat)
        <3>1. \A j \in 1 .. Len(kept[i]) : kept[i][j] \in Nat
            <4>1. kept[i] \in Seq(Nat)
                BY <1>4
            <4> QED
                BY <4>1
        <3> DEFINE g == [j \in DOMAIN kept[i] |-> Rounded(kept[i][j], 1)]
        <3>2. g \in [1 .. Len(kept[i]) -> Nat]
            <4>1. \A j \in 1 .. Len(kept[i]) : Rounded(kept[i][j], 1) \in Nat
                BY <1>5, <3>1
            <4> QED
                BY <1>4, <4>1
        <3> HIDE DEF g
        <3> QED
            BY <1>4, <3>2, SeqIntro DEF g
    <2> QED
        BY <1>3, <2>1
<1>7. ASSUME NEW i \in 1 .. Len(kept)
      PROVE  Follows(loaded[i], outlines, Metre)
    <2> DEFINE shown == ToSet(kept[i]) \ {Nil}
               contour == [j \in DOMAIN kept[i] |-> Rounded(kept[i][j], 1)]
    <2>1. loaded[i] = contour /\ DOMAIN contour = DOMAIN kept[i]
        BY <1>3
    <2>2. ASSUME NEW j \in DOMAIN kept[i]
          PROVE  Close(contour[j], shown, Metre)
        <3>1. kept[i][j] \in Nat /\ kept[i][j] \in shown
            BY <1>4, NilAssumption DEF ToSet
        <3>2. contour[j] = Rounded(kept[i][j], 1)
            OBVIOUS
        <3>3. contour[j] % Metre = 0 /\ 2 * Distance(contour[j], kept[i][j]) <= Metre
            BY <1>5, <3>1, <3>2
        <3> HIDE DEF shown, contour
        <3> QED
            BY <3>1, <3>3 DEF Close
    <2> HIDE DEF contour
    <2>3. kept[i] \in ToSet(outlines) \ {Nil}
        BY <1>4
    <2> QED
        BY <2>1, <2>2, <2>3 DEF Follows
<1> HIDE DEF loaded
<1> QED
    BY <1>2, <1>6, <1>7

\* Six digits are whole metres, and half of what they can tell off at most.
LEMMA SixDigitsNear ==
    ASSUME NEW p \in Nat
    PROVE  /\ SixDigits(p) \in Nat /\ SixDigits(p) % Metre = 0
           /\ 2 * Distance(SixDigits(p), p) <= Decade
<1> DEFINE t == p \div Decade
           over == p % Decade
           k == Decade \div Metre
<1>1. Metre \in Nat \ {0} /\ Decade \in Nat \ {0} /\ Decade % Metre = 0
    BY UnitAssumption
<1>2. t \in Nat /\ over \in Nat /\ over < Decade /\ p = Decade * t + over
    BY <1>1
<1>3. k \in Nat /\ Decade = Metre * k
    BY <1>1
<1> HIDE DEF t, over, k
<1>4. ASSUME NEW u \in Nat
      PROVE  Decade * u \in Nat /\ (Decade * u) % Metre = 0
    <2>1. Decade * u = Metre * (k * u) /\ k * u \in Nat
        BY <1>1, <1>3
    <2> DEFINE v == k * u
    <2> HIDE DEF v
    <2>2. v \in Nat /\ Decade * u = Metre * v
        BY <2>1 DEF v
    <2>3. (Metre * v) % Metre = 0 /\ Metre * v \in Nat
        BY <1>1, <2>2
    <2> QED
        BY <2>2, <2>3
<1>5. Decade * (t + 1) = Decade * t + Decade /\ Decade * t \in Nat
    BY <1>1, <1>2
<1>6. \/ SixDigits(p) = Decade * (t + 1) /\ 2 * over >= Decade
      \/ SixDigits(p) = Decade * t /\ 2 * over <= Decade
    BY <1>1, <1>2 DEF SixDigits, t, over
<1>7. CASE SixDigits(p) = Decade * (t + 1) /\ 2 * over >= Decade
    <2>1. 2 * Distance(Decade * (t + 1), p) <= Decade
        BY <1>1, <1>2, <1>5, <1>7 DEF Distance
    <2>2. t + 1 \in Nat
        BY <1>2
    <2> QED
        BY <1>4, <1>7, <2>1, <2>2
<1>8. CASE SixDigits(p) = Decade * t /\ 2 * over <= Decade
    <2>1. 2 * Distance(Decade * t, p) <= Decade
        BY <1>1, <1>2, <1>5, <1>8 DEF Distance
    <2> QED
        BY <1>2, <1>4, <1>8, <2>1
<1> QED
    BY <1>6, <1>7, <1>8

LEMMA WrittenFollows ==
    ASSUME NEW outlines,
           \A way \in ToSet(outlines) \ {Nil} : ToSet(way) \ {Nil} \subseteq Nat,
           NEW contours \in Seq(Seq(Nat)),
           \A i \in DOMAIN contours : Follows(contours[i], outlines, Metre)
    PROVE  /\ Written(contours) \in Seq(Seq(Nat))
           /\ \A i \in DOMAIN Written(contours) :
                 Follows(Written(contours)[i], outlines, Metre + Decade)
<1> DEFINE written == [i \in DOMAIN contours |-> [j \in DOMAIN contours[i] |-> SixDigits(contours[i][j])]]
<1>1. Metre \in Nat /\ Decade \in Nat
    BY UnitAssumption
<1>2. DOMAIN contours = 1 .. Len(contours) /\ Len(contours) \in Nat
    OBVIOUS
<1>3. ASSUME NEW i \in 1 .. Len(contours)
      PROVE  /\ contours[i] \in Seq(Nat)
             /\ DOMAIN contours[i] = 1 .. Len(contours[i]) /\ Len(contours[i]) \in Nat
             /\ \A j \in DOMAIN contours[i] : contours[i][j] \in Nat
    <2>1. contours[i] \in Seq(Nat)
        OBVIOUS
    <2> QED
        BY <2>1
<1>4. \A x \in Nat : SixDigits(x) \in Nat
    BY SixDigitsNear
<1>5. written \in Seq(Seq(Nat)) /\ DOMAIN written = 1 .. Len(contours)
    <2>1. ASSUME NEW i \in 1 .. Len(contours)
          PROVE  [j \in DOMAIN contours[i] |-> SixDigits(contours[i][j])] \in Seq(Nat)
        <3> DEFINE g == [j \in DOMAIN contours[i] |-> SixDigits(contours[i][j])]
        <3>1. g \in [1 .. Len(contours[i]) -> Nat]
            <4>1. \A j \in 1 .. Len(contours[i]) : SixDigits(contours[i][j]) \in Nat
                BY <1>3, <1>4
            <4> QED
                BY <1>3, <4>1
        <3> HIDE DEF g
        <3> QED
            BY <1>3, <3>1, SeqIntro DEF g
    <2> QED
        BY <1>2, <2>1
<1>6. ASSUME NEW x \in Nat, NEW shown, shown \subseteq Nat, Close(x, shown, Metre)
      PROVE  Close(SixDigits(x), shown, Metre + Decade)
    <2>1. PICK y \in shown : 2 * Distance(x, y) <= Metre
        BY <1>1, <1>6 DEF Close, Distance
    <2>2. /\ SixDigits(x) \in Nat /\ SixDigits(x) % Metre = 0
          /\ 2 * Distance(SixDigits(x), x) <= Decade
        BY SixDigitsNear
    <2>3. 2 * Distance(SixDigits(x), y) <= Metre + Decade
        <3>1. y \in Nat
            BY <1>6
        <3> QED
            BY <1>1, <2>1, <2>2, <3>1 DEF Distance
    <2> QED
        BY <2>2, <2>3 DEF Close
<1>7. ASSUME NEW i \in 1 .. Len(contours)
      PROVE  Follows(written[i], outlines, Metre + Decade)
    <2>1. PICK way \in ToSet(outlines) \ {Nil} :
              \A j \in DOMAIN contours[i] : Close(contours[i][j], ToSet(way) \ {Nil}, Metre)
        BY <1>2 DEF Follows
    <2> DEFINE shown == ToSet(way) \ {Nil}
               contour == [j \in DOMAIN contours[i] |-> SixDigits(contours[i][j])]
    <2>2. written[i] = contour /\ DOMAIN contour = DOMAIN contours[i]
        BY <1>2
    <2>3. shown \subseteq Nat
        OBVIOUS
    <2>4. ASSUME NEW j \in DOMAIN contours[i]
          PROVE  Close(contour[j], shown, Metre + Decade)
        <3>1. contours[i][j] \in Nat /\ Close(contours[i][j], shown, Metre)
            BY <1>3, <2>1
        <3> HIDE DEF shown
        <3> QED
            BY <1>6, <2>3, <3>1
    <2> HIDE DEF contour
    <2> QED
        BY <2>1, <2>2, <2>4 DEF Follows
<1>8. Written(contours) = written
    BY DEF Written
<1> HIDE DEF written
<1> QED
    BY <1>5, <1>7, <1>8

Between(x, shown, by) == \E q, r \in shown : q - by <= x /\ x <= r + by

\* The constraints of a segment whose ends are close to what is shown stay near it.
LEMMA SegmentNear ==
    ASSUME NEW p \in Lo .. Hi, NEW q \in Lo .. Hi, NEW m \in Nat, m >= Metre,
           NEW shown, shown \subseteq Nat, NEW slack \in Nat,
           Close(p, shown, slack), Close(q, shown, slack),
           NEW c \in SegmentConstraints(p, q, m)
    PROVE  Between(c[1], shown, slack \div 2) /\ Between(c[2], shown, slack \div 2)
<1> DEFINE by == slack \div 2
<1>1. p \in Nat /\ q \in Nat /\ Metre \in Nat \ {0}
    BY UnitAssumption
<1>2. by \in Nat /\ 2 * by <= slack /\ slack <= 2 * by + 1
    OBVIOUS
<1> HIDE DEF by
<1>3. ASSUME NEW x \in Int, NEW y \in Nat, 2 * Distance(x, y) <= slack
      PROVE  y - by <= x /\ x <= y + by
    BY <1>2, <1>3 DEF Distance
<1>4. PICK y \in shown : 2 * Distance(p, y) <= slack
    BY <1>1 DEF Close, Distance
<1>5. PICK z \in shown : \/ q % Metre = 0 /\ 2 * Distance(q, z) <= slack
                         \/ 2 * Distance(q, z) + Metre <= slack
    BY DEF Close
<1>6. y \in Nat /\ z \in Nat
    OBVIOUS
<1>7. 2 * Distance(q, z) <= slack
    BY <1>1, <1>5, <1>6 DEF Distance
<1>8. y - by <= p /\ p <= y + by /\ z - by <= q /\ q <= z + by
    BY <1>1, <1>3, <1>4, <1>6, <1>7
<1>9. Between(p, shown, by) /\ Between(q, shown, by)
    BY <1>8 DEF Between
<1>10. CASE ~Long(p, q, m)
    BY <1>9, <1>10 DEF SegmentConstraints, by
<1>11. CASE Long(p, q, m)
    <2> DEFINE s == Splits(p, q, m)
               n == Len(SplitPoints(p, q, m))
               w == Way(p, q, m)
    <2>1. /\ n \in Nat /\ w[1] = p /\ w[n + 2] = q
          /\ \A k \in 1 .. n : w[k + 1] = Split(p, q, m, k)
          /\ SegmentConstraints(p, q, m) = {<<w[i], w[i + 1]>> : i \in 1 .. n + 1}
        BY <1>11, WayIs
    <2>2. s \in Nat \ {0} /\ (n = s \/ n = s - 1)
        BY <1>1, <1>11, SplitsBounds, SplitPointsAre
    <2>3. ASSUME NEW k \in 1 .. s - 1
          PROVE  Between(Split(p, q, m, k), shown, by)
        <3> DEFINE r == Split(p, q, m, k)
        <3>1. (p < r /\ r < q) \/ (q < r /\ r < p)
            BY <1>1, <1>11, SplitBetween
        <3>2. r \in Int
            <4>1. k \in 1 .. s
                BY <2>2
            <4> QED
                BY <1>1, <1>11, <4>1, SplitNear
        <3> HIDE DEF r
        <3>3. (y - by <= r /\ r <= z + by) \/ (z - by <= r /\ r <= y + by)
            BY <1>1, <1>2, <1>6, <1>8, <3>1, <3>2
        <3>4. Between(r, shown, by)
            BY <3>3 DEF Between
        <3> QED
            BY <3>4 DEF r
    <2>4. Between(Split(p, q, m, s), shown, by)
        <3> DEFINE r == Split(p, q, m, s)
        <3>1. r \in Int /\ r % Metre = 0 /\ 2 * r <= 2 * q + Metre /\ 2 * q < 2 * r + Metre
            BY <1>1, <1>11, SplitAtEnd
        <3> HIDE DEF r
        <3>2. 2 * Distance(r, z) <= slack
            <4>1. CASE q % Metre = 0
                <5> DEFINE i == r \div Metre
                           j == q \div Metre
                <5>1. i \in Int /\ r = Metre * i /\ j \in Int /\ q = Metre * j
                    BY <1>1, <3>1, <4>1
                <5> HIDE DEF i, j
                <5>2. Metre * (i - j) < Metre * 1 /\ Metre * (j - i) < Metre * 1
                    <6>1. r - q < Metre /\ q - r < Metre
                        BY <1>1, <3>1
                    <6>2. Metre * (i - j) = r - q /\ Metre * (j - i) = q - r
                        BY <1>1, <5>1
                    <6> QED
                        BY <1>1, <6>1, <6>2
                <5>3. i - j < 1 /\ j - i < 1
                    BY <1>1, <5>1, <5>2
                <5>4. r = q
                    BY <5>1, <5>3
                <5> QED
                    BY <1>7, <5>4
            <4>2. CASE 2 * Distance(q, z) + Metre <= slack
                BY <1>1, <1>6, <3>1, <4>2 DEF Distance
            <4> QED
                BY <1>5, <4>1, <4>2
        <3>3. z - by <= r /\ r <= z + by
            BY <1>3, <1>6, <3>1, <3>2
        <3>4. Between(r, shown, by)
            BY <3>3 DEF Between
        <3> QED
            BY <3>4 DEF r
    <2> HIDE DEF s, n, w
    <2>5. ASSUME NEW i \in 1 .. n + 2
          PROVE  Between(w[i], shown, by)
        <3>1. CASE i = 1 \/ i = n + 2
            BY <1>9, <2>1, <3>1
        <3>2. CASE i # 1 /\ i # n + 2
            <4> DEFINE k == i - 1
            <4>1. k \in 1 .. n /\ k + 1 = i /\ (k \in 1 .. s - 1 \/ k = s)
                BY <2>1, <2>2, <3>2
            <4> HIDE DEF k
            <4>2. w[i] = Split(p, q, m, k)
                BY <2>1, <4>1
            <4> QED
                BY <2>3, <2>4, <4>1, <4>2
        <3> QED
            BY <3>1, <3>2
    <2>6. PICK i \in 1 .. n + 1 : c = <<w[i], w[i + 1]>>
        BY <2>1
    <2>7. i \in 1 .. n + 2 /\ i + 1 \in 1 .. n + 2
        BY <2>1
    <2>8. Between(w[i], shown, by) /\ Between(w[i + 1], shown, by)
        BY <2>5, <2>7
    <2> QED
        BY <2>6, <2>8 DEF by
<1> QED
    BY <1>10, <1>11

-----------------------------------------------------------------------------
(* The state.                                                               *)

Chunks == DOMAIN drawn["paths"]

LEMMA Constants ==
    /\ Lo \in Nat /\ Hi \in Nat /\ Lo < Hi /\ Metre \in Nat \ {0} /\ Decade \in Nat \ {0}
    /\ Features = {"terrain", "water", "paths"}
    /\ Order = <<"terrain", "water", "paths">> /\ Len(Order) = 3 /\ DOMAIN Order = 1 .. 3
    /\ \A i \in 1 .. 3 : Order[i] \in Features
    /\ \A f \in Features : Limit[f] \in Nat /\ Limit[f] >= Metre
<1>1. Features = {"terrain", "water", "paths"}
    BY DEF Features, Order, ToSet
<1> QED
    BY <1>1, UnitAssumption, LimitAssumption DEF Order

\* What is shown, chunk by chunk, and that what is fetched follows it.
LEMMA ShownType ==
    ASSUME drawn \in Drawings
    PROVE  /\ Len(drawn["paths"]) \in Nat \ {0} /\ Chunks = 1 .. Len(drawn["paths"])
           /\ \A f \in Features : DOMAIN drawn[f] = Chunks /\ Len(drawn[f]) = Len(drawn["paths"])
           /\ \A c \in Chunks : drawn["paths"][c] \in Seq(Seq(Nat \cup {Nil}) \cup {Nil})
           /\ \A f \in Features \ {"paths"} : \A c \in Chunks : drawn[f][c] \in Seq(Seq(Nat))
<1> DEFINE Ways == Seq(Seq(Nat \cup {Nil}) \cup {Nil})
           Outlines == Seq(Seq(Nat))
<1>1. /\ \A f \in Features : drawn[f] # <<>> /\ Len(drawn[f]) = Len(drawn["paths"])
      /\ \A f \in Features \ {"paths"} : drawn[f] \in Seq(Outlines)
      /\ drawn["paths"] \in Seq(Ways)
    BY DrawingsAssumption
<1>2. "paths" \in Features
    BY Constants
<1> HIDE DEF Ways, Outlines
<1>3. Len(drawn["paths"]) \in Nat \ {0} /\ Chunks = 1 .. Len(drawn["paths"])
    BY <1>1, <1>2 DEF Chunks
<1>4. \A c \in Chunks : drawn["paths"][c] \in Ways
    BY <1>1, <1>3
<1>5. ASSUME NEW f \in Features \ {"paths"}
      PROVE  DOMAIN drawn[f] = Chunks /\ \A c \in Chunks : drawn[f][c] \in Outlines
    <2>1. drawn[f] \in Seq(Outlines) /\ Len(drawn[f]) = Len(drawn["paths"])
        BY <1>1
    <2>2. DOMAIN drawn[f] = 1 .. Len(drawn[f])
        BY <2>1
    <2> QED
        BY <1>3, <2>1, <2>2
<1>6. \A f \in Features : DOMAIN drawn[f] = Chunks
    BY <1>5 DEF Chunks
<1> QED
    BY <1>1, <1>3, <1>4, <1>5, <1>6 DEF Ways, Outlines

LEMMA FetchedFollows ==
    ASSUME drawn \in Drawings, NEW f \in Features, NEW c \in Chunks
    PROVE  /\ Fetched(f, c) \in Seq(Seq(Nat))
           /\ \A i \in DOMAIN Fetched(f, c) : Follows(Fetched(f, c)[i], drawn[f][c], Metre)
           /\ \A way \in ToSet(drawn[f][c]) \ {Nil} : ToSet(way) \ {Nil} \subseteq Nat
<1>1. CASE f = "paths"
    <2> DEFINE ways == drawn["paths"][c]
    <2>1. ways \in Seq(Seq(Nat \cup {Nil}) \cup {Nil})
        BY ShownType
    <2>2. Fetched(f, c) = LoadContoursFromJsonFile(ways)
        BY <1>1 DEF Fetched
    <2> HIDE DEF ways
    <2>3. ASSUME NEW way \in ToSet(ways) \ {Nil}
          PROVE  ToSet(way) \ {Nil} \subseteq Nat
        <3>1. way \in Seq(Nat \cup {Nil})
            BY <2>1 DEF ToSet
        <3> QED
            BY <3>1 DEF ToSet
    <2> QED
        BY <1>1, <2>1, <2>2, <2>3, JsonFollows DEF ways
<1>2. CASE f # "paths"
    <2> DEFINE outlines == drawn[f][c]
    <2>1. outlines \in Seq(Seq(Nat))
        BY <1>2, ShownType
    <2>2. Fetched(f, c) = ExtractFeatureContours(outlines)
        BY <1>2 DEF Fetched
    <2> HIDE DEF outlines
    <2>3. ASSUME NEW way \in ToSet(outlines) \ {Nil}
          PROVE  ToSet(way) \ {Nil} \subseteq Nat
        <3>1. way \in Seq(Nat)
            BY <2>1 DEF ToSet
        <3> QED
            BY <3>1 DEF ToSet
    <2> QED
        BY <1>2, <2>1, <2>2, <2>3, ImageFollows DEF outlines
<1> QED
    BY <1>1, <1>2

\* The types that are kept: the contours are those of positions.
Types ==
    /\ drawn \in Drawings
    /\ cache \in [Features -> [Chunks -> Seq(Seq(Nat)) \cup {Nil}]]
    /\ status \in {"running", "ready", "undefined"}
    /\ at \in 1 .. 3 /\ chunk \in Chunks
    /\ todo \in Seq(Seq(Nat)) \cup {Nil}
    /\ vertices \subseteq Lo .. Hi
    /\ constraints \subseteq vertices \X vertices /\ paths \subseteq vertices \X vertices
    /\ crossed \subseteq Crossings /\ runs \in 1 .. MaxRuns

LEMMA TypesAreOK == Types => TypeOK
<1> SUFFICES ASSUME Types PROVE TypeOK
    OBVIOUS
<1>1. at \in DOMAIN Order /\ feature \in Features
    BY Constants DEF Types, feature
<1>2. ASSUME NEW f \in Features, NEW c \in DOMAIN drawn[f], cache[f][c] # Nil,
             NEW i \in DOMAIN cache[f][c]
      PROVE  cache[f][c][i] \in Contour
    <2>1. c \in Chunks
        BY ShownType DEF Types
    <2>2. cache[f][c] \in Seq(Seq(Nat))
        BY <1>2, <2>1 DEF Types
    <2>3. cache[f][c][i] \in Seq(Nat)
        BY <2>2
    <2> QED
        BY <2>3 DEF Contour
<1>3. ASSUME todo # Nil, NEW i \in DOMAIN todo
      PROVE  todo[i] \in Contour
    <2>1. todo \in Seq(Seq(Nat))
        BY <1>3 DEF Types
    <2>2. todo[i] \in Seq(Nat)
        BY <2>1
    <2> QED
        BY <2>2 DEF Contour
<1>4. chunk \in DOMAIN drawn[feature]
    BY <1>1, ShownType DEF Types
<1> QED
    BY <1>1, <1>2, <1>3, <1>4 DEF Types, TypeOK

LEMMA SegmentsAre ==
    ASSUME NEW contour \in Seq(Nat), NEW s \in Segments(contour)
    PROVE  /\ s = <<s[1], s[2]>> /\ s[1] \in Lo .. Hi /\ s[2] \in Lo .. Hi
           /\ \E i, j \in DOMAIN contour : s[1] = contour[i] /\ s[2] = contour[j]
<1>1. PICK i \in 1 .. Len(contour) - 1 : s = <<contour[i], contour[i + 1]>>
    BY DEF Segments
<1>2. Inside(s[1]) /\ Inside(s[2])
    BY DEF Segments
<1>3. i \in DOMAIN contour /\ i + 1 \in DOMAIN contour
    OBVIOUS
<1>4. contour[i] \in Nat /\ contour[i + 1] \in Nat
    BY <1>3
<1>5. s[1] = contour[i] /\ s[2] = contour[i + 1]
    BY <1>1
<1> QED
    BY <1>1, <1>2, <1>3, <1>4, <1>5, Constants DEF Inside

LEMMA AddedIsInside ==
    ASSUME NEW contour \in Seq(Nat), NEW m \in Nat, m >= Metre
    PROVE  ContourConstraints(contour, m) \subseteq (Lo .. Hi) \X (Lo .. Hi)
<1> SUFFICES ASSUME NEW s \in Segments(contour), NEW c \in SegmentConstraints(s[1], s[2], m)
             PROVE  c \in (Lo .. Hi) \X (Lo .. Hi)
    BY DEF ContourConstraints
<1>1. s[1] \in Lo .. Hi /\ s[2] \in Lo .. Hi
    BY SegmentsAre
<1> QED
    BY <1>1, SegmentInside

\* What an addition takes and adds.
LEMMA AddFacts ==
    ASSUME Types, AddContourConstraint
    PROVE  /\ todo \in Seq(Seq(Nat)) /\ Head(todo) \in Seq(Nat) /\ Tail(todo) \in Seq(Seq(Nat))
           /\ DOMAIN Tail(todo) = 1 .. Len(todo) - 1 /\ 1 \in DOMAIN todo /\ Head(todo) = todo[1]
           /\ \A i \in DOMAIN Tail(todo) : i + 1 \in DOMAIN todo /\ Tail(todo)[i] = todo[i + 1]
           /\ max \in Nat /\ max >= Metre
           /\ ContourConstraints(Head(todo), max) \subseteq (Lo .. Hi) \X (Lo .. Hi)
<1> DEFINE Contours_ == Seq(Nat)
<1>1. todo \in Seq(Contours_) /\ todo # <<>>
    BY DEF Types, AddContourConstraint
<1>2. max \in Nat /\ max >= Metre
    BY Constants DEF Types, max, feature
<1> HIDE DEF Contours_
<1>3. /\ Head(todo) \in Contours_ /\ Tail(todo) \in Seq(Contours_)
      /\ DOMAIN Tail(todo) = 1 .. Len(todo) - 1 /\ 1 \in DOMAIN todo /\ Head(todo) = todo[1]
      /\ \A i \in DOMAIN Tail(todo) : i + 1 \in DOMAIN todo /\ Tail(todo)[i] = todo[i + 1]
    BY <1>1
<1>4. Head(todo) \in Seq(Nat)
    BY <1>3 DEF Contours_
<1> QED
    BY <1>1, <1>2, <1>3, <1>4, AddedIsInside DEF Contours_

LEMMA TypesInit == Init => Types
<1> SUFFICES ASSUME Init PROVE Types
    OBVIOUS
<1>1. drawn \in Drawings
    BY DEF Init
<1>2. /\ Len(drawn["paths"]) \in Nat \ {0} /\ Chunks = 1 .. Len(drawn["paths"])
      /\ \A f \in Features : DOMAIN drawn[f] = Chunks
    BY <1>1, ShownType
<1>3. cache \in [Features -> [Chunks -> Seq(Seq(Nat)) \cup {Nil}]]
    <2>1. cache = [f \in Features |-> [c \in Chunks |-> Nil]]
        BY <1>2 DEF Init
    <2> QED
        BY <2>1
<1>4. 1 \in Chunks
    BY <1>2
<1>5. vertices \subseteq Lo .. Hi
    BY Constants DEF Init
<1> QED
    BY <1>1, <1>3, <1>4, <1>5, BoundsAssumption DEF Init, Types

LEMMA TypesNext == Types /\ [Next]_vars => Types'
<1> SUFFICES ASSUME Types, [Next]_vars PROVE Types'
    OBVIOUS
<1>1. CASE Load
    <2>1. feature \in Features
        BY Constants DEF Types, feature
    <2>2. Fetched(feature, chunk) \in Seq(Seq(Nat)) /\ Written(Fetched(feature, chunk)) \in Seq(Seq(Nat))
        BY <2>1, FetchedFollows, WrittenFollows DEF Types
    <2>3. todo' \in Seq(Seq(Nat)) \cup {Nil}
        BY <1>1, <2>1, <2>2 DEF Load, Types
    <2>4. Chunks' = Chunks
        BY <1>1 DEF Load, Chunks
    <2>5. cache' \in [Features -> [Chunks -> Seq(Seq(Nat)) \cup {Nil}]]
        <3> DEFINE Files == Seq(Seq(Nat)) \cup {Nil}
                   new == Written(Fetched(feature, chunk))
        <3>1. cache' = cache \/ cache' = [cache EXCEPT ![feature][chunk] = new]
            BY <1>1 DEF Load
        <3>2. new \in Files
            BY <2>2
        <3>3. cache \in [Features -> [Chunks -> Files]] /\ chunk \in Chunks
            BY DEF Types
        <3> HIDE DEF Files, new
        <3>4. cache' \in [Features -> [Chunks -> Files]]
            BY <2>1, <3>1, <3>2, <3>3
        <3> QED
            BY <3>4 DEF Files
    <2> QED
        BY <1>1, <2>3, <2>4, <2>5 DEF Load, Types, mesh
<1>2. CASE AddContourConstraint
    <2> DEFINE new == ContourConstraints(Head(todo), max)
    <2>1. new \subseteq (Lo .. Hi) \X (Lo .. Hi) /\ Tail(todo) \in Seq(Seq(Nat))
        BY <1>2, AddFacts
    <2>2. /\ vertices' = vertices \cup UNION {{c[1], c[2]} : c \in new}
          /\ constraints' = constraints \cup new
          /\ paths' \subseteq paths \cup {NormalizeSegmentOrder(c[1], c[2]) : c \in new}
          /\ todo' = Tail(todo)
        BY <1>2 DEF AddContourConstraint
    <2> HIDE DEF new
    <2>3. vertices' \subseteq Lo .. Hi /\ vertices \subseteq vertices'
        <3> DEFINE Mesh == Lo .. Hi
        <3>1. vertices \subseteq Mesh /\ \A c \in new : c[1] \in Mesh /\ c[2] \in Mesh
            BY <2>1 DEF Types
        <3> HIDE DEF Mesh
        <3>2. UNION {{c[1], c[2]} : c \in new} \subseteq Mesh
            BY <3>1
        <3>3. vertices' \subseteq Mesh
            BY <2>2, <3>1, <3>2
        <3> QED
            BY <2>2, <3>3 DEF Mesh
    <2>4. \A c \in new : c = <<c[1], c[2]>> /\ c[1] \in vertices' /\ c[2] \in vertices'
        BY <2>1, <2>2
    <2>5. constraints' \subseteq vertices' \X vertices'
        BY <2>2, <2>3, <2>4 DEF Types
    <2>6. paths' \subseteq vertices' \X vertices'
        <3>1. \A c \in new : NormalizeSegmentOrder(c[1], c[2]) \in vertices' \X vertices'
            BY <2>4 DEF NormalizeSegmentOrder
        <3> QED
            BY <2>2, <2>3, <3>1 DEF Types
    <2>7. Chunks' = Chunks
        BY <1>2 DEF AddContourConstraint, Chunks
    <2> QED
        BY <1>2, <2>1, <2>2, <2>3, <2>5, <2>6, <2>7 DEF AddContourConstraint, Types
<1>3. CASE Undefined
    BY <1>3 DEF Undefined, Types, mesh, Chunks
<1>4. CASE NextChunk
    <2>1. /\ Len(drawn["paths"]) \in Nat \ {0} /\ Chunks = 1 .. Len(drawn["paths"])
          /\ Len(drawn[feature]) = Len(drawn["paths"])
        BY ShownType, Constants DEF Types, feature
    <2>2. Chunks' = Chunks
        BY <1>4 DEF NextChunk, Chunks
    <2>3. chunk' \in Chunks /\ at' \in 1 .. 3 /\ status' \in {"running", "ready", "undefined"}
        BY <1>4, <2>1, Constants DEF NextChunk, Types
    <2> QED
        BY <1>4, <2>2, <2>3 DEF NextChunk, Types, mesh
<1>5. CASE Rerun
    <2>1. Chunks' = Chunks
        BY <1>5 DEF Rerun, Chunks
    <2>2. 1 \in Chunks
        BY ShownType DEF Types
    <2>3. vertices' \subseteq Lo .. Hi
        BY <1>5, Constants DEF Rerun
    <2>4. runs' \in 1 .. MaxRuns
        BY <1>5, BoundsAssumption DEF Rerun, Types
    <2> QED
        BY <1>5, <2>1, <2>2, <2>3, <2>4 DEF Rerun, Types
<1>6. ASSUME NEW p \in Crossings, Cross(p)
      PROVE  Types'
    <2>1. Chunks' = Chunks /\ p \in Lo .. Hi
        BY <1>6, UnitAssumption DEF Cross, Chunks
    <2> QED
        BY <1>6, <2>1 DEF Cross, Types
<1>7. CASE UNCHANGED vars
    BY <1>7 DEF vars, mesh, Types, Chunks
<1> QED
    BY <1>1, <1>2, <1>3, <1>4, <1>5, <1>6, <1>7 DEF Next

LEMMA TypesHold == Spec => []Types
BY TypesInit, TypesNext, PTL DEF Spec

\* The type invariant of the model holds: positions on the line stay inside the mesh,
\* and constraints and paths run between vertices of it.
THEOREM TypeCorrect == Spec => []TypeOK
BY TypesHold, TypesAreOK, PTL

-----------------------------------------------------------------------------
(* What an addition of constraints does.                                    *)

\* Edges of the mesh lead from the one end of each segment to the other: of a chain over
\* the split points, the first that is past a gap, and the one before it, cover the gap.
THEOREM SegmentsAreJoined == Spec => JoinsItsEnds
<1>1. ASSUME Types, AddContourConstraint
      PROVE  \A s \in Segments(Head(todo)) : Joined(s[1], s[2])'
    <2> SUFFICES ASSUME NEW s \in Segments(Head(todo)),
                        NEW e \in vertices' \X vertices', Adjacent(e)', Covers(<<s[1], s[2]>>, e)
                 PROVE  \E c \in constraints' : Covers(c, e)
        BY DEF Joined
    <2> DEFINE segment == SegmentConstraints(s[1], s[2], max)
               a == e[1]
               b == e[2]
    <2>1. Head(todo) \in Seq(Nat) /\ max \in Nat /\ max >= Metre
        BY <1>1, AddFacts
    <2>2. s[1] \in Lo .. Hi /\ s[2] \in Lo .. Hi
        BY <2>1, SegmentsAre
    <2>3. segment \subseteq ContourConstraints(Head(todo), max)
        BY DEF ContourConstraints
    <2>4. /\ vertices' = vertices \cup UNION {{c[1], c[2]} : c \in ContourConstraints(Head(todo), max)}
          /\ ContourConstraints(Head(todo), max) \subseteq constraints'
        BY <1>1 DEF AddContourConstraint
    <2> HIDE DEF segment
    <2>5. \A c \in segment : c[1] \in vertices' /\ c[2] \in vertices'
        BY <2>3, <2>4
    <2>6. vertices' \subseteq Int
        <3>1. Types'
            BY <1>1, TypesNext DEF Next
        <3> QED
            BY <3>1, Constants DEF Types
    <2>7. /\ e = <<a, b>> /\ a \in Int /\ b \in Int /\ a < b
          /\ ~\E v \in vertices' : a < v /\ v < b
        <3>0. e \in vertices' \X vertices'
            OBVIOUS
        <3>1. e = <<a, b>> /\ a \in vertices' /\ b \in vertices'
            BY <3>0
        <3>2. a < b /\ ~\E v \in vertices' : a < v /\ v < b
            BY DEF Adjacent
        <3> QED
            BY <2>6, <3>1, <3>2
    <2> HIDE DEF a, b
    <2>8. PICK c \in segment : Covers(c, <<a, b>>)
        BY <2>1, <2>2, <2>5, <2>7, SegmentJoins DEF segment
    <2> QED
        BY <2>3, <2>4, <2>7, <2>8
<1>2. Types /\ [Next]_vars =>
        [AddContourConstraint => \A s \in Segments(Head(todo)) : Joined(s[1], s[2])']_vars
    BY <1>1
<1> QED
    BY <1>2, TypesHold, PTL DEF Spec, JoinsItsEnds

\* No piece that is added is twice as long as was asked for, but for the rounding of its
\* ends.
THEOREM PiecesAreShort == Spec => NeverTwiceTheLimit
<1>1. ASSUME Types, AddContourConstraint
      PROVE  \A c \in constraints' \ constraints : 2 * Distance(c[1], c[2]) <= 4 * max + Metre
    <2>1. Head(todo) \in Seq(Nat) /\ max \in Nat /\ max >= Metre
        BY <1>1, AddFacts
    <2> SUFFICES ASSUME NEW c \in constraints' \ constraints
                 PROVE  2 * Distance(c[1], c[2]) <= 4 * max + Metre
        OBVIOUS
    <2>2. PICK s \in Segments(Head(todo)) : c \in SegmentConstraints(s[1], s[2], max)
        BY <1>1 DEF AddContourConstraint, ContourConstraints
    <2>3. s[1] \in Lo .. Hi /\ s[2] \in Lo .. Hi
        BY <2>1, SegmentsAre
    <2> QED
        BY <2>1, <2>2, <2>3, SegmentPieces
<1>2. Types /\ [Next]_vars =>
        [AddContourConstraint =>
            \A c \in constraints' \ constraints : 2 * Distance(c[1], c[2]) <= 4 * max + Metre]_vars
    BY <1>1
<1> QED
    BY <1>2, TypesHold, PTL DEF Spec, NeverTwiceTheLimit

-----------------------------------------------------------------------------
(* Where an empty vector is read.                                           *)

StuckInv ==
    status = "undefined" =>
        todo # Nil /\ todo # <<>> /\ ReadsNoSplitPoint(Head(todo), max)

LEMMA StuckNext == StuckInv /\ [Next]_vars => StuckInv'
<1> SUFFICES ASSUME StuckInv, [Next]_vars PROVE StuckInv'
    OBVIOUS
<1>1. CASE Undefined
    <2>1. max' = max
        BY <1>1 DEF Undefined, max, feature
    <2> QED
        BY <1>1, <2>1 DEF Undefined, StuckInv
<1>2. CASE UNCHANGED vars
    BY <1>2 DEF vars, StuckInv, max, feature
<1>3. CASE Load \/ AddContourConstraint \/ NextChunk \/ Rerun \/ \E p \in Crossings : Cross(p)
    <2>1. status' # "undefined"
        BY <1>3 DEF Load, AddContourConstraint, NextChunk, Rerun, Cross
    <2> QED
        BY <2>1 DEF StuckInv
<1> QED
    BY <1>1, <1>2, <1>3 DEF Next

\* An element of an empty vector is read only for a segment that ends within half a metre
\* of the hull: its last split point is its end, rounded, and all others are inside.
THEOREM UndefinedNearHull == Spec => []UndefinedOnlyAtHull
<1>1. Init => StuckInv
    BY DEF Init, StuckInv
<1>2. Types /\ StuckInv => UndefinedOnlyAtHull
    <2> SUFFICES ASSUME Types, StuckInv, status = "undefined"
                 PROVE  \E s \in Segments(Head(todo)) :
                            2 * (s[2] - Lo) <= Metre \/ 2 * (Hi - s[2]) <= Metre
        BY DEF UndefinedOnlyAtHull
    <2> DEFINE Contours_ == Seq(Nat)
    <2>1. todo \in Seq(Contours_) /\ todo # <<>>
        BY DEF Types, StuckInv
    <2> HIDE DEF Contours_
    <2>2. Head(todo) \in Contours_
        BY <2>1
    <2>3. Head(todo) \in Seq(Nat)
        BY <2>2 DEF Contours_
    <2>4. max \in Nat /\ max >= Metre
        BY Constants DEF Types, max, feature
    <2>5. PICK s \in Segments(Head(todo)) :
              Long(s[1], s[2], max) /\ SplitPoints(s[1], s[2], max) = <<>>
        BY DEF StuckInv, ReadsNoSplitPoint
    <2>6. s[1] \in Lo .. Hi /\ s[2] \in Lo .. Hi
        BY <2>3, SegmentsAre
    <2> QED
        BY <2>4, <2>5, <2>6, NoneInside
<1> QED
    BY <1>1, <1>2, StuckNext, TypesHold, PTL DEF Spec

-----------------------------------------------------------------------------
(* What is in the mesh is near what is shown.                               *)

\* What is in the cache was fetched, and written with six digits.
CacheInv ==
    \A f \in Features : \A c \in Chunks :
        cache[f][c] = Nil \/ cache[f][c] = Written(Fetched(f, c))

\* The first run finds nothing in the cache that it did not write itself.
FirstRunInv ==
    runs = 1 /\ status = "running" =>
        \A i \in 1 .. 3 : \A c \in Chunks :
            cache[Order[i]][c] # Nil =>
                \/ i < at
                \/ i = at /\ (c < chunk \/ (c = chunk /\ todo # Nil))

Slack == Metre + IF runs > 1 THEN Decade ELSE 0

\* The contours still to be added follow those shown.
TodoInv ==
    todo # Nil =>
        \A i \in DOMAIN todo : Follows(todo[i], drawn[feature][chunk], Slack)

NearInv == Types /\ CacheInv /\ FirstRunInv /\ TodoInv /\ StaysNearDrawn

LEMMA FollowsWithMore ==
    ASSUME NEW contour, NEW outlines, NEW a \in Nat, NEW b \in Nat, a <= b,
           NEW i, contour[i] \in Seq(Nat),
           \A way \in ToSet(outlines) \ {Nil} : ToSet(way) \ {Nil} \subseteq Nat,
           Follows(contour[i], outlines, a)
    PROVE  Follows(contour[i], outlines, b)
<1>1. PICK way \in ToSet(outlines) \ {Nil} :
          \A j \in DOMAIN contour[i] : Close(contour[i][j], ToSet(way) \ {Nil}, a)
    BY DEF Follows
<1>2. ASSUME NEW j \in DOMAIN contour[i]
      PROVE  Close(contour[i][j], ToSet(way) \ {Nil}, b)
    <2> DEFINE x == contour[i][j]
               shown == ToSet(way) \ {Nil}
    <2>1. x \in Nat /\ shown \subseteq Nat /\ Close(x, shown, a)
        <3>1. x \in Nat
            OBVIOUS
        <3>2. shown \subseteq Nat
            OBVIOUS
        <3>3. Close(x, shown, a)
            BY <1>1
        <3> QED
            BY <3>1, <3>2, <3>3
    <2> HIDE DEF x, shown
    <2>2. PICK y \in shown : (x % Metre = 0 /\ 2 * Distance(x, y) <= a) \/ 2 * Distance(x, y) + Metre <= a
        BY <2>1 DEF Close
    <2>3. Distance(x, y) \in Nat /\ Metre \in Nat
        BY <2>1, Constants DEF Distance
    <2>4. Close(x, shown, b)
        BY <2>2, <2>3 DEF Close
    <2> QED
        BY <2>4 DEF x, shown
<1> QED
    BY <1>1, <1>2 DEF Follows

LEMMA NearInit == Init => NearInv
<1> SUFFICES ASSUME Init PROVE NearInv
    OBVIOUS
<1>1. Types
    BY TypesInit
<1>2. \A f \in Features : \A c \in Chunks : cache[f][c] = Nil
    BY <1>1, ShownType DEF Init, Types
<1>3. CacheInv /\ FirstRunInv
    BY <1>2, Constants DEF CacheInv, FirstRunInv
<1>4. TodoInv /\ StaysNearDrawn
    BY DEF Init, TodoInv, StaysNearDrawn
<1> QED
    BY <1>1, <1>3, <1>4 DEF NearInv

\* What is fetched is a function of what is shown.
LEMMA SameDrawn ==
    ASSUME drawn' = drawn
    PROVE  /\ Chunks' = Chunks
           /\ \A f, c : Fetched(f, c)' = Fetched(f, c)
           /\ \A p, by : Near(p, by)' = Near(p, by)
BY DEF Chunks, Fetched, Near

LEMMA CacheNext == NearInv /\ [Next]_vars => CacheInv'
<1> SUFFICES ASSUME NearInv, [Next]_vars PROVE CacheInv'
    OBVIOUS
<1>1. drawn' = drawn
    BY DEF Next, Load, AddContourConstraint, Undefined, NextChunk, Rerun, Cross, vars
<1> SUFFICES ASSUME NEW f \in Features, NEW c \in Chunks
             PROVE  cache'[f][c] = Nil \/ cache'[f][c] = Written(Fetched(f, c))
    BY <1>1, SameDrawn DEF CacheInv
<1>2. cache[f][c] = Nil \/ cache[f][c] = Written(Fetched(f, c))
    BY DEF NearInv, CacheInv
<1>3. CASE Load
    <2>1. feature \in Features /\ cache \in [Features -> [Chunks -> Seq(Seq(Nat)) \cup {Nil}]]
        BY Constants DEF NearInv, Types, feature
    <2> DEFINE new == Written(Fetched(feature, chunk))
    <2>2. cache' = cache \/ cache' = [cache EXCEPT ![feature][chunk] = new]
        BY <1>3 DEF Load
    <2>3. CASE f = feature /\ c = chunk
        <3>1. cache'[f][c] = cache[f][c] \/ cache'[f][c] = new
            <4> HIDE DEF new
            <4> QED
                BY <2>1, <2>2, <2>3
        <3> QED
            BY <1>2, <2>3, <3>1
    <2>4. CASE f # feature \/ c # chunk
        <3>1. cache'[f][c] = cache[f][c]
            <4> HIDE DEF new
            <4> QED
                BY <2>1, <2>2, <2>4
        <3> QED
            BY <1>2, <3>1
    <2> QED
        BY <2>3, <2>4
<1>4. CASE ~Load
    <2>1. cache' = cache
        BY <1>4 DEF Next, AddContourConstraint, Undefined, NextChunk, Rerun, Cross, vars
    <2> QED
        BY <1>2, <2>1
<1> QED
    BY <1>3, <1>4

LEMMA FirstRunNext == NearInv /\ [Next]_vars => FirstRunInv'
<1> SUFFICES ASSUME NearInv, [Next]_vars PROVE FirstRunInv'
    OBVIOUS
<1> SUFFICES ASSUME runs' = 1, status' = "running",
                    NEW i \in 1 .. 3, NEW c \in Chunks, cache'[Order[i]][c] # Nil
             PROVE  i < at' \/ (i = at' /\ (c < chunk' \/ (c = chunk' /\ todo' # Nil)))
    <2>1. drawn' = drawn
        BY DEF Next, Load, AddContourConstraint, Undefined, NextChunk, Rerun, Cross, vars
    <2>2. Chunks' = Chunks
        BY <2>1, SameDrawn
    <2> QED
        BY <2>2 DEF FirstRunInv
<1>1. Types /\ Types'
    BY TypesNext DEF NearInv
<1>2. ~Rerun /\ runs = 1 /\ status = "running"
    <2>1. ~Rerun
        BY <1>1 DEF Rerun, Types
    <2>2. runs = 1
        BY <2>1 DEF Next, Load, AddContourConstraint, Undefined, NextChunk, Cross, vars
    <2>3. status = "running"
        BY <2>1 DEF Next, Load, AddContourConstraint, Undefined, NextChunk, Cross, vars
    <2> QED
        BY <2>1, <2>2, <2>3
<1>3. cache[Order[i]][c] # Nil =>
          i < at \/ (i = at /\ (c < chunk \/ (c = chunk /\ todo # Nil)))
    BY <1>2 DEF NearInv, FirstRunInv
<1>4. Order[i] \in Features /\ feature = Order[at] /\ i \in Nat /\ at \in 1 .. 3
    BY <1>1, Constants DEF feature, Types
<1>5. CASE Load
    <2>1. Order[i] = feature => i = at
        BY <1>4, Constants
    <2>2. at' = at /\ chunk' = chunk
        BY <1>5 DEF Load
    <2>3. todo' # Nil
        <3>1. Fetched(feature, chunk) \in Seq(Seq(Nat))
            BY <1>1, <1>4, FetchedFollows, Constants DEF Types
        <3> QED
            BY <1>5, <3>1, NilAssumption DEF Load
    <2>4. CASE i = at /\ c = chunk
        BY <2>2, <2>3, <2>4
    <2>5. CASE i # at \/ c # chunk
        <3> DEFINE new == Written(Fetched(feature, chunk))
        <3>1. cache' = cache \/ cache' = [cache EXCEPT ![feature][chunk] = new]
            BY <1>5 DEF Load
        <3>2. cache \in [Features -> [Chunks -> Seq(Seq(Nat)) \cup {Nil}]]
            BY <1>1 DEF Types
        <3> HIDE DEF new
        <3>3. Order[i] # feature \/ c # chunk
            BY <2>1, <2>5
        <3>4. cache'[Order[i]][c] = cache[Order[i]][c]
            BY <1>4, <3>1, <3>2, <3>3
        <3> QED
            BY <1>3, <1>5, <2>2, <3>4 DEF Load
    <2> QED
        BY <2>4, <2>5
<1>6. CASE AddContourConstraint
    <2>1. todo' # Nil
        BY <1>1, <1>6, AddFacts, NilAssumption DEF AddContourConstraint
    <2> QED
        BY <1>3, <1>6, <2>1 DEF AddContourConstraint
<1>7. CASE NextChunk
    <2>1. cache' = cache /\ todo = <<>>
        BY <1>7 DEF NextChunk
    <2>2. chunk \in Nat /\ c \in Nat /\ c <= Len(drawn[feature])
        BY <1>1, <1>4, ShownType, Constants DEF Types
    <2>3. \/ chunk' = chunk + 1 /\ at' = at
          \/ chunk = Len(drawn[feature]) /\ at' = at + 1
        BY <1>7 DEF NextChunk
    <2> QED
        BY <1>3, <1>4, <2>1, <2>2, <2>3
<1>8. CASE \E p \in Crossings : Cross(p)
    BY <1>3, <1>8 DEF Cross
<1>9. CASE UNCHANGED vars
    BY <1>3, <1>9 DEF vars
<1>10. CASE Undefined
    BY <1>10 DEF Undefined
<1> QED
    BY <1>2, <1>5, <1>6, <1>7, <1>8, <1>9, <1>10 DEF Next

LEMMA TodoNext == NearInv /\ [Next]_vars => TodoInv'
<1> SUFFICES ASSUME NearInv, [Next]_vars, todo' # Nil, NEW i \in DOMAIN todo'
             PROVE  Follows(todo'[i], drawn'[feature'][chunk'], Slack')
    BY DEF TodoInv
<1>1. Types /\ Types'
    BY TypesNext DEF NearInv
<1>2. feature \in Features /\ Slack \in Nat /\ Slack >= Metre
    BY <1>1, Constants DEF Types, feature, Slack
<1>3. CASE Load
    <2>1. drawn' = drawn /\ feature' = feature /\ chunk' = chunk /\ Slack' = Slack
        BY <1>3 DEF Load, feature, Slack
    <2>2. /\ Fetched(feature, chunk) \in Seq(Seq(Nat))
          /\ \A k \in DOMAIN Fetched(feature, chunk) :
                Follows(Fetched(feature, chunk)[k], drawn[feature][chunk], Metre)
          /\ \A way \in ToSet(drawn[feature][chunk]) \ {Nil} : ToSet(way) \ {Nil} \subseteq Nat
        BY <1>1, <1>2, FetchedFollows DEF Types
    <2>3. CASE cache[feature][chunk] # Nil
        <3>1. todo' = Written(Fetched(feature, chunk))
            BY <1>1, <1>2, <1>3, <2>3 DEF Load, NearInv, CacheInv, Types
        <3>2. Slack = Metre + Decade
            <4>1. status = "running" /\ todo = Nil
                BY <1>3 DEF Load
            <4>2. at \in 1 .. 3 /\ chunk \in Chunks /\ feature = Order[at] /\ chunk \in Nat
                BY <1>1, ShownType DEF Types, feature
            <4>3. runs # 1
                BY <2>3, <4>1, <4>2 DEF NearInv, FirstRunInv
            <4> QED
                BY <1>1, <4>3 DEF Types, Slack
        <3>3. Follows(todo'[i], drawn[feature][chunk], Metre + Decade)
            BY <2>2, <3>1, WrittenFollows
        <3> QED
            BY <2>1, <3>2, <3>3
    <2>4. CASE cache[feature][chunk] = Nil
        <3>1. todo' = Fetched(feature, chunk)
            BY <1>3, <2>4 DEF Load
        <3>2. todo'[i] \in Seq(Nat) /\ Follows(todo'[i], drawn[feature][chunk], Metre)
            BY <2>2, <3>1
        <3>3. Follows(todo'[i], drawn[feature][chunk], Slack)
            BY <1>2, <2>2, <3>2, FollowsWithMore, Constants
        <3> QED
            BY <2>1, <3>3
    <2> QED
        BY <2>3, <2>4
<1>4. CASE AddContourConstraint
    <2>1. drawn' = drawn /\ feature' = feature /\ chunk' = chunk /\ Slack' = Slack
        BY <1>4 DEF AddContourConstraint, feature, Slack
    <2>2. todo' = Tail(todo) /\ todo # Nil
        BY <1>4 DEF AddContourConstraint
    <2>3. i + 1 \in DOMAIN todo /\ todo'[i] = todo[i + 1]
        BY <1>1, <1>4, <2>2, AddFacts
    <2>4. Follows(todo[i + 1], drawn[feature][chunk], Slack)
        BY <2>2, <2>3 DEF NearInv, TodoInv
    <2> QED
        BY <2>1, <2>3, <2>4
<1>5. CASE NextChunk \/ Rerun
    BY <1>5 DEF NextChunk, Rerun
<1>6. CASE Undefined \/ (\E p \in Crossings : Cross(p)) \/ UNCHANGED vars
    <2>1. /\ drawn' = drawn /\ feature' = feature /\ chunk' = chunk /\ Slack' = Slack
          /\ todo' = todo
        BY <1>6 DEF Undefined, Cross, vars, feature, Slack
    <2>2. Follows(todo[i], drawn[feature][chunk], Slack)
        BY <2>1 DEF NearInv, TodoInv
    <2> QED
        BY <2>1, <2>2
<1> QED
    BY <1>3, <1>4, <1>5, <1>6 DEF Next

LEMMA NearNext == NearInv /\ [Next]_vars => StaysNearDrawn'
<1> SUFFICES ASSUME NearInv, [Next]_vars PROVE StaysNearDrawn'
    OBVIOUS
<1>1. Types
    BY DEF NearInv
<1>2. drawn' = drawn
    BY DEF Next, Load, AddContourConstraint, Undefined, NextChunk, Rerun, Cross, vars
<1> SUFFICES ASSUME NEW c \in constraints'
             PROVE  Near(c[1], Slack' \div 2) /\ Near(c[2], Slack' \div 2)
    BY <1>2, SameDrawn DEF StaysNearDrawn, Slack
<1>3. CASE Rerun
    BY <1>3 DEF Rerun
<1>4. CASE ~Rerun
    <2>1. Slack' = Slack
        BY <1>4 DEF Next, Load, AddContourConstraint, Undefined, NextChunk, Cross, vars, Slack
    <2>2. CASE c \in constraints
        BY <2>1, <2>2 DEF NearInv, StaysNearDrawn, Slack
    <2>3. CASE c \notin constraints
        <3>1. AddContourConstraint
            BY <1>4, <2>3 DEF Next, Load, Undefined, NextChunk, Cross, vars, mesh
        <3> DEFINE contour == Head(todo)
        <3>2. PICK s \in Segments(contour) : c \in SegmentConstraints(s[1], s[2], max)
            BY <2>3, <3>1 DEF AddContourConstraint, ContourConstraints
        <3>3. /\ contour \in Seq(Nat) /\ max \in Nat /\ max >= Metre
              /\ 1 \in DOMAIN todo /\ contour = todo[1] /\ todo # Nil
            BY <1>1, <3>1, AddFacts DEF AddContourConstraint
        <3>4. Follows(contour, drawn[feature][chunk], Slack)
            BY <3>3 DEF NearInv, TodoInv
        <3> HIDE DEF contour
        <3>5. PICK way \in ToSet(drawn[feature][chunk]) \ {Nil} :
                  \A j \in DOMAIN contour : Close(contour[j], ToSet(way) \ {Nil}, Slack)
            BY <3>4 DEF Follows
        <3>6. PICK i, j \in DOMAIN contour : s[1] = contour[i] /\ s[2] = contour[j]
            BY <3>3, SegmentsAre
        <3>7. s[1] \in Lo .. Hi /\ s[2] \in Lo .. Hi
            BY <3>3, SegmentsAre
        <3> DEFINE shown == ToSet(way) \ {Nil}
        <3>8. Close(s[1], shown, Slack) /\ Close(s[2], shown, Slack)
            BY <3>5, <3>6
        <3>9. feature \in Features /\ chunk \in Chunks /\ chunk \in DOMAIN drawn[feature]
            BY <1>1, Constants, ShownType DEF Types, feature
        <3>10. shown \subseteq Nat /\ Slack \in Nat
            <4>1. drawn \in Drawings
                BY <1>1 DEF Types
            <4>2. \A u \in ToSet(drawn[feature][chunk]) \ {Nil} : ToSet(u) \ {Nil} \subseteq Nat
                BY <3>9, <4>1, FetchedFollows
            <4> QED
                BY <4>2, Constants DEF Slack
        <3> HIDE DEF shown
        <3>11. Between(c[1], shown, Slack \div 2) /\ Between(c[2], shown, Slack \div 2)
            BY <3>2, <3>3, <3>7, <3>8, <3>10, SegmentNear
        <3>12. ASSUME NEW x, Between(x, shown, Slack \div 2)
               PROVE  Near(x, Slack \div 2)
            BY <3>9, <3>12 DEF Near, Between, shown
        <3> QED
            BY <2>1, <3>11, <3>12
    <2> QED
        BY <2>2, <2>3
<1> QED
    BY <1>3, <1>4

LEMMA NearInductive == NearInv /\ [Next]_vars => NearInv'
<1>1. NearInv /\ [Next]_vars => Types'
    BY TypesNext DEF NearInv
<1> QED
    BY <1>1, CacheNext, FirstRunNext, TodoNext, NearNext DEF NearInv

\* No constraint strays from what is shown by more than half a metre, or, in a run that may
\* have read the cache, by more than half of what six digits tell apart as well: the error
\* of a split point is not added to that of an image's contours, which are whole metres.
THEOREM ConstraintsStayNear == Spec => []StaysNearDrawn
<1>1. NearInv => StaysNearDrawn
    BY DEF NearInv
<1> QED
    BY <1>1, NearInit, NearInductive, PTL DEF Spec

-----------------------------------------------------------------------------
(* A way that nothing crosses.                                              *)

\* A sequence that goes up from each element to the next goes up,
LEMMA UpOverall ==
    ASSUME NEW s \in Seq(Int), \A i \in 1 .. Len(s) - 1 : s[i] <= s[i + 1],
           NEW i \in 1 .. Len(s), NEW j \in 1 .. Len(s), i <= j
    PROVE  s[i] <= s[j]
<1> DEFINE P == {d \in Nat : i + d \in 1 .. Len(s) => s[i] <= s[i + d]}
<1>1. 0 \in P
    BY SMT
<1>2. ASSUME NEW d \in Nat, d \in P
      PROVE  d + 1 \in P
    <2> SUFFICES ASSUME i + (d + 1) \in 1 .. Len(s)
                 PROVE  s[i] <= s[i + (d + 1)]
        OBVIOUS
    <2>1. i + d \in 1 .. Len(s) - 1 /\ i + d \in 1 .. Len(s) /\ (i + d) + 1 = i + (d + 1)
        OBVIOUS
    <2>2. s[i] <= s[i + d]
        BY <1>2, <2>1
    <2>3. s[i + d] <= s[(i + d) + 1]
        BY <2>1
    <2>4. s[i] \in Int /\ s[i + d] \in Int /\ s[i + (d + 1)] \in Int
        BY <2>1
    <2> QED
        BY <2>1, <2>2, <2>3, <2>4
<1>3. Nat \subseteq P
    <2> HIDE DEF P
    <2> QED
        BY <1>1, <1>2, Induct
<1> DEFINE d == j - i
<1>4. d \in Nat /\ i + d = j
    OBVIOUS
<1>5. d \in P
    BY <1>3, <1>4
<1> HIDE DEF d
<1> QED
    BY <1>4, <1>5

\* and one that goes down goes down.
LEMMA DownOverall ==
    ASSUME NEW s \in Seq(Int), \A i \in 1 .. Len(s) - 1 : s[i] >= s[i + 1],
           NEW i \in 1 .. Len(s), NEW j \in 1 .. Len(s), i <= j
    PROVE  s[i] >= s[j]
<1> DEFINE t == [k \in 1 .. Len(s) |-> - s[k]]
<1>1. \A k \in 1 .. Len(s) : s[k] \in Int
    OBVIOUS
<1>2. t \in Seq(Int) /\ Len(t) = Len(s)
    BY <1>1
<1>3. \A k \in 1 .. Len(t) - 1 : t[k] <= t[k + 1]
    <2> SUFFICES ASSUME NEW k \in 1 .. Len(s) - 1
                 PROVE  t[k] <= t[k + 1]
        BY <1>2
    <2>1. k \in 1 .. Len(s) /\ k + 1 \in 1 .. Len(s) /\ s[k] >= s[k + 1]
        OBVIOUS
    <2>2. t[k] = - s[k] /\ t[k + 1] = - s[k + 1]
        BY <2>1
    <2> QED
        BY <1>1, <2>1, <2>2
<1>4. t[i] = - s[i] /\ t[j] = - s[j]
    OBVIOUS
<1> HIDE DEF t
<1>5. t[i] <= t[j]
    BY <1>2, <1>3, UpOverall
<1> QED
    BY <1>1, <1>4, <1>5

\* Rounding keeps the order, to whole metres
LEMMA RoundedInOrder ==
    ASSUME NEW a \in Int, NEW b \in Int, a <= b, NEW d \in Nat \ {0}
    PROVE  Rounded(a, d) <= Rounded(b, d)
<1> DEFINE W == 2 * d * Metre
           A == 2 * a + d * Metre
           B == 2 * b + d * Metre
           k == A \div W
           l == B \div W
<1>1. Metre \in Nat \ {0} /\ W \in Nat \ {0} /\ A \in Int /\ B \in Int /\ A <= B
    BY UnitAssumption
<1>2. /\ k \in Int /\ W * k <= A /\ A < W * k + W
      /\ l \in Int /\ W * l <= B /\ B < W * l + W
    <2> HIDE DEF W, A, B
    <2> QED
        BY <1>1
<1>3. Rounded(a, d) = Metre * k /\ Rounded(b, d) = Metre * l
    BY DEF Rounded
<1> HIDE DEF W, A, B, k, l
<1>4. W * (k - l) < W * 1
    <2>1. W * (k - l) = W * k - W * l
        BY <1>1, <1>2
    <2> QED
        BY <1>1, <1>2, <2>1
<1>5. k - l < 1
    BY <1>1, <1>2, <1>4
<1>6. k <= l
    BY <1>2, <1>5
<1> QED
    BY <1>1, <1>2, <1>3, <1>6

\* and to six digits.
LEMMA SixDigitsInOrder ==
    ASSUME NEW x \in Nat, NEW y \in Nat, x <= y
    PROVE  SixDigits(x) <= SixDigits(y)
<1> DEFINE t == x \div Decade
           u == y \div Decade
           restX == 2 * (x % Decade)
           restY == 2 * (y % Decade)
           Up(tens, rest) == rest > Decade \/ (rest = Decade /\ tens % 2 = 1)
           goal == SixDigits(x) <= SixDigits(y)
<1>1. Decade \in Nat \ {0}
    BY UnitAssumption
<1>2. /\ t \in Nat /\ x = Decade * t + (x % Decade)
      /\ u \in Nat /\ y = Decade * u + (y % Decade)
      /\ x % Decade \in Nat /\ x % Decade < Decade /\ y % Decade \in Nat /\ y % Decade < Decade
    BY <1>1
<1>3. /\ SixDigits(x) = Decade * (IF Up(t, restX) THEN t + 1 ELSE t)
      /\ SixDigits(y) = Decade * (IF Up(u, restY) THEN u + 1 ELSE u)
    BY DEF SixDigits
<1>4. restX \in Nat /\ restY \in Nat
    BY <1>2
<1>5. t <= u
    <2> DEFINE a == x % Decade
               b == y % Decade
    <2>1. Decade * t + a <= Decade * u + b /\ a \in Nat /\ b \in Nat /\ b < Decade
        BY <1>2
    <2> HIDE DEF a, b, t, u
    <2>2. Decade * (t - u) < Decade * 1
        <3>1. Decade * (t - u) = Decade * t - Decade * u
            BY <1>1, <1>2
        <3>2. Decade * t \in Int /\ Decade * u \in Int
            BY <1>1, <1>2
        <3> QED
            BY <1>1, <2>1, <3>1, <3>2
    <2>3. t - u < 1
        BY <1>1, <1>2, <2>2
    <2> QED
        BY <1>2, <2>3
<1>6. CASE t = u
    <2>1. restX <= restY
        <3> DEFINE a == x % Decade
                   b == y % Decade
        <3>1. Decade * t + a <= Decade * t + b /\ a \in Nat /\ b \in Nat /\ Decade * t \in Int
            BY <1>1, <1>2, <1>6
        <3> HIDE DEF a, b
        <3>2. a <= b
            BY <3>1
        <3>3. 2 * a <= 2 * b
            BY <3>1, <3>2
        <3> QED
            BY <3>3 DEF a, b
    <2> DEFINE rX == restX
               rY == restY
    <2>2. rX <= rY /\ rX \in Nat /\ rY \in Nat
        BY <1>4, <2>1
    <2> HIDE DEF rX, rY, t, u
    <2>3. Up(t, rX) => Up(u, rY)
        BY <1>1, <1>6, <2>2
    <2>4. (IF Up(t, rX) THEN t + 1 ELSE t) <= (IF Up(u, rY) THEN u + 1 ELSE u)
        BY <1>2, <1>6, <2>3
    <2> DEFINE a == IF Up(t, rX) THEN t + 1 ELSE t
               b == IF Up(u, rY) THEN u + 1 ELSE u
    <2>5. a \in Nat /\ b \in Nat /\ a <= b
        BY <1>2, <2>4
    <2>6. SixDigits(x) = Decade * a /\ SixDigits(y) = Decade * b
        BY <1>3 DEF rX, rY
    <2> HIDE DEF a, b
    <2> QED
        BY <1>1, <2>5, <2>6
<1>7. CASE t < u
    <2> DEFINE a == IF Up(t, restX) THEN t + 1 ELSE t
               b == IF Up(u, restY) THEN u + 1 ELSE u
    <2>1. a \in Nat /\ b \in Nat /\ a <= b
        <3> HIDE DEF t, u, restX, restY, Up
        <3> QED
            BY <1>2, <1>7
    <2>2. SixDigits(x) = Decade * a /\ SixDigits(y) = Decade * b
        BY <1>3
    <2> HIDE DEF a, b
    <2> QED
        BY <1>1, <2>1, <2>2
<1> QED
    BY <1>2, <1>5, <1>6, <1>7

\* The last split point of a segment that ends at a whole metre is its end.
LEMMA SplitIsEnd ==
    ASSUME NEW p \in Nat, NEW q \in Nat, NEW m \in Nat, m >= Metre, Long(p, q, m),
           q % Metre = 0
    PROVE  Split(p, q, m, Splits(p, q, m)) = q
<1> DEFINE r == Split(p, q, m, Splits(p, q, m))
           i == r \div Metre
           j == q \div Metre
<1>1. Metre \in Nat \ {0}
    BY UnitAssumption
<1>2. r \in Int /\ r % Metre = 0 /\ 2 * r <= 2 * q + Metre /\ 2 * q < 2 * r + Metre
    BY SplitAtEnd
<1> HIDE DEF r
<1>3. i \in Int /\ r = Metre * i /\ j \in Int /\ q = Metre * j
    BY <1>1, <1>2
<1> HIDE DEF i, j
<1>4. Metre * (i - j) < Metre * 1 /\ Metre * (j - i) < Metre * 1
    <2>1. r - q < Metre /\ q - r < Metre
        BY <1>1, <1>2
    <2>2. Metre * (i - j) = r - q /\ Metre * (j - i) = q - r
        BY <1>1, <1>3
    <2> QED
        BY <1>1, <2>1, <2>2
<1>5. i - j < 1 /\ j - i < 1
    BY <1>1, <1>3, <1>4
<1>6. r = q
    BY <1>3, <1>5
<1> QED
    BY <1>6 DEF r

\* The vertices that the constraints of a segment lead over.
Walk(p, q, m) == IF Long(p, q, m) THEN Way(p, q, m) ELSE <<p, q>>

\* From whole metre to whole metre, it goes one way.
LEMMA WalkIs ==
    ASSUME NEW p \in Lo .. Hi, NEW q \in Lo .. Hi, NEW m \in Nat, m >= Metre, q % Metre = 0
    PROVE  LET w == Walk(p, q, m)
           IN  /\ w \in Seq(Int) /\ Len(w) \in Nat /\ Len(w) >= 2
               /\ w[1] = p /\ w[Len(w)] = q
               /\ SegmentConstraints(p, q, m) = {<<w[i], w[i + 1]>> : i \in 1 .. Len(w) - 1}
               /\ p <= q => \A i \in 1 .. Len(w) - 1 : w[i] <= w[i + 1]
               /\ p >= q => \A i \in 1 .. Len(w) - 1 : w[i] >= w[i + 1]
<1>1. p \in Nat /\ q \in Nat /\ Lo \in Nat /\ Hi \in Nat
    BY UnitAssumption
<1>2. CASE ~Long(p, q, m)
    <2> DEFINE w == <<p, q>>
    <2>1. w \in Seq(Int) /\ Len(w) = 2 /\ w[1] = p /\ w[2] = q
        BY <1>1
    <2>2. SegmentConstraints(p, q, m) = {<<w[i], w[i + 1]>> : i \in 1 .. 1}
        BY <1>2 DEF SegmentConstraints
    <2>3. Walk(p, q, m) = w
        BY <1>2 DEF Walk
    <2> HIDE DEF w
    <2>4. \A i \in 1 .. 1 : i = 1 /\ i + 1 = 2
        OBVIOUS
    <2>5. Len(w) - 1 = 1
        BY <2>1
    <2>6. ASSUME NEW i \in 1 .. 1
          PROVE  (p <= q => w[i] <= w[i + 1]) /\ (p >= q => w[i] >= w[i + 1])
        <3>1. w[i] = p /\ w[i + 1] = q
            BY <2>1, <2>4
        <3> QED
            BY <3>1
    <2>7. /\ p <= q => \A i \in 1 .. Len(w) - 1 : w[i] <= w[i + 1]
          /\ p >= q => \A i \in 1 .. Len(w) - 1 : w[i] >= w[i + 1]
        BY <2>5, <2>6
    <2>8. /\ w \in Seq(Int) /\ Len(w) \in Nat /\ Len(w) >= 2
          /\ w[1] = p /\ w[Len(w)] = q
          /\ SegmentConstraints(p, q, m) = {<<w[i], w[i + 1]>> : i \in 1 .. Len(w) - 1}
        BY <2>1, <2>2, <2>5
    <2> QED
        BY <2>3, <2>7, <2>8
<1>3. CASE Long(p, q, m)
    <2> DEFINE s == Splits(p, q, m)
               n == Len(SplitPoints(p, q, m))
               w == Way(p, q, m)
               r(k) == Split(p, q, m, k)
    <2>1. /\ n \in Nat /\ w \in Seq(Lo .. Hi) /\ Len(w) = n + 2
          /\ w[1] = p /\ w[n + 2] = q
          /\ \A k \in 1 .. n : w[k + 1] = r(k)
          /\ SegmentConstraints(p, q, m) = {<<w[i], w[i + 1]>> : i \in 1 .. n + 1}
        BY <1>3, WayIs
    <2>2. s \in Nat \ {0}
        BY <1>1, <1>3, SplitsBounds
    <2>3. r(s) = q
        BY <1>1, <1>3, SplitIsEnd
    <2>4. n = s
        BY <1>1, <1>3, <2>3, SplitPointsAre DEF Inside
    <2>5. w \in Seq(Int)
        <3>1. Lo .. Hi \subseteq Int
            OBVIOUS
        <3> DEFINE Mesh == Lo .. Hi
        <3>2. w \in Seq(Mesh) /\ Mesh \subseteq Int
            BY <2>1, <3>1
        <3> HIDE DEF Mesh, w
        <3> QED
            BY <3>2, SeqOfSubset
    <2>6. \A k \in 1 .. s : r(k) \in Int
        BY <1>1, <1>3, SplitNear
    <2>7. ASSUME NEW k \in 2 .. s
          PROVE  (p <= q => r(k - 1) <= r(k)) /\ (p >= q => r(k - 1) >= r(k))
        <3> DEFINE a == p * s + (q - p) * (k - 1)
                   b == p * s + (q - p) * k
        <3>1. a \in Int /\ b \in Int /\ b = a + (q - p)
            BY <1>1, <2>2
        <3>2. r(k - 1) = Rounded(a, s) /\ r(k) = Rounded(b, s)
            BY DEF Split
        <3> HIDE DEF a, b, s, r
        <3>3. CASE p <= q
            <4>1. a <= b
                BY <1>1, <3>1, <3>3
            <4>2. Rounded(a, s) <= Rounded(b, s)
                BY <2>2, <3>1, <4>1, RoundedInOrder
            <4>3. ASSUME p >= q
                  PROVE  r(k - 1) >= r(k)
                <5>1. a = b
                    BY <1>1, <3>1, <3>3, <4>3
                <5>2. k \in 1 .. s /\ r(k) \in Int
                    BY <2>2, <2>6
                <5> QED
                    BY <3>2, <5>1, <5>2
            <4> QED
                BY <3>2, <4>2, <4>3
        <3>4. CASE p > q
            <4>1. b <= a
                BY <1>1, <3>1, <3>4
            <4>2. Rounded(b, s) <= Rounded(a, s)
                BY <2>2, <3>1, <4>1, RoundedInOrder
            <4>3. k \in 1 .. s /\ k - 1 \in 1 .. s
                BY <2>2
            <4>4. r(k) \in Int /\ r(k - 1) \in Int
                BY <2>6, <4>3
            <4> QED
                BY <1>1, <3>2, <3>4, <4>2, <4>4
        <3> QED
            BY <1>1, <3>3, <3>4
    <2>8. (p <= q => p <= r(1)) /\ (p >= q => p >= r(1))
        <3>1. CASE s = 1
            BY <2>3, <3>1
        <3>2. CASE s # 1
            <4>1. 1 \in 1 .. s - 1 /\ 1 \in 1 .. s
                BY <2>2, <3>2
            <4>2. (p < r(1) /\ r(1) < q) \/ (q < r(1) /\ r(1) < p)
                BY <1>1, <1>3, <4>1, SplitBetween
            <4>3. r(1) \in Int
                BY <2>6, <4>1
            <4> HIDE DEF r
            <4> QED
                BY <1>1, <4>2, <4>3
        <3> QED
            BY <3>1, <3>2
    <2> HIDE DEF s, n, w, r
    <2>9. ASSUME NEW i \in 1 .. n + 1
          PROVE  (p <= q => w[i] <= w[i + 1]) /\ (p >= q => w[i] >= w[i + 1])
        <3>1. CASE i = 1
            <4>1. w[i + 1] = r(1)
                BY <2>1, <2>2, <2>4, <3>1
            <4> QED
                BY <2>1, <2>8, <3>1, <4>1
        <3>2. CASE i = n + 1
            <4>1. w[i + 1] = q /\ n \in 1 .. n /\ w[n + 1] = r(n)
                BY <2>1, <2>2, <2>4, <3>2
            <4>2. w[i] = q
                BY <2>3, <2>4, <3>2, <4>1
            <4> QED
                BY <1>1, <4>1, <4>2
        <3>3. CASE i # 1 /\ i # n + 1
            <4>0. n \in Nat /\ i \in Nat /\ 1 <= i /\ i <= n + 1 /\ i # 1 /\ i # n + 1
                BY <2>1, <3>3
            <4>1. i - 1 \in 1 .. n /\ i \in 1 .. n /\ i \in 2 .. s /\ (i - 1) + 1 = i
                BY <2>4, <4>0
            <4>2. w[(i - 1) + 1] = r(i - 1) /\ w[i + 1] = r(i)
                BY <2>1, <4>1
            <4> QED
                BY <2>7, <4>1, <4>2
        <3> QED
            BY <3>1, <3>2, <3>3
    <2>10. Walk(p, q, m) = w
        BY <1>3 DEF Walk, w
    <2>11. Len(w) - 1 = n + 1 /\ Len(w) \in Nat /\ Len(w) >= 2
        BY <2>1
    <2> QED
        BY <2>1, <2>5, <2>9, <2>10, <2>11
<1> QED
    BY <1>2, <1>3

\* Its vertices lie between its ends, and none of them between two that are neighbours.
LEMMA WalkVertices ==
    ASSUME NEW p \in Lo .. Hi, NEW q \in Lo .. Hi, NEW m \in Nat, m >= Metre, q % Metre = 0,
           NEW c \in SegmentConstraints(p, q, m), NEW k \in SegmentConstraints(p, q, m)
    PROVE  /\ c[1] \in Int /\ c[2] \in Int /\ k[1] \in Int /\ k[2] \in Int
           /\ p <= q => p <= c[1] /\ c[1] <= c[2] /\ c[2] <= q
           /\ p >= q => p >= c[1] /\ c[1] >= c[2] /\ c[2] >= q
           /\ \A x \in {k[1], k[2]} : ~(c[1] < x /\ x < c[2]) /\ ~(c[2] < x /\ x < c[1])
<1> DEFINE w == Walk(p, q, m)
           n == Len(w)
<1>0. /\ w \in Seq(Int) /\ Len(w) \in Nat /\ Len(w) >= 2
      /\ w[1] = p /\ w[Len(w)] = q
      /\ SegmentConstraints(p, q, m) = {<<w[i], w[i + 1]>> : i \in 1 .. Len(w) - 1}
      /\ p <= q => \A i \in 1 .. Len(w) - 1 : w[i] <= w[i + 1]
      /\ p >= q => \A i \in 1 .. Len(w) - 1 : w[i] >= w[i + 1]
    <2> HIDE DEF w
    <2> QED
        BY WalkIs DEF w
<1> HIDE DEF w
<1>1. /\ w \in Seq(Int) /\ n \in Nat /\ n >= 2 /\ w[1] = p /\ w[n] = q
      /\ SegmentConstraints(p, q, m) = {<<w[i], w[i + 1]>> : i \in 1 .. n - 1}
      /\ p <= q => \A i \in 1 .. n - 1 : w[i] <= w[i + 1]
      /\ p >= q => \A i \in 1 .. n - 1 : w[i] >= w[i + 1]
    BY <1>0
<1>14. n = Len(w)
    OBVIOUS
<1> HIDE DEF n
<1>2. PICK i \in 1 .. n - 1 : c = <<w[i], w[i + 1]>>
    BY <1>1
<1>3. PICK j \in 1 .. n - 1 : k = <<w[j], w[j + 1]>>
    BY <1>1
<1>4. /\ i \in 1 .. n /\ i + 1 \in 1 .. n /\ j \in 1 .. n /\ j + 1 \in 1 .. n
      /\ 1 \in 1 .. n /\ n \in 1 .. n
    BY <1>1
<1>5. \A h \in 1 .. n : w[h] \in Int
    BY <1>1, <1>14
<1>6. p \in Int /\ q \in Int
    BY <1>1, <1>4, <1>5
<1>7. ASSUME NEW h \in 1 .. n, p <= q
      PROVE  p <= w[i] /\ w[i] <= w[i + 1] /\ w[i + 1] <= q /\ ~(w[i] < w[h] /\ w[h] < w[i + 1])
    <2>1. \A a, b \in 1 .. n : a <= b => w[a] <= w[b]
        BY <1>1, <1>14, <1>7, UpOverall
    <2>2. p <= w[i] /\ w[i] <= w[i + 1] /\ w[i + 1] <= q
        <3>0. n \in Nat
            BY <1>1
        <3>1. 1 <= i /\ i <= i + 1 /\ i + 1 <= n
            BY <3>0
        <3>2. w[1] <= w[i] /\ w[i] <= w[i + 1] /\ w[i + 1] <= w[n]
            BY <1>4, <2>1, <3>1
        <3> QED
            BY <1>1, <3>2
    <2>3. h <= i \/ i + 1 <= h
        BY <1>1
    <2>4. w[h] <= w[i] \/ w[i + 1] <= w[h]
        BY <1>4, <2>1, <2>3
    <2> QED
        BY <1>4, <1>5, <2>2, <2>4
<1>8. ASSUME NEW h \in 1 .. n, p >= q
      PROVE  p >= w[i] /\ w[i] >= w[i + 1] /\ w[i + 1] >= q /\ ~(w[i + 1] < w[h] /\ w[h] < w[i])
    <2>1. \A a, b \in 1 .. n : a <= b => w[a] >= w[b]
        BY <1>1, <1>14, <1>8, DownOverall
    <2>2. p >= w[i] /\ w[i] >= w[i + 1] /\ w[i + 1] >= q
        <3>0. n \in Nat
            BY <1>1
        <3>1. 1 <= i /\ i <= i + 1 /\ i + 1 <= n
            BY <3>0
        <3>2. w[1] >= w[i] /\ w[i] >= w[i + 1] /\ w[i + 1] >= w[n]
            BY <1>4, <2>1, <3>1
        <3> QED
            BY <1>1, <3>2
    <2>3. h <= i \/ i + 1 <= h
        BY <1>1
    <2>4. w[h] >= w[i] \/ w[i + 1] >= w[h]
        BY <1>4, <2>1, <2>3
    <2> QED
        BY <1>4, <1>5, <2>2, <2>4
<1>9. c[1] = w[i] /\ c[2] = w[i + 1] /\ k[1] = w[j] /\ k[2] = w[j + 1]
    BY <1>2, <1>3
<1>10. c[1] \in Int /\ c[2] \in Int /\ k[1] \in Int /\ k[2] \in Int
    BY <1>4, <1>5, <1>9
<1>11. p <= q \/ p >= q
    BY <1>6
<1>12. ASSUME NEW h \in 1 .. n
       PROVE  ~(c[1] < w[h] /\ w[h] < c[2]) /\ ~(c[2] < w[h] /\ w[h] < c[1])
    <2>1. w[h] \in Int
        BY <1>5
    <2>2. CASE p <= q
        <3>1. c[1] <= c[2] /\ ~(c[1] < w[h] /\ w[h] < c[2])
            BY <1>7, <1>9, <2>2
        <3> QED
            BY <1>10, <2>1, <3>1
    <2>3. CASE p >= q
        <3>1. c[1] >= c[2] /\ ~(c[2] < w[h] /\ w[h] < c[1])
            BY <1>8, <1>9, <2>3
        <3> QED
            BY <1>10, <2>1, <3>1
    <2> QED
        BY <1>11, <2>2, <2>3
<1>13. (p <= q => p <= c[1] /\ c[1] <= c[2] /\ c[2] <= q) /\ (p >= q => p >= c[1] /\ c[1] >= c[2] /\ c[2] >= q)
    BY <1>4, <1>7, <1>8, <1>9
<1> QED
    BY <1>4, <1>9, <1>10, <1>12, <1>13

\* No vertex of a way that goes straight on lies inside one of its pieces.
LEMMA NoneBetween ==
    ASSUME NEW W \in Seq(Nat), WholeMetre(W), Onward(W), NEW m \in Nat, m >= Metre,
           NEW c \in ContourConstraints(W, m), NEW k \in ContourConstraints(W, m)
    PROVE  /\ c[1] \in Lo .. Hi /\ c[2] \in Lo .. Hi
           /\ \A x \in {k[1], k[2]} : ~(c[1] < x /\ x < c[2]) /\ ~(c[2] < x /\ x < c[1])
<1> DEFINE n == Len(W)
<1>1. W \in Seq(Int)
    OBVIOUS
<1>2. \A i \in 1 .. n : W[i] \in Int /\ W[i] % Metre = 0
    BY DEF WholeMetre
<1>3. PICK i \in 1 .. n - 1 :
          /\ W[i] \in Lo .. Hi /\ W[i + 1] \in Lo .. Hi
          /\ c \in SegmentConstraints(W[i], W[i + 1], m)
    <2>1. PICK s \in Segments(W) : c \in SegmentConstraints(s[1], s[2], m)
        BY DEF ContourConstraints
    <2>2. PICK i \in 1 .. n - 1 : s = <<W[i], W[i + 1]>>
        BY DEF Segments
    <2>3. s[1] \in Lo .. Hi /\ s[2] \in Lo .. Hi
        BY SegmentsAre
    <2>4. s[1] = W[i] /\ s[2] = W[i + 1]
        BY <2>2
    <2> QED
        BY <2>1, <2>3, <2>4
<1>4. PICK j \in 1 .. n - 1 :
          /\ W[j] \in Lo .. Hi /\ W[j + 1] \in Lo .. Hi
          /\ k \in SegmentConstraints(W[j], W[j + 1], m)
    <2>1. PICK s \in Segments(W) : k \in SegmentConstraints(s[1], s[2], m)
        BY DEF ContourConstraints
    <2>2. PICK j \in 1 .. n - 1 : s = <<W[j], W[j + 1]>>
        BY DEF Segments
    <2>3. s[1] \in Lo .. Hi /\ s[2] \in Lo .. Hi
        BY SegmentsAre
    <2>4. s[1] = W[j] /\ s[2] = W[j + 1]
        BY <2>2
    <2> QED
        BY <2>1, <2>3, <2>4
<1>5. n \in Nat
    OBVIOUS
<1>6. i \in 1 .. n /\ i + 1 \in 1 .. n /\ j \in 1 .. n /\ j + 1 \in 1 .. n
    BY <1>5
<1>7. W[i + 1] % Metre = 0 /\ W[j + 1] % Metre = 0
    BY <1>2, <1>6
<1>8. c[1] \in Lo .. Hi /\ c[2] \in Lo .. Hi
    BY <1>3, SegmentInside
<1>9. /\ c[1] \in Int /\ c[2] \in Int /\ k[1] \in Int /\ k[2] \in Int
      /\ W[i] <= W[i + 1] => W[i] <= c[1] /\ c[1] <= c[2] /\ c[2] <= W[i + 1]
      /\ W[i] >= W[i + 1] => W[i] >= c[1] /\ c[1] >= c[2] /\ c[2] >= W[i + 1]
      /\ W[j] <= W[j + 1] => W[j] <= k[1] /\ k[1] <= k[2] /\ k[2] <= W[j + 1]
      /\ W[j] >= W[j + 1] => W[j] >= k[1] /\ k[1] >= k[2] /\ k[2] >= W[j + 1]
    <2>1. /\ c[1] \in Int /\ c[2] \in Int
          /\ W[i] <= W[i + 1] => W[i] <= c[1] /\ c[1] <= c[2] /\ c[2] <= W[i + 1]
          /\ W[i] >= W[i + 1] => W[i] >= c[1] /\ c[1] >= c[2] /\ c[2] >= W[i + 1]
        BY <1>3, <1>7, WalkVertices
    <2>2. /\ k[1] \in Int /\ k[2] \in Int
          /\ W[j] <= W[j + 1] => W[j] <= k[1] /\ k[1] <= k[2] /\ k[2] <= W[j + 1]
          /\ W[j] >= W[j + 1] => W[j] >= k[1] /\ k[1] >= k[2] /\ k[2] >= W[j + 1]
        BY <1>4, <1>7, WalkVertices
    <2> QED
        BY <2>1, <2>2
<1>10. /\ W[i] \in Int /\ W[i + 1] \in Int /\ W[j] \in Int /\ W[j + 1] \in Int
    BY <1>2, <1>6
<1>11. CASE i = j
    <2>1. \A x \in {k[1], k[2]} : ~(c[1] < x /\ x < c[2]) /\ ~(c[2] < x /\ x < c[1])
        BY <1>3, <1>4, <1>7, <1>11, WalkVertices
    <2> QED
        BY <1>8, <2>1
<1>12. CASE i # j
    <2>1. i + 1 <= j \/ j + 1 <= i
        BY <1>5, <1>12
    <2>2. CASE \A h \in 1 .. n - 1 : W[h] <= W[h + 1]
        <3>1. \A a, b \in 1 .. n : a <= b => W[a] <= W[b]
            <4> HIDE DEF n
            <4> QED
                BY <1>1, <2>2, UpOverall DEF n
        <3>2. W[i + 1] <= W[j] \/ W[j + 1] <= W[i]
            BY <1>6, <2>1, <3>1
        <3>3. W[i] <= W[i + 1] /\ W[j] <= W[j + 1]
            BY <2>2
        <3>4. /\ W[i] <= c[1] /\ c[1] <= c[2] /\ c[2] <= W[i + 1]
              /\ W[j] <= k[1] /\ k[1] <= k[2] /\ k[2] <= W[j + 1]
            BY <1>9, <3>3
        <3>5. /\ ~(c[1] < k[1] /\ k[1] < c[2]) /\ ~(c[2] < k[1] /\ k[1] < c[1])
              /\ ~(c[1] < k[2] /\ k[2] < c[2]) /\ ~(c[2] < k[2] /\ k[2] < c[1])
            <4> DEFINE c1 == c[1]
                       c2 == c[2]
                       k1 == k[1]
                       k2 == k[2]
                       wi == W[i]
                       wj == W[j]
                       wii == W[i + 1]
                       wjj == W[j + 1]
            <4>1. /\ c1 \in Int /\ c2 \in Int /\ k1 \in Int /\ k2 \in Int
                  /\ wi \in Int /\ wj \in Int /\ wii \in Int /\ wjj \in Int
                BY <1>9, <1>10
            <4>2. /\ wii <= wj \/ wjj <= wi
                  /\ wi <= c1 /\ c1 <= c2 /\ c2 <= wii /\ wj <= k1 /\ k1 <= k2 /\ k2 <= wjj
                BY <3>2, <3>4
            <4> HIDE DEF c1, c2, k1, k2, wi, wj, wii, wjj
            <4>3. /\ ~(c1 < k1 /\ k1 < c2) /\ ~(c2 < k1 /\ k1 < c1)
                  /\ ~(c1 < k2 /\ k2 < c2) /\ ~(c2 < k2 /\ k2 < c1)
                BY <4>1, <4>2
            <4> QED
                BY <4>3 DEF c1, c2, k1, k2
        <3>6. \A x \in {k[1], k[2]} : ~(c[1] < x /\ x < c[2]) /\ ~(c[2] < x /\ x < c[1])
            BY <3>5
        <3> QED
            BY <1>8, <3>6
    <2>3. CASE \A h \in 1 .. n - 1 : W[h] >= W[h + 1]
        <3>1. \A a, b \in 1 .. n : a <= b => W[a] >= W[b]
            <4> HIDE DEF n
            <4> QED
                BY <1>1, <2>3, DownOverall DEF n
        <3>2. W[i + 1] >= W[j] \/ W[j + 1] >= W[i]
            BY <1>6, <2>1, <3>1
        <3>3. W[i] >= W[i + 1] /\ W[j] >= W[j + 1]
            BY <2>3
        <3>4. /\ W[i] >= c[1] /\ c[1] >= c[2] /\ c[2] >= W[i + 1]
              /\ W[j] >= k[1] /\ k[1] >= k[2] /\ k[2] >= W[j + 1]
            BY <1>9, <3>3
        <3>5. /\ ~(c[1] < k[1] /\ k[1] < c[2]) /\ ~(c[2] < k[1] /\ k[1] < c[1])
              /\ ~(c[1] < k[2] /\ k[2] < c[2]) /\ ~(c[2] < k[2] /\ k[2] < c[1])
            <4> DEFINE c1 == c[1]
                       c2 == c[2]
                       k1 == k[1]
                       k2 == k[2]
                       wi == W[i]
                       wj == W[j]
                       wii == W[i + 1]
                       wjj == W[j + 1]
            <4>1. /\ c1 \in Int /\ c2 \in Int /\ k1 \in Int /\ k2 \in Int
                  /\ wi \in Int /\ wj \in Int /\ wii \in Int /\ wjj \in Int
                BY <1>9, <1>10
            <4>2. /\ wii >= wj \/ wjj >= wi
                  /\ wi >= c1 /\ c1 >= c2 /\ c2 >= wii /\ wj >= k1 /\ k1 >= k2 /\ k2 >= wjj
                BY <3>2, <3>4
            <4> HIDE DEF c1, c2, k1, k2, wi, wj, wii, wjj
            <4>3. /\ ~(c1 < k1 /\ k1 < c2) /\ ~(c2 < k1 /\ k1 < c1)
                  /\ ~(c1 < k2 /\ k2 < c2) /\ ~(c2 < k2 /\ k2 < c1)
                BY <4>1, <4>2
            <4> QED
                BY <4>3 DEF c1, c2, k1, k2
        <3>6. \A x \in {k[1], k[2]} : ~(c[1] < x /\ x < c[2]) /\ ~(c[2] < x /\ x < c[1])
            BY <3>5
        <3> QED
            BY <1>8, <3>6
    <2> QED
        BY <2>2, <2>3 DEF Onward
<1> QED
    BY <1>11, <1>12

\* Written with six digits, such a way is still one.
Six(way) == [j \in DOMAIN way |-> SixDigits(way[j])]

LEMMA SixIsOne ==
    ASSUME NEW way \in Seq(Nat), Onward(way)
    PROVE  Six(way) \in Seq(Nat) /\ WholeMetre(Six(way)) /\ Onward(Six(way))
<1> DEFINE n == Len(way)
           six == Six(way)
<1>1. n \in Nat /\ \A j \in 1 .. n : way[j] \in Nat
    OBVIOUS
<1>2. six = [j \in 1 .. n |-> SixDigits(way[j])]
    BY DEF Six
<1>3. \A j \in 1 .. n : SixDigits(way[j]) \in Nat /\ SixDigits(way[j]) % Metre = 0
    BY <1>1, SixDigitsNear
<1>4. six \in Seq(Nat) /\ Len(six) = n
    <2>1. six \in [1 .. n -> Nat]
        BY <1>2, <1>3
    <2> HIDE DEF six, n
    <2> QED
        BY <1>1, <2>1
<1>5. \A j \in 1 .. n : six[j] = SixDigits(way[j])
    BY <1>2
<1> HIDE DEF six
<1>6. WholeMetre(six)
    BY <1>3, <1>4, <1>5 DEF WholeMetre
<1>7. ASSUME NEW i \in 1 .. n - 1
      PROVE  /\ way[i] <= way[i + 1] => six[i] <= six[i + 1]
             /\ way[i] >= way[i + 1] => six[i] >= six[i + 1]
    <2>1. i \in 1 .. n /\ i + 1 \in 1 .. n
        BY <1>1
    <2>2. way[i] \in Nat /\ way[i + 1] \in Nat
        BY <1>1, <2>1
    <2>3. six[i] = SixDigits(way[i]) /\ six[i + 1] = SixDigits(way[i + 1])
        BY <1>5, <2>1
    <2>4. way[i] <= way[i + 1] => SixDigits(way[i]) <= SixDigits(way[i + 1])
        BY <2>2, SixDigitsInOrder
    <2>5. way[i + 1] <= way[i] => SixDigits(way[i + 1]) <= SixDigits(way[i])
        BY <2>2, SixDigitsInOrder
    <2>6. six[i] \in Nat /\ six[i + 1] \in Nat
        BY <1>3, <2>1, <2>3
    <2> QED
        BY <2>2, <2>3, <2>4, <2>5, <2>6
<1>8. Onward(six)
    BY <1>4, <1>7 DEF Onward
<1> QED
    BY <1>4, <1>6, <1>8 DEF six

LEMMA EmptyIsNotNil == <<>> # Nil
<1>1. <<>> \in Seq(Nat)
    OBVIOUS
<1> QED
    BY <1>1, NilAssumption

AllCached == \A f \in Features : \A c \in Chunks : cache[f][c] # Nil

\* What a run has passed is in the cache.
ProgressInv ==
    /\ status = "running" =>
        \A i \in 1 .. 3 : \A c \in Chunks :
            i < at \/ (i = at /\ (c < chunk \/ (c = chunk /\ todo # Nil)))
                => cache[Order[i]][c] # Nil
    /\ status = "ready" => AllCached

LEMMA WrittenIsFile ==
    ASSUME drawn \in Drawings, NEW f \in Features, NEW c \in Chunks
    PROVE  /\ Fetched(f, c) \in Seq(Seq(Nat)) /\ Fetched(f, c) # Nil
           /\ Written(Fetched(f, c)) \in Seq(Seq(Nat)) /\ Written(Fetched(f, c)) # Nil
BY FetchedFollows, WrittenFollows, NilAssumption

\* Nothing is taken out of the cache.
LEMMA CacheGrows ==
    ASSUME Types, [Next]_vars, NEW f \in Features, NEW c \in Chunks, cache[f][c] # Nil
    PROVE  cache'[f][c] # Nil
<1>1. CASE Load
    <2> DEFINE new == Written(Fetched(feature, chunk))
    <2>1. cache' = cache \/ (cache[feature][chunk] = Nil /\ cache' = [cache EXCEPT ![feature][chunk] = new])
        BY <1>1 DEF Load
    <2>2. cache \in [Features -> [Chunks -> Seq(Seq(Nat)) \cup {Nil}]]
        BY DEF Types
    <2> HIDE DEF new
    <2>3. cache'[f][c] = cache[f][c]
        BY <2>1, <2>2
    <2> QED
        BY <2>3
<1>2. CASE ~Load
    <2>1. cache' = cache
        BY <1>2 DEF Next, AddContourConstraint, Undefined, NextChunk, Rerun, Cross, vars
    <2> QED
        BY <2>1
<1> QED
    BY <1>1, <1>2

LEMMA ProgressNext == Types /\ ProgressInv /\ [Next]_vars => ProgressInv'
<1> SUFFICES ASSUME Types, ProgressInv, [Next]_vars PROVE ProgressInv'
    OBVIOUS
<1>1. drawn' = drawn
    BY DEF Next, Load, AddContourConstraint, Undefined, NextChunk, Rerun, Cross, vars
<1>2. Chunks' = Chunks
    BY <1>1, SameDrawn
<1>3. /\ feature \in Features /\ feature = Order[at] /\ at \in 1 .. 3 /\ chunk \in Chunks
      /\ Chunks = 1 .. Len(drawn[feature]) /\ Len(drawn[feature]) \in Nat \ {0}
      /\ cache \in [Features -> [Chunks -> Seq(Seq(Nat)) \cup {Nil}]]
    BY Constants, ShownType DEF Types, feature
<1>4. \A i \in 1 .. 3 : Order[i] \in Features
    BY Constants
<1>5. ASSUME status' = "running", NEW i \in 1 .. 3, NEW c \in Chunks,
             i < at' \/ (i = at' /\ (c < chunk' \/ (c = chunk' /\ todo' # Nil)))
      PROVE  cache'[Order[i]][c] # Nil
    <2>1. CASE Load
        <3>1. status = "running" /\ at' = at /\ chunk' = chunk
            BY <2>1 DEF Load
        <3>2. CASE i = at /\ c = chunk
            <4>1. Order[i] = feature
                BY <1>3, <3>2
            <4> DEFINE new == Written(Fetched(feature, chunk))
            <4>2. \/ cache[feature][chunk] # Nil
                  \/ cache' = [cache EXCEPT ![feature][chunk] = new]
                BY <2>1 DEF Load
            <4>3. new # Nil
                BY <1>3, WrittenIsFile DEF Types
            <4> HIDE DEF new
            <4>4. CASE cache[feature][chunk] # Nil
                BY <1>3, <3>2, <4>1, <4>4, CacheGrows
            <4>5. CASE cache' = [cache EXCEPT ![feature][chunk] = new]
                BY <1>3, <3>2, <4>1, <4>3, <4>5
            <4> QED
                BY <4>2, <4>4, <4>5
        <3>3. CASE ~(i = at /\ c = chunk)
            <4>1. cache[Order[i]][c] # Nil
                BY <1>5, <3>1, <3>3 DEF ProgressInv
            <4> QED
                BY <1>4, <4>1, CacheGrows
        <3> QED
            BY <3>2, <3>3
    <2>2. CASE NextChunk
        <3>1. status = "running" /\ todo = <<>> /\ todo' = Nil
            BY <2>2 DEF NextChunk
        <3>2. \/ chunk' = chunk + 1 /\ at' = at
              \/ chunk = Len(drawn[feature]) /\ at' = at + 1
            BY <1>5, <2>2 DEF NextChunk
        <3>3. todo # Nil
            BY <3>1, EmptyIsNotNil
        <3>4. c \in Nat /\ chunk \in Nat /\ c <= Len(drawn[feature])
            BY <1>3
        <3>5. i < at \/ (i = at /\ (c < chunk \/ (c = chunk /\ todo # Nil)))
            <4>1. at \in Nat /\ i \in Nat
                BY <1>3
            <4>2. i < at' \/ (i = at' /\ c < chunk')
                BY <1>5, <3>1
            <4>3. CASE chunk' = chunk + 1 /\ at' = at
                BY <3>3, <3>4, <4>1, <4>2, <4>3
            <4>4. CASE chunk = Len(drawn[feature]) /\ at' = at + 1
                <5>1. c <= chunk
                    BY <3>4, <4>4
                <5>2. chunk' = 1
                    BY <2>2, <4>1, <4>4 DEF NextChunk
                <5>3. c >= 1
                    BY <1>3
                <5> QED
                    BY <3>3, <3>4, <4>1, <4>2, <4>4, <5>1, <5>2, <5>3
            <4> QED
                BY <3>2, <4>3, <4>4
        <3>6. cache[Order[i]][c] # Nil
            BY <3>1, <3>5 DEF ProgressInv
        <3> QED
            BY <1>4, <3>6, CacheGrows
    <2>3. CASE AddContourConstraint \/ (\E p \in Crossings : Cross(p)) \/ UNCHANGED vars
        <3>1. at' = at /\ chunk' = chunk /\ status = "running" /\ (todo' # Nil => todo # Nil)
            BY <1>5, <2>3 DEF AddContourConstraint, Cross, vars
        <3>2. cache[Order[i]][c] # Nil
            BY <1>5, <3>1 DEF ProgressInv
        <3> QED
            BY <1>4, <3>2, CacheGrows
    <2>4. CASE Rerun
        <3>1. at' = 1 /\ chunk' = 1 /\ todo' = Nil
            BY <2>4 DEF Rerun
        <3>2. c >= 1 /\ c \in Nat
            BY <1>3
        <3> QED
            BY <1>5, <3>1, <3>2
    <2>5. CASE Undefined
        BY <1>5, <2>5 DEF Undefined
    <2> QED
        BY <2>1, <2>2, <2>3, <2>4, <2>5 DEF Next
<1>6. ASSUME status' = "ready", NEW f \in Features, NEW c \in Chunks
      PROVE  cache'[f][c] # Nil
    <2>1. CASE status = "ready"
        <3>1. cache[f][c] # Nil
            BY <2>1 DEF ProgressInv, AllCached
        <3> QED
            BY <3>1, CacheGrows
    <2>2. CASE status # "ready"
        <3>1. NextChunk
            BY <1>6, <2>2 DEF Next, Load, AddContourConstraint, Undefined, Rerun, Cross, vars
        <3>2. status = "running" /\ todo = <<>> /\ chunk = Len(drawn[feature]) /\ at = 3
            BY <1>6, <2>2, <3>1, Constants DEF NextChunk
        <3>3. todo # Nil
            BY <3>2, EmptyIsNotNil
        <3>4. PICK i \in 1 .. 3 : f = Order[i]
            BY Constants
        <3>5. i < at \/ (i = at /\ (c < chunk \/ (c = chunk /\ todo # Nil)))
            BY <1>3, <3>2, <3>3
        <3>6. cache[f][c] # Nil
            BY <3>2, <3>4, <3>5 DEF ProgressInv
        <3> QED
            BY <3>6, CacheGrows
    <2> QED
        BY <2>1, <2>2
<1>7. AllCached' <=> \A f \in Features : \A c \in Chunks : cache'[f][c] # Nil
    BY <1>2 DEF AllCached
<1> QED
    BY <1>2, <1>5, <1>6, <1>7 DEF ProgressInv

\* The only contour anywhere on the line, for all that is shown.
AloneInData(way) ==
    /\ WholeMetre(way) /\ Onward(way)
    /\ \A f \in Features : \A c \in DOMAIN drawn[f] :
        ToSet(Fetched(f, c)) \subseteq IF f = "paths" THEN {way} ELSE {}

Breaks(way) == ReadsNoSplitPoint(way, Limit["paths"])

\* What a run takes it from: itself, or what the cache has of it.  A way that cannot be
\* added ends the run, so that all that is ever added of it is from the cache; a way that
\* can be is in the cache for all chunks when the first run has ended.
Source(way) == IF Breaks(way) \/ runs > 1 THEN Six(way) ELSE way

LoneInv(way) ==
    AloneInData(way) =>
        /\ constraints \subseteq ContourConstraints(Source(way), Limit["paths"])
        /\ paths = {NormalizeSegmentOrder(c[1], c[2]) : c \in constraints}
        /\ crossed \subseteq vertices
        /\ vertices \subseteq {Lo, Hi} \cup crossed \cup UNION {{c[1], c[2]} : c \in constraints}
        /\ todo # Nil =>
              \A i \in DOMAIN todo :
                  feature = "paths" /\ (todo[i] = Source(way) \/ (todo[i] = way /\ Breaks(way)))
        /\ ~Breaks(way) => (runs > 1 => AllCached) /\ (runs = 1 => status # "undefined")

LEMMA LoneLoad ==
    ASSUME NearInv, NEW way \in Seq(Nat), AloneInData(way), LoneInv(way), Load,
           NEW i \in DOMAIN todo'
    PROVE  feature = "paths" /\ (todo'[i] = Source(way) \/ (todo'[i] = way /\ Breaks(way)))
<1> DEFINE F == Fetched(feature, chunk)
<1>1. Types /\ drawn \in Drawings /\ at \in 1 .. 3 /\ chunk \in Chunks /\ runs \in 1 .. MaxRuns
    BY DEF NearInv, Types
<1>2. feature \in Features /\ feature = Order[at] /\ chunk \in DOMAIN drawn[feature] /\ chunk \in Nat
    BY <1>1, Constants, ShownType, SMTT(30) DEF feature
<1>3. F \in Seq(Seq(Nat))
    BY <1>1, <1>2, FetchedFollows
<1>4. ToSet(F) \subseteq IF feature = "paths" THEN {way} ELSE {}
    BY <1>2 DEF AloneInData
<1>5. DOMAIN Written(F) = DOMAIN F /\
      \A k \in DOMAIN F : Written(F)[k] = [j \in DOMAIN F[k] |-> SixDigits(F[k][j])]
    BY DEF Written
<1>6. (cache[feature][chunk] # Nil /\ todo' = cache[feature][chunk]) \/ (cache[feature][chunk] = Nil /\ todo' = F)
    BY DEF Load
<1>7. status = "running" /\ todo = Nil
    BY DEF Load
<1>8. cache[feature][chunk] = Nil \/ cache[feature][chunk] = Written(F)
    BY <1>1, <1>2 DEF NearInv, CacheInv
<1> HIDE DEF F
<1>9. \A k \in DOMAIN F : feature = "paths" /\ F[k] = way
    BY <1>4 DEF ToSet
<1>10. CASE cache[feature][chunk] # Nil
    <2>1. todo' = Written(F)
        BY <1>6, <1>8, <1>10
    <2>2. i \in DOMAIN F /\ todo'[i] = [j \in DOMAIN F[i] |-> SixDigits(F[i][j])]
        BY <1>5, <2>1
    <2>3. feature = "paths" /\ F[i] = way
        BY <1>9, <2>2
    <2>4. todo'[i] = Six(way)
        BY <2>2, <2>3 DEF Six
    <2>5. runs # 1
        BY <1>1, <1>2, <1>7, <1>10 DEF NearInv, FirstRunInv
    <2>6. runs > 1
        BY <1>1, <2>5
    <2> QED
        BY <2>3, <2>4, <2>6 DEF Source
<1>11. CASE cache[feature][chunk] = Nil
    <2>1. todo' = F
        BY <1>6, <1>11
    <2>2. feature = "paths" /\ todo'[i] = way
        BY <1>9, <2>1
    <2>3. ~Breaks(way) => ~(runs > 1)
        BY <1>1, <1>2, <1>11 DEF LoneInv, AllCached
    <2> QED
        BY <2>2, <2>3 DEF Source
<1> QED
    BY <1>10, <1>11

LEMMA LoneNext ==
    ASSUME NearInv, ProgressInv, [Next]_vars, NEW way \in Seq(Nat), LoneInv(way)
    PROVE  LoneInv(way)'
<1>1. drawn' = drawn
    BY DEF Next, Load, AddContourConstraint, Undefined, NextChunk, Rerun, Cross, vars
<1>2. Chunks' = Chunks /\ (AloneInData(way)' <=> AloneInData(way))
    BY <1>1, SameDrawn DEF AloneInData
<1> SUFFICES ASSUME AloneInData(way)
             PROVE  (/\ constraints \subseteq ContourConstraints(Source(way), Limit["paths"])
                     /\ paths = {NormalizeSegmentOrder(c[1], c[2]) : c \in constraints}
                     /\ crossed \subseteq vertices
                     /\ vertices \subseteq {Lo, Hi} \cup crossed \cup UNION {{c[1], c[2]} : c \in constraints}
                     /\ todo # Nil =>
                           \A i \in DOMAIN todo :
                               feature = "paths" /\ (todo[i] = Source(way) \/ (todo[i] = way /\ Breaks(way)))
                     /\ ~Breaks(way) => (runs > 1 => AllCached) /\ (runs = 1 => status # "undefined"))'
    BY <1>2 DEF LoneInv
<1> DEFINE Added(W) == ContourConstraints(W, Limit["paths"])
           Ends(K) == UNION {{c[1], c[2]} : c \in K}
<1>3. /\ constraints \subseteq Added(Source(way))
      /\ paths = {NormalizeSegmentOrder(c[1], c[2]) : c \in constraints}
      /\ crossed \subseteq vertices
      /\ vertices \subseteq {Lo, Hi} \cup crossed \cup Ends(constraints)
      /\ todo # Nil =>
            \A i \in DOMAIN todo :
                feature = "paths" /\ (todo[i] = Source(way) \/ (todo[i] = way /\ Breaks(way)))
      /\ ~Breaks(way) => (runs > 1 => AllCached) /\ (runs = 1 => status # "undefined")
    BY DEF LoneInv
<1>4. Types /\ runs \in 1 .. MaxRuns
    BY DEF NearInv, Types
<1>5. Breaks(way)' <=> Breaks(way)
    BY DEF Breaks
<1>6. AllCached => AllCached'
    BY <1>2, <1>4, CacheGrows DEF AllCached
<1>7. CASE Rerun
    <2>1. constraints' = {} /\ paths' = {} /\ crossed' = {} /\ vertices' = {Lo, Hi} /\ todo' = Nil
        BY <1>7 DEF Rerun
    <2>2. runs' > 1 /\ status \in {"ready", "undefined"}
        BY <1>4, <1>7 DEF Rerun
    <2>3. ASSUME ~Breaks(way) PROVE AllCached
        <3>1. CASE status = "ready"
            BY <3>1 DEF ProgressInv
        <3>2. CASE status = "undefined"
            BY <1>3, <1>4, <2>3, <3>2
        <3> QED
            BY <2>2, <3>1, <3>2
    <2>4. ~Breaks(way) => (runs' > 1 => AllCached') /\ (runs' = 1 => status' # "undefined")
        BY <1>4, <1>6, <1>7, <2>2, <2>3 DEF Rerun
    <2> QED
        BY <1>5, <2>1, <2>4
<1>8. CASE ~Rerun
    <2>1. runs' = runs
        BY <1>8 DEF Next, Load, AddContourConstraint, Undefined, NextChunk, Cross, vars
    <2>2. Source(way)' = Source(way)
        BY <1>5, <2>1 DEF Source
    <2>3. ASSUME ~Breaks(way), runs = 1
          PROVE  status' # "undefined"
        <3>1. CASE Undefined
            <4>1. todo # Nil /\ todo # <<>> /\ ReadsNoSplitPoint(Head(todo), max)
                BY <3>1 DEF Undefined
            <4> DEFINE Contours_ == Seq(Nat)
            <4>2. todo \in Seq(Contours_)
                BY <1>4, <4>1 DEF Types
            <4> HIDE DEF Contours_
            <4>3. 1 \in DOMAIN todo /\ Head(todo) = todo[1]
                BY <4>1, <4>2
            <4>4. feature = "paths" /\ todo[1] = way
                BY <1>3, <2>3, <4>1, <4>3 DEF Source
            <4>5. Breaks(way)
                BY <4>1, <4>3, <4>4 DEF Breaks, max
            <4> QED
                BY <2>3, <4>5
        <3>2. CASE ~Undefined
            <4>1. status # "undefined"
                BY <1>3, <2>3
            <4> QED
                BY <3>2, <4>1 DEF Next, Load, AddContourConstraint, NextChunk, Rerun, Cross, vars
        <3> QED
            BY <3>1, <3>2
    <2>4. ~Breaks(way) => (runs' > 1 => AllCached') /\ (runs' = 1 => status' # "undefined")
        BY <1>3, <1>6, <2>1, <2>3
    <2>5. CASE AddContourConstraint
        <3> DEFINE new == ContourConstraints(Head(todo), max)
        <3>1. todo # Nil /\ 1 \in DOMAIN todo /\ Head(todo) = todo[1] /\ todo' = Tail(todo)
            BY <1>4, <2>5, AddFacts DEF AddContourConstraint
        <3>2. feature = "paths" /\ (todo[1] = Source(way) \/ (todo[1] = way /\ Breaks(way)))
            BY <1>3, <3>1
        <3>3. max = Limit["paths"]
            BY <3>2 DEF max
        <3>4. ~ReadsNoSplitPoint(Head(todo), max)
            BY <2>5 DEF AddContourConstraint
        <3>5. Head(todo) = Source(way)
            BY <3>1, <3>2, <3>3, <3>4 DEF Breaks
        <3>6. new = Added(Source(way))
            BY <3>3, <3>5
        <3>7. /\ vertices' = vertices \cup Ends(new)
              /\ constraints' = constraints \cup new
              /\ paths' = paths \cup {NormalizeSegmentOrder(c[1], c[2]) : c \in new}
              /\ feature' = feature /\ crossed' = crossed
            BY <2>5, <3>2 DEF AddContourConstraint, feature
        <3> HIDE DEF new
        <3>8. constraints' \subseteq Added(Source(way))
            <4> HIDE DEF Added
            <4> QED
                BY <1>3, <3>6, <3>7
        <3>9. /\ paths' = {NormalizeSegmentOrder(c[1], c[2]) : c \in constraints'}
              /\ crossed' \subseteq vertices'
            BY <1>3, <3>7
        <3>10. vertices' \subseteq {Lo, Hi} \cup crossed' \cup Ends(constraints')
            BY <1>3, <3>7
        <3>11. \A i \in DOMAIN todo' : i + 1 \in DOMAIN todo /\ todo'[i] = todo[i + 1]
            BY <1>4, <2>5, <3>1, AddFacts
        <3>12. \A i \in DOMAIN todo' :
                   feature' = "paths" /\ (todo'[i] = Source(way) \/ (todo'[i] = way /\ Breaks(way)))
            BY <1>3, <3>1, <3>7, <3>11
        <3> QED
            BY <1>5, <2>2, <2>4, <3>8, <3>9, <3>10, <3>12
    <2>6. CASE Load
        <3>1. UNCHANGED <<constraints, vertices, paths, crossed>> /\ feature' = feature
            BY <2>6 DEF Load, mesh, feature
        <3>2. \A i \in DOMAIN todo' :
                   feature = "paths" /\ (todo'[i] = Source(way) \/ (todo'[i] = way /\ Breaks(way)))
            BY <2>6, LoneLoad
        <3> QED
            BY <1>3, <1>5, <2>2, <2>4, <3>1, <3>2
    <2>7. CASE \E p \in Crossings : Cross(p)
        <3>1. PICK p \in Crossings : Cross(p)
            BY <2>7
        <3>2. /\ UNCHANGED <<constraints, paths, todo>> /\ feature' = feature
              /\ crossed' = crossed \cup {p} /\ vertices' = vertices \cup {p}
            BY <3>1 DEF Cross, feature
        <3>3. vertices' \subseteq {Lo, Hi} \cup crossed' \cup Ends(constraints')
            BY <1>3, <3>2
        <3> QED
            BY <1>3, <1>5, <2>2, <2>4, <3>2, <3>3
    <2>8. CASE NextChunk
        <3>1. UNCHANGED <<constraints, vertices, paths, crossed>> /\ todo' = Nil
            BY <2>8 DEF NextChunk, mesh
        <3> QED
            BY <1>3, <1>5, <2>2, <2>4, <3>1
    <2>9. CASE Undefined \/ UNCHANGED vars
        <3>1. UNCHANGED <<constraints, vertices, paths, crossed, todo>> /\ feature' = feature
            BY <2>9 DEF Undefined, vars, mesh, feature
        <3> QED
            BY <1>3, <1>5, <2>2, <2>4, <3>1
    <2> QED
        BY <1>8, <2>5, <2>6, <2>7, <2>8, <2>9 DEF Next
<1> QED
    BY <1>7, <1>8

\* A vertex inside a piece of such a way is one where something crosses it.
LEMMA OnlyCrossingsInside ==
    ASSUME Types, NEW W \in Seq(Nat), WholeMetre(W), Onward(W),
           constraints \subseteq ContourConstraints(W, Limit["paths"]),
           vertices \subseteq {Lo, Hi} \cup crossed \cup UNION {{c[1], c[2]} : c \in constraints},
           NEW k \in constraints
    PROVE  /\ k[1] \in Lo .. Hi /\ k[2] \in Lo .. Hi
           /\ \A c \in constraints : \A x \in {c[1], c[2]} : ~Divides(x, k)
           /\ \A x \in vertices : Divides(x, k) => x \in crossed
<1> DEFINE m == Limit["paths"]
<1>1. m \in Nat /\ m >= Metre /\ Lo \in Nat /\ Hi \in Nat
    BY Constants
<1>2. ASSUME NEW c \in constraints, NEW x \in {c[1], c[2]}
      PROVE  ~Divides(x, k)
    <2>1. c \in ContourConstraints(W, m) /\ k \in ContourConstraints(W, m)
        OBVIOUS
    <2> HIDE DEF m
    <2> QED
        BY <1>1, <1>2, <2>1, NoneBetween DEF Divides
<1>3. k[1] \in Lo .. Hi /\ k[2] \in Lo .. Hi
    <2>1. k \in ContourConstraints(W, m)
        OBVIOUS
    <2> HIDE DEF m
    <2> QED
        BY <1>1, <2>1, NoneBetween
<1>4. ASSUME NEW x \in vertices, Divides(x, k)
      PROVE  x \in crossed
    <2>1. x # Lo /\ x # Hi
        BY <1>1, <1>3, <1>4 DEF Divides
    <2>2. \A c \in constraints : x \notin {c[1], c[2]}
        BY <1>2, <1>4
    <2> QED
        BY <2>1, <2>2
<1> QED
    BY <1>2, <1>3, <1>4

\* The two ends of an edge are the two ends of a piece that covers it, unless one of them
\* divides the piece.
LEMMA CoveredIsPiece ==
    ASSUME NEW a \in Int, NEW b \in Int, a < b, NEW k, k[1] \in Int, k[2] \in Int, Covers(k, <<a, b>>)
    PROVE  \/ NormalizeSegmentOrder(k[1], k[2]) = <<a, b>>
           \/ Divides(a, k) \/ Divides(b, k)
BY DEF Covers, NormalizeSegmentOrder, Divides

\* A way that is alone on its line is a path in both directions, but for the pieces that
\* something crosses: its chains go straight on, so that an edge in a piece is all of the
\* piece, or ends where it is crossed, and `paths` has the pieces and nothing else; and all
\* of it comes from one source, the service or the cache.
THEOREM WholePiecesArePaths == Spec => []PathButWhereCrossed
<1> DEFINE LoneInvs == \A way \in Seq(Nat) : LoneInv(way)
           Inv == NearInv /\ ProgressInv /\ LoneInvs
<1>1. Init => Inv
    <2> SUFFICES ASSUME Init PROVE Inv
        OBVIOUS
    <2>1. NearInv
        BY NearInit
    <2>2. ProgressInv
        <3> SUFFICES ASSUME NEW i \in 1 .. 3, NEW c \in Chunks, i < 1 \/ (i = 1 /\ c < 1)
                     PROVE  FALSE
            BY DEF Init, ProgressInv
        <3>1. c \in Nat \ {0}
            BY <2>1, ShownType DEF NearInv, Types
        <3> QED
            BY <3>1
    <2>3. ASSUME NEW way \in Seq(Nat)
          PROVE  LoneInv(way)
        <3>1. /\ constraints = {} /\ paths = {} /\ crossed = {} /\ vertices = {Lo, Hi} /\ todo = Nil
              /\ runs = 1 /\ status = "running"
            BY DEF Init
        <3> QED
            BY <3>1 DEF LoneInv
    <2> QED
        BY <2>1, <2>2, <2>3
<1>2. Inv /\ [Next]_vars => Inv'
    <2> SUFFICES ASSUME Inv, [Next]_vars PROVE Inv'
        OBVIOUS
    <2>1. NearInv'
        BY NearInductive
    <2>2. ProgressInv'
        BY ProgressNext DEF NearInv
    <2>3. ASSUME NEW way \in Seq(Nat)
          PROVE  LoneInv(way)'
        BY LoneNext
    <2> QED
        BY <2>1, <2>2, <2>3
<1>3. Inv => PathButWhereCrossed
    <2> SUFFICES ASSUME Inv,
                        NEW c \in DOMAIN drawn["paths"], NEW way \in ToSet(Fetched("paths", c)),
                        AloneOnLine(way),
                        NEW k \in constraints, NEW e \in vertices \X vertices,
                        Adjacent(e), Covers(k, e)
                 PROVE  LET whole == ~\E p \in crossed : Divides(p, k)
                        IN  (Calculate(e[1], e[2]) <=> whole) /\ (Calculate(e[2], e[1]) <=> whole)
        BY DEF PathButWhereCrossed
    <2>1. Types /\ drawn \in Drawings /\ c \in Chunks /\ "paths" \in Features
        BY Constants DEF NearInv, Types, Chunks
    <2>2. way \in Seq(Nat)
        <3> DEFINE Contours_ == Seq(Nat)
        <3>1. Fetched("paths", c) \in Seq(Contours_)
            BY <2>1, FetchedFollows
        <3> HIDE DEF Contours_
        <3>2. way \in Contours_
            BY <3>1 DEF ToSet
        <3> QED
            BY <3>2 DEF Contours_
    <2>3. AloneInData(way)
        BY DEF AloneOnLine, AloneInData
    <2> DEFINE W == Source(way)
    <2>4. W \in Seq(Nat) /\ WholeMetre(W) /\ Onward(W)
        BY <2>2, <2>3, SixIsOne DEF Source, AloneInData
    <2>5. /\ constraints \subseteq ContourConstraints(W, Limit["paths"])
          /\ paths = {NormalizeSegmentOrder(x[1], x[2]) : x \in constraints}
          /\ crossed \subseteq vertices
          /\ vertices \subseteq {Lo, Hi} \cup crossed \cup UNION {{x[1], x[2]} : x \in constraints}
        <3>1. LoneInv(way)
            BY <2>2
        <3> QED
            BY <2>3, <3>1 DEF LoneInv
    <2> HIDE DEF W
    <2> DEFINE a == e[1]
               b == e[2]
    <2>6. e = <<a, b>> /\ a \in vertices /\ b \in vertices
        <3>1. e \in vertices \X vertices
            OBVIOUS
        <3> QED
            BY <3>1
    <2>7. a < b /\ ~\E v \in vertices : a < v /\ v < b
        BY DEF Adjacent
    <2>8. Covers(k, <<a, b>>)
        BY <2>6
    <2> HIDE DEF a, b
    <2>9. a \in Int /\ b \in Int /\ Lo \in Int /\ Hi \in Int
        BY <2>1, <2>6, Constants DEF Types
    <2>10. \A x \in constraints : x[1] \in Int /\ x[2] \in Int
        BY <2>1, <2>4, <2>5, <2>9, OnlyCrossingsInside
    <2>11. /\ \A x \in constraints : \A y \in {x[1], x[2]} : ~Divides(y, k)
           /\ \A x \in vertices : Divides(x, k) => x \in crossed
        BY <2>1, <2>4, <2>5, OnlyCrossingsInside
    <2> DEFINE whole == ~\E p \in crossed : Divides(p, k)
               whole_ == <<a, b>> \in paths
    <2>12. ASSUME whole PROVE whole_
        <3>1. ~Divides(a, k) /\ ~Divides(b, k)
            BY <2>6, <2>11, <2>12
        <3>2. NormalizeSegmentOrder(k[1], k[2]) = <<a, b>>
            BY <2>7, <2>8, <2>9, <2>10, <3>1, CoveredIsPiece
        <3> QED
            BY <2>5, <3>2
    <2>13. ASSUME whole_ PROVE whole
        <3> SUFFICES ASSUME NEW p \in crossed, Divides(p, k)
                     PROVE  FALSE
            OBVIOUS
        <3>1. PICK x \in constraints : NormalizeSegmentOrder(x[1], x[2]) = <<a, b>>
            BY <2>5, <2>13
        <3>2. {x[1], x[2]} = {a, b}
            BY <3>1 DEF NormalizeSegmentOrder
        <3>3. ~Divides(a, k) /\ ~Divides(b, k)
            BY <2>11, <3>2
        <3>4. NormalizeSegmentOrder(k[1], k[2]) = <<a, b>>
            BY <2>7, <2>8, <2>9, <2>10, <3>3, CoveredIsPiece
        <3>5. p \in vertices /\ p \in Int
            BY <2>1, <2>5, <2>9 DEF Types
        <3>6. a < p /\ p < b
            BY <2>9, <2>10, <3>4, <3>5 DEF NormalizeSegmentOrder, Divides
        <3> QED
            BY <2>7, <3>5, <3>6
    <2>14. NormalizeSegmentOrder(a, b) = <<a, b>> /\ NormalizeSegmentOrder(b, a) = <<a, b>>
        BY <2>7, <2>9 DEF NormalizeSegmentOrder
    <2>15. (Calculate(a, b) <=> whole_) /\ (Calculate(b, a) <=> whole_)
        BY <2>14 DEF Calculate
    <2> HIDE DEF whole, whole_
    <2>16. (Calculate(a, b) <=> whole) /\ (Calculate(b, a) <=> whole)
        BY <2>12, <2>13, <2>15
    <2> QED
        BY <2>16 DEF whole, a, b
<1> HIDE DEF Inv
<1> QED
    BY <1>1, <1>2, <1>3, PTL DEF Spec
=============================================================================
