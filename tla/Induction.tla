------------------------------ MODULE Induction ------------------------------
(***************************************************************************)
(* Induction over the naturals, with a set for the induction hypothesis    *)
(* where the library has an operator, and functions defined by iteration.  *)
(***************************************************************************)
EXTENDS Integers, WellFoundedInduction, TLAPS

\* A set of naturals has a least element.
LEMMA LeastNatural ==
    ASSUME NEW T, T \subseteq Nat, T # {}
    PROVE  \E n \in T : \A m \in T : n <= m
<1>1. PICK n \in T : \A m \in T : ~(<<m, n>> \in OpToRel(<, Nat))
    BY NatLessThanWellFounded, WFMin
<1>2. \A m \in T : m < n => <<m, n>> \in OpToRel(<, Nat)
    BY DEF OpToRel
<1>3. \A m \in T : ~(m < n)
    BY <1>1, <1>2
<1> QED
    BY <1>3

\* What 0 is, and with n also n + 1, every natural is.
LEMMA Induct ==
    ASSUME NEW S, 0 \in S, \A n \in Nat : n \in S => n + 1 \in S
    PROVE  Nat \subseteq S
<1> SUFFICES ASSUME Nat \ S # {}
             PROVE  FALSE
    OBVIOUS
<1>1. PICK n \in Nat \ S : \A m \in Nat \ S : n <= m
    BY LeastNatural
<1>2. n # 0 /\ n - 1 \in Nat
    OBVIOUS
<1>3. n - 1 \in S
    BY <1>1, <1>2
<1> QED
    BY <1>1, <1>2, <1>3

\* A function may be iterated any number of times.
LEMMA Iterates ==
    ASSUME NEW N \in Nat, NEW D, NEW A \in D, NEW G \in [D -> D]
    PROVE  \E r \in [0 .. N -> D] : r[0] = A /\ \A n \in 1 .. N : r[n] = G[r[n - 1]]
<1> DEFINE Iterate(r, k) == r \in [0 .. k -> D] /\ r[0] = A /\ \A n \in 1 .. k : r[n] = G[r[n - 1]]
           S == {k \in Nat : \E r : Iterate(r, k)}
<1>1. 0 \in S
    <2>1. Iterate([i \in 0 .. 0 |-> A], 0)
        OBVIOUS
    <2> QED
        BY <2>1
<1>2. ASSUME NEW k \in Nat, k \in S
      PROVE  k + 1 \in S
    <2>1. PICK r : Iterate(r, k)
        BY <1>2
    <2> DEFINE q == [i \in 0 .. k + 1 |-> IF i = k + 1 THEN G[r[k]] ELSE r[i]]
    <2>2. q \in [0 .. k + 1 -> D] /\ q[0] = A
        BY <2>1
    <2>3. ASSUME NEW n \in 1 .. k + 1
          PROVE  q[n] = G[q[n - 1]]
        BY <2>1
    <2>4. Iterate(q, k + 1)
        BY <2>2, <2>3
    <2> HIDE DEF q, Iterate
    <2> QED
        BY <2>4
<1> HIDE DEF S
<1>3. N \in S
    BY <1>1, <1>2, Induct
<1> QED
    BY <1>3 DEF S

\* A function on 0 .. N may be defined by recursion.
Recursion(N, D, A, G) ==
    CHOOSE r \in [0 .. N -> D] : r[0] = A /\ \A n \in 1 .. N : r[n] = G[n][r[n - 1]]
LEMMA Recurs ==
    ASSUME NEW N \in Nat, NEW D, NEW A \in D, NEW G \in [1 .. N -> [D -> D]]
    PROVE  /\ Recursion(N, D, A, G) \in [0 .. N -> D]
           /\ Recursion(N, D, A, G)[0] = A
           /\ \A n \in 1 .. N : Recursion(N, D, A, G)[n] = G[n][Recursion(N, D, A, G)[n - 1]]
<1> DEFINE Upto(r, k) ==
               r \in [0 .. k -> D] /\ r[0] = A /\ \A n \in 1 .. k : r[n] = G[n][r[n - 1]]
           S == {k \in Nat : k \in 0 .. N => \E r : Upto(r, k)}
<1>1. 0 \in S
    <2>1. Upto([i \in 0 .. 0 |-> A], 0)
        OBVIOUS
    <2> QED
        BY <2>1
<1>2. ASSUME NEW k \in Nat, k \in S
      PROVE  k + 1 \in S
    <2> SUFFICES ASSUME k + 1 \in 0 .. N
                 PROVE  \E r : Upto(r, k + 1)
        OBVIOUS
    <2>1. PICK r : Upto(r, k)
        BY <1>2
    <2> DEFINE x == G[k + 1][r[k]]
    <2>2. x \in D
        BY <2>1
    <2> HIDE DEF x
    <2> DEFINE q == [i \in 0 .. k + 1 |-> IF i = k + 1 THEN x ELSE r[i]]
    <2>3. q \in [0 .. k + 1 -> D] /\ q[0] = A
        BY <2>1, <2>2
    <2>4. ASSUME NEW n \in 1 .. k + 1
          PROVE  q[n] = G[n][q[n - 1]]
        <3>1. CASE n = k + 1
            BY <2>1, <3>1 DEF x
        <3>2. CASE n # k + 1
            BY <2>1, <3>2
        <3> QED
            BY <3>1, <3>2
    <2>5. Upto(q, k + 1)
        BY <2>3, <2>4
    <2> HIDE DEF q, Upto
    <2> QED
        BY <2>5
<1> HIDE DEF S
<1>3. N \in S
    BY <1>1, <1>2, Induct
<1>4. \E r \in [0 .. N -> D] : r[0] = A /\ \A n \in 1 .. N : r[n] = G[n][r[n - 1]]
    BY <1>3 DEF S
<1> QED
    BY <1>4 DEF Recursion
=============================================================================
