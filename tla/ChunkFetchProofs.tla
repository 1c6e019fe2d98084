--------------------------- MODULE ChunkFetchProofs ---------------------------
(***************************************************************************)
(* Proofs about ChunkFetch and the modules it extends, for any boundaries, *)
(* chunks and failures: type correctness, that the ends of a route are     *)
(* safe exactly from 80 metres on, that a feature reads its own chunk from *)
(* a file written through, and what is released and removed on every way.  *)
(***************************************************************************)
EXTENDS ChunkFetch, TLAPS

-----------------------------------------------------------------------------
(* The rectangle.                                                           *)

LEMMA LeastOfTwo ==
    ASSUME NEW a \in Int, NEW b \in Int
    PROVE  /\ Min({a, b}) \in {a, b} /\ Min({a, b}) <= a /\ Min({a, b}) <= b
           /\ Max({a, b}) \in {a, b} /\ Max({a, b}) >= a /\ Max({a, b}) >= b
<1>1. \E x \in {a, b} : \A y \in {a, b} : x <= y
    OBVIOUS
<1>2. \E x \in {a, b} : \A y \in {a, b} : x >= y
    OBVIOUS
<1> QED
    BY <1>1, <1>2 DEF Min, Max

LEMMA LeastOfFour ==
    ASSUME NEW a \in Int, NEW b \in Int, NEW c \in Int, NEW d \in Int,
           NEW S, S = {a, b, c, d}
    PROVE  Min(S) \in S /\ Max(S) \in S /\ \A x \in S : Min(S) <= x /\ x <= Max(S)
<1>1. \E x \in S : \A y \in S : x <= y
    <2>1. PICK m \in {a, b} : m <= a /\ m <= b
        OBVIOUS
    <2>2. PICK n \in {c, d} : n <= c /\ n <= d
        OBVIOUS
    <2>3. CASE m <= n
        BY <2>1, <2>2, <2>3
    <2>4. CASE n <= m
        BY <2>1, <2>2, <2>4
    <2> QED
        BY <2>1, <2>2, <2>3, <2>4
<1>2. \E x \in S : \A y \in S : x >= y
    <2>1. PICK m \in {a, b} : m >= a /\ m >= b
        OBVIOUS
    <2>2. PICK n \in {c, d} : n >= c /\ n >= d
        OBVIOUS
    <2>3. CASE m <= n
        BY <2>1, <2>2, <2>3
    <2>4. CASE n <= m
        BY <2>1, <2>2, <2>4
    <2> QED
        BY <2>1, <2>2, <2>3, <2>4
<1>3. Min(S) \in S /\ \A y \in S : Min(S) <= y
    BY <1>1 DEF Min
<1>4. Max(S) \in S /\ \A y \in S : Max(S) >= y
    BY <1>2 DEF Max
<1> QED
    BY <1>3, <1>4

LEMMA Quotients ==
    ASSUME NEW a \in Int, NEW n \in Nat \ {0}
    PROVE  a \div n \in Int
OBVIOUS

LEMMA BoundaryTypes ==
    ASSUME NEW b \in Boundaries
    PROVE  /\ b.source \in Point /\ b.target \in Point /\ b.distance \in Nat
           /\ Dx(b) \in Int /\ Dy(b) \in Int /\ Cos(b) \in Int /\ Scale(b) \in Nat \ {0}
           /\ Midpoint(b) \in Int \X Int /\ HalfWidth(b) \in Int /\ HalfHeight(b) \in Int
<1>1. b.source \in Point /\ b.target \in Point /\ b.distance \in Nat
    BY BoundaryAssumed DEF BoundaryAssumption
<1>2. Dx(b) \in Int /\ Dy(b) \in Int
    BY <1>1 DEF Dx, Dy, Point
<1>3. Cos(b) \in Int /\ Scale(b) \in Nat \ {0}
    BY <1>1, <1>2 DEF Cos, Scale
<1>4. Midpoint(b) \in Int \X Int
    BY <1>1, Quotients DEF Midpoint, Point
<1>5. HalfHeight(b) \in Int /\ Radius(b) \in Int
    BY <1>1, Quotients DEF HalfHeight, Radius
<1>6. HalfWidth(b) \in Int
    BY <1>1, <1>5, Quotients DEF HalfWidth
<1> QED
    BY <1>1, <1>2, <1>3, <1>4, <1>5, <1>6

LEMMA CornersAreWhole ==
    ASSUME NEW b \in Boundaries
    PROVE  /\ MinX(b) \in Int /\ MaxX(b) \in Int /\ MinY(b) \in Int /\ MaxY(b) \in Int
           /\ MinX(b) <= MaxX(b) /\ MinY(b) <= MaxY(b)
<1> DEFINE w == HalfWidth(b)
           h == HalfHeight(b)
           turned(i, j) == Rotated(b, i * w, j * h, 1)
           corner(i, j) == <<Midpoint(b)[1] + turned(i, j)[1] \div Scale(b),
                             Midpoint(b)[2] + turned(i, j)[2] \div Scale(b)>>
<1>1. ASSUME NEW x \in Int, NEW y \in Int
      PROVE  Rotated(b, x, y, 1) \in Int \X Int
    BY BoundaryTypes DEF Rotated
<1>2. \A i, j \in {-1, 1} : corner(i, j) \in Int \X Int
    <2> TAKE i, j \in {-1, 1}
    <2>1. i * w \in Int /\ j * h \in Int
        BY BoundaryTypes
    <2>2. turned(i, j) \in Int \X Int
        BY <1>1, <2>1
    <2> HIDE DEF turned
    <2>3. turned(i, j)[1] \div Scale(b) \in Int /\ turned(i, j)[2] \div Scale(b) \in Int
        BY <2>2, BoundaryTypes, Quotients
    <2> QED
        BY <2>3, BoundaryTypes
<1>3. Corners(b) = {corner(i, j) : i \in {-1, 1}, j \in {-1, 1}}
    BY DEF Corners
<1> HIDE DEF corner
<1>4. Corners(b) = {corner(-1, -1), corner(-1, 1), corner(1, -1), corner(1, 1)}
    BY <1>3
<1>5. ASSUME NEW k \in {1, 2}, NEW S, S = {c[k] : c \in Corners(b)}
      PROVE  Min(S) \in Int /\ Max(S) \in Int /\ Min(S) <= Max(S)
    <2>1. S = {corner(-1, -1)[k], corner(-1, 1)[k], corner(1, -1)[k], corner(1, 1)[k]}
        BY <1>4, <1>5
    <2>2. /\ corner(-1, -1)[k] \in Int /\ corner(-1, 1)[k] \in Int
          /\ corner(1, -1)[k] \in Int /\ corner(1, 1)[k] \in Int
        BY <1>2
    <2>3. Min(S) \in S /\ Max(S) \in S /\ \A x \in S : Min(S) <= x /\ x <= Max(S)
        BY <2>1, <2>2, LeastOfFour
    <2> QED
        BY <2>1, <2>2, <2>3
<1> QED
    BY <1>5 DEF MinX, MaxX, MinY, MaxY

LEMMA EndsAreWhole ==
    ASSUME boundary \in Boundaries, convergence \in Convergences
    PROVE  /\ MinLat \in Int /\ MaxLat \in Int /\ MinLng \in Int /\ MaxLng \in Int
           /\ MinLat <= MaxLat /\ MinLng <= MaxLng
<1>1. ASSUME NEW p \in Int \X Int
      PROVE  ToWgs84(p, convergence) \in Int \X Int
    <2>1. Unit \in Int /\ convergence \in Int /\ p[1] \in Int /\ p[2] \in Int
        BY TileAssumption
    <2> QED
        BY <2>1 DEF ToWgs84
<1> DEFINE upper == ToWgs84(GetUpperRightPoint(boundary), convergence)
           lower == ToWgs84(GetLowerLeftPoint(boundary), convergence)
<1>2. upper \in Int \X Int /\ lower \in Int \X Int
    <2>1. GetUpperRightPoint(boundary) \in Int \X Int /\ GetLowerLeftPoint(boundary) \in Int \X Int
        BY CornersAreWhole DEF GetUpperRightPoint, GetLowerLeftPoint
    <2> QED
        BY <1>1, <2>1
<1>3. Ends = {upper, lower}
    BY DEF Ends
<1> HIDE DEF upper, lower
<1>4. {e[1] : e \in Ends} = {upper[1], lower[1]} /\ {e[2] : e \in Ends} = {upper[2], lower[2]}
    BY <1>3
<1>5. upper[1] \in Int /\ upper[2] \in Int /\ lower[1] \in Int /\ lower[2] \in Int
    BY <1>2
<1>6. MinLat \in Int /\ MaxLat \in Int /\ MinLat <= MaxLat
    <2>1. Min({upper[1], lower[1]}) \in Int /\ Max({upper[1], lower[1]}) \in Int
          /\ Min({upper[1], lower[1]}) <= Max({upper[1], lower[1]})
        BY <1>5, LeastOfTwo
    <2> QED
        BY <1>4, <2>1 DEF MinLat, MaxLat
<1>7. MinLng \in Int /\ MaxLng \in Int /\ MinLng <= MaxLng
    <2>1. Min({upper[2], lower[2]}) \in Int /\ Max({upper[2], lower[2]}) \in Int
          /\ Min({upper[2], lower[2]}) <= Max({upper[2], lower[2]})
        BY <1>5, LeastOfTwo
    <2> QED
        BY <1>4, <2>1 DEF MinLng, MaxLng
<1> QED
    BY <1>6, <1>7

\* The squares of a line's sides, as they appear when an end is rotated.
LEMMA Squares ==
    ASSUME NEW a \in Int, NEW c \in Int, NEW k \in Int, k * k = a * a + c * c
    PROVE  /\ (4 * a) * (8 * a) + (4 * c) * (8 * c) = (8 * k) * (4 * k)
           /\ (-4 * a) * (8 * a) + (-4 * c) * (8 * c) = -((8 * k) * (4 * k))
           /\ (4 * c) * (8 * a) - (4 * a) * (8 * c) = 0
           /\ (-4 * c) * (8 * a) - (-4 * a) * (8 * c) = 0
<1> DEFINE A == a * a
           C == c * c
           K == k * k
           M == a * c
<1>1. A \in Int /\ C \in Int /\ K \in Int /\ M \in Int /\ K = A + C
    OBVIOUS
<1>2. /\ (4 * a) * (8 * a) = 32 * A /\ (4 * c) * (8 * c) = 32 * C
      /\ (-4 * a) * (8 * a) = -32 * A /\ (-4 * c) * (8 * c) = -32 * C
      /\ (8 * k) * (4 * k) = 32 * K
      /\ (4 * c) * (8 * a) = 32 * M /\ (4 * a) * (8 * c) = 32 * M
      /\ (-4 * c) * (8 * a) = -32 * M /\ (-4 * a) * (8 * c) = -32 * M
    OBVIOUS
<1> HIDE DEF A, C, K, M
<1> QED
    BY <1>1, <1>2

LEMMA Multiples ==
    ASSUME NEW n \in Int, n % 8 = 0
    PROVE  \E a \in Int : n = 8 * a
OBVIOUS

\* A rotated end lies half the distance off the midpoint, along the line.
LEMMA EndsSafe ==
    ASSUME Safe = 30, NEW b \in Boundaries, NEW s \in {-1, 1}, NEW p,
           p = IF s = -1 THEN b.source ELSE b.target
    PROVE  IsBoundedSafe(b, p) <=> b.distance >= 80
<1>1. /\ b.source \in Int \X Int /\ b.target \in Int \X Int /\ b.distance \in Nat
      /\ b.distance * b.distance = Dx(b) * Dx(b) + Dy(b) * Dy(b)
      /\ b.distance % 8 = 0 /\ Dx(b) % 8 = 0 /\ Dy(b) % 8 = 0
      /\ Dx(b) \in Int /\ Dy(b) \in Int
    BY BoundaryTypes, BoundaryAssumed DEF BoundaryAssumption, Point
<1>2. PICK k \in Nat : b.distance = 8 * k
    BY <1>1
<1>3. PICK a \in Int, c \in Int : Dx(b) = 8 * a /\ Dy(b) = 8 * c
    BY <1>1, Multiples
<1>4. k * k = a * a + c * c
    BY <1>1, <1>2, <1>3
<1>5. HalfWidth(b) = 7 * k /\ HalfHeight(b) = 6 * k
    BY <1>2 DEF HalfWidth, HalfHeight, Radius
<1>6. Midpoint(b) = <<b.source[1] + 4 * a, b.source[2] + 4 * c>>
      /\ Midpoint(b) = <<b.target[1] - 4 * a, b.target[2] - 4 * c>>
    <2> DEFINE sx == b.source[1]
               sy == b.source[2]
               tx == b.target[1]
               ty == b.target[2]
    <2>1. sx \in Int /\ sy \in Int /\ tx = sx + 8 * a /\ ty = sy + 8 * c
        BY <1>1, <1>3 DEF Dx, Dy
    <2>2. Midpoint(b) = <<(sx + tx) \div 2, (sy + ty) \div 2>>
        BY DEF Midpoint
    <2> HIDE DEF sx, sy, tx, ty
    <2>3. (sx + tx) \div 2 = sx + 4 * a /\ (sy + ty) \div 2 = sy + 4 * c
        BY <2>1
    <2>4. Midpoint(b) = <<sx + 4 * a, sy + 4 * c>> /\ Midpoint(b) = <<tx - 4 * a, ty - 4 * c>>
        BY <2>1, <2>2, <2>3
    <2> QED
        BY <2>4 DEF sx, sy, tx, ty
<1>7. p[1] - Midpoint(b)[1] = s * (4 * a) /\ p[2] - Midpoint(b)[2] = s * (4 * c)
    <2>1. CASE s = -1
        BY <1>1, <1>6, <2>1
    <2>2. CASE s = 1
        BY <1>1, <1>6, <2>2
    <2> QED
        BY <2>1, <2>2
<1> DEFINE x == s * (4 * a)
           y == s * (4 * c)
           r == Rotated(b, x, y, -1)
           W == Scale(b) * (HalfWidth(b) - Safe)
           H == Scale(b) * (HalfHeight(b) - Safe)
<1>8. IsBoundedSafe(b, p) <=> r[1] \in -W .. W /\ r[2] \in -H .. H
    BY <1>7 DEF IsBoundedSafe, Within
<1>9. CASE k = 0
    <2>1. a = 0 /\ c = 0
        <3>1. a * a >= 0 /\ c * c >= 0
            OBVIOUS
        <3>2. a * a = 0 /\ c * c = 0
            BY <1>4, <1>9, <3>1
        <3> QED
            BY <3>2
    <2>2. Scale(b) = 1 /\ r[1] = 0 /\ r[2] = 0
        BY <1>2, <1>3, <1>9, <2>1 DEF Scale, Cos, Rotated
    <2>3. W = -30
        BY <1>5, <1>9, <2>2
    <2> QED
        BY <1>2, <1>8, <1>9, <2>2, <2>3
<1>10. CASE k # 0
    <2>1. Scale(b) = 8 * k /\ Cos(b) = 8 * a
        BY <1>2, <1>3, <1>10 DEF Scale, Cos
    <2>2. r[1] = x * (8 * a) + y * (8 * c) /\ r[2] = y * (8 * a) - x * (8 * c)
        <3> DEFINE g == Dy(b)
                   e == Cos(b)
        <3>1. x \in Int /\ y \in Int /\ g = 8 * c /\ e = 8 * a
            BY <1>3, <2>1
        <3>2. r[1] = x * e - (-1) * y * g /\ r[2] = (-1) * x * g + y * e
            BY DEF Rotated
        <3> HIDE DEF x, y, r, g, e
        <3>3. g \in Int /\ e \in Int
            BY <3>1
        <3>4. (-1) * y * g = -(y * g) /\ (-1) * x * g = -(x * g)
            BY <3>1, <3>3
        <3>5. r[1] = x * e + y * g /\ r[2] = y * e - x * g
            BY <3>1, <3>2, <3>3, <3>4
        <3> QED
            BY <3>1, <3>5
    <2>3. r[1] = s * ((8 * k) * (4 * k)) /\ r[2] = 0
        <3>1. CASE s = 1
            BY <1>4, <2>2, <3>1, Squares
        <3>2. CASE s = -1
            <4>1. x = -4 * a /\ y = -4 * c
                BY <3>2
            <4> QED
                BY <1>4, <2>2, <3>2, <4>1, Squares
        <3> QED
            BY <3>1, <3>2
    <2>4. W = (8 * k) * (7 * k - 30) /\ H = (8 * k) * (6 * k - 30)
        BY <1>5, <2>1
    <2> HIDE DEF r, W, H
    <2>5. k >= 10 <=> (8 * k) * (4 * k) <= (8 * k) * (7 * k - 30)
        BY <1>10
    <2>6. k >= 10 => (8 * k) * (6 * k - 30) >= 0
        OBVIOUS
    <2>7. (8 * k) * (4 * k) >= 0
        OBVIOUS
    <2>8. r[1] \in -W .. W <=> (8 * k) * (4 * k) <= W
        <3> DEFINE q == (8 * k) * (4 * k)
        <3>1. q \in Int /\ q >= 0 /\ W \in Int /\ (r[1] = q \/ r[1] = -q)
            BY <2>3, <2>4, <2>7
        <3> HIDE DEF q
        <3>2. r[1] \in -W .. W <=> q <= W
            BY <3>1
        <3> QED
            BY <3>2 DEF q
    <2> QED
        BY <1>2, <1>8, <2>3, <2>4, <2>5, <2>6, <2>8
<1> QED
    BY <1>9, <1>10

-----------------------------------------------------------------------------
(* The rectangle lies in its box: rotated back, a bounded point is off the  *)
(* midpoint by no more than a corner is.                                    *)

Abs(n) == IF n < 0 THEN -n ELSE n

LEMMA ProductIsBounded ==
    ASSUME NEW n \in Int, NEW x \in Int, NEW m \in Int, -m <= x, x <= m
    PROVE  n * x <= Abs(n) * m /\ -(n * x) <= Abs(n) * m
<1>1. CASE n >= 0
    <2>1. n * (m - x) >= 0 /\ n * (m + x) >= 0
        BY <1>1
    <2>2. n * (m - x) = n * m - n * x /\ n * (m + x) = n * m + n * x
          /\ n * m \in Int /\ n * x \in Int
        OBVIOUS
    <2>3. Abs(n) = n
        BY <1>1 DEF Abs
    <2> QED
        BY <2>1, <2>2, <2>3
<1>2. CASE n < 0
    <2> DEFINE o == -n
    <2>1. o \in Nat /\ n = -o /\ Abs(n) = o
        BY <1>2 DEF Abs
    <2> HIDE DEF o
    <2>2. o * (m - x) >= 0 /\ o * (m + x) >= 0
        BY <2>1
    <2>3. o * (m - x) = o * m - o * x /\ o * (m + x) = o * m + o * x
          /\ o * m \in Int /\ o * x \in Int /\ n * x = -(o * x)
        BY <2>1
    <2> QED
        BY <2>1, <2>2, <2>3
<1> QED
    BY <1>1, <1>2

\* Of two rotated offsets, bounded by 7 and 6 times q, the unrotated ones.
LEMMA RotatedBack ==
    ASSUME NEW a \in Int, NEW c \in Int, NEW u \in Int, NEW v \in Int,
           NEW q \in Nat \ {0}, q = a * a + c * c,
           NEW x \in Int, x = u * a + v * c, -(7 * q) <= x, x <= 7 * q,
           NEW y \in Int, y = v * a - u * c, -(6 * q) <= y, y <= 6 * q
    PROVE  /\ u <= 7 * Abs(a) + 6 * Abs(c) /\ -u <= 7 * Abs(a) + 6 * Abs(c)
           /\ v <= 7 * Abs(c) + 6 * Abs(a) /\ -v <= 7 * Abs(c) + 6 * Abs(a)
<1> DEFINE A == Abs(a)
           C == Abs(c)
<1>1. A \in Nat /\ C \in Nat
    BY DEF Abs
<1>2. /\ a * x <= A * (7 * q) /\ -(a * x) <= A * (7 * q)
      /\ c * x <= C * (7 * q) /\ -(c * x) <= C * (7 * q)
      /\ a * y <= A * (6 * q) /\ -(a * y) <= A * (6 * q)
      /\ c * y <= C * (6 * q) /\ -(c * y) <= C * (6 * q)
    <2> DEFINE s == 7 * q
               t == 6 * q
    <2>1. s \in Int /\ -s <= x /\ x <= s /\ t \in Int /\ -t <= y /\ y <= t
        OBVIOUS
    <2> HIDE DEF s, t
    <2>2. a * x <= A * s /\ -(a * x) <= A * s /\ c * x <= C * s /\ -(c * x) <= C * s
        BY <2>1, ProductIsBounded
    <2>3. a * y <= A * t /\ -(a * y) <= A * t /\ c * y <= C * t /\ -(c * y) <= C * t
        BY <2>1, ProductIsBounded
    <2> QED
        BY <2>2, <2>3 DEF s, t
<1>3. u * q = a * x - c * y /\ v * q = c * x + a * y
    OBVIOUS
<1> HIDE DEF A, C
<1>4. /\ A * (7 * q) + C * (6 * q) = (7 * A + 6 * C) * q
      /\ C * (7 * q) + A * (6 * q) = (7 * C + 6 * A) * q
      /\ A * (7 * q) \in Int /\ C * (6 * q) \in Int /\ C * (7 * q) \in Int /\ A * (6 * q) \in Int
      /\ a * x \in Int /\ c * y \in Int /\ c * x \in Int /\ a * y \in Int
    BY <1>1
<1> DEFINE M == 7 * A + 6 * C
           N == 7 * C + 6 * A
<1>5. M \in Nat /\ N \in Nat
    BY <1>1
<1>6. /\ A * (7 * q) + C * (6 * q) = M * q /\ C * (7 * q) + A * (6 * q) = N * q
      /\ u * q \in Int /\ v * q \in Int /\ M * q \in Int /\ N * q \in Int
    BY <1>4, <1>5
<1> HIDE DEF M, N
<1>7. u * q <= M * q /\ -(u * q) <= M * q /\ v * q <= N * q /\ -(v * q) <= N * q
    BY <1>2, <1>3, <1>4, <1>6
<1>8. ASSUME NEW w \in Int, NEW m \in Int, w * q <= m * q
      PROVE  w <= m
    BY <1>8
<1>9. (-u) * q = -(u * q) /\ (-v) * q = -(v * q)
    OBVIOUS
<1>10. u <= M /\ -u <= M /\ v <= N /\ -v <= N
    BY <1>5, <1>7, <1>8, <1>9
<1> QED
    BY <1>10 DEF M, N, A, C

LEMMA Exact ==
    ASSUME NEW n \in Nat \ {0}, NEW m \in Int
    PROVE  (n * m) \div n = m
OBVIOUS

LEMMA CornersInBox ==
    ASSUME NEW b \in Boundaries, NEW e \in Corners(b)
    PROVE  /\ e[1] \in Int /\ e[2] \in Int
           /\ MinX(b) <= e[1] /\ e[1] <= MaxX(b) /\ MinY(b) <= e[2] /\ e[2] <= MaxY(b)
<1> DEFINE w == HalfWidth(b)
           h == HalfHeight(b)
           turned(i, j) == Rotated(b, i * w, j * h, 1)
           corner(i, j) == <<Midpoint(b)[1] + turned(i, j)[1] \div Scale(b),
                             Midpoint(b)[2] + turned(i, j)[2] \div Scale(b)>>
<1>1. ASSUME NEW x \in Int, NEW y \in Int
      PROVE  Rotated(b, x, y, 1) \in Int \X Int
    BY BoundaryTypes DEF Rotated
<1>2. \A i, j \in {-1, 1} : corner(i, j) \in Int \X Int
    <2> TAKE i, j \in {-1, 1}
    <2>1. i * w \in Int /\ j * h \in Int
        BY BoundaryTypes
    <2>2. turned(i, j) \in Int \X Int
        BY <1>1, <2>1
    <2> HIDE DEF turned
    <2>3. turned(i, j)[1] \div Scale(b) \in Int /\ turned(i, j)[2] \div Scale(b) \in Int
        BY <2>2, BoundaryTypes, Quotients
    <2> QED
        BY <2>3, BoundaryTypes
<1>3. Corners(b) = {corner(i, j) : i \in {-1, 1}, j \in {-1, 1}}
    BY DEF Corners
<1> HIDE DEF corner
<1>4. Corners(b) = {corner(-1, -1), corner(-1, 1), corner(1, -1), corner(1, 1)}
    BY <1>3
<1>5. ASSUME NEW k \in {1, 2}, NEW S, S = {d[k] : d \in Corners(b)}
      PROVE  e[k] \in Int /\ Min(S) <= e[k] /\ e[k] <= Max(S)
    <2>1. S = {corner(-1, -1)[k], corner(-1, 1)[k], corner(1, -1)[k], corner(1, 1)[k]}
        BY <1>4, <1>5
    <2>2. /\ corner(-1, -1)[k] \in Int /\ corner(-1, 1)[k] \in Int
          /\ corner(1, -1)[k] \in Int /\ corner(1, 1)[k] \in Int
        BY <1>2
    <2>3. Min(S) \in S /\ Max(S) \in S /\ \A x \in S : Min(S) <= x /\ x <= Max(S)
        BY <2>1, <2>2, LeastOfFour
    <2>4. e[k] \in S
        BY <1>5
    <2> QED
        BY <2>1, <2>2, <2>3, <2>4
<1> QED
    BY <1>5 DEF MinX, MaxX, MinY, MaxY

LEMMA BoundedInBox ==
    ASSUME NEW b \in Boundaries, NEW p \in Int \X Int, IsBounded(b, p)
    PROVE  p[1] \in MinX(b) .. MaxX(b) /\ p[2] \in MinY(b) .. MaxY(b)
<1>1. /\ b.distance \in Nat /\ b.distance % 8 = 0
      /\ b.distance * b.distance = Dx(b) * Dx(b) + Dy(b) * Dy(b)
      /\ Dx(b) % 8 = 0 /\ Dy(b) % 8 = 0 /\ Dx(b) \in Int /\ Dy(b) \in Int
    BY BoundaryTypes, BoundaryAssumed DEF BoundaryAssumption
<1>2. PICK k \in Nat : b.distance = 8 * k
    <2> DEFINE d == b.distance
    <2>0. d \in Int /\ d % 8 = 0
        BY <1>1
    <2> HIDE DEF d
    <2>1. PICK m \in Int : d = 8 * m
        BY <2>0, Multiples
    <2>2. m \in Nat
        BY <1>1, <2>1 DEF d
    <2> QED
        BY <2>1, <2>2 DEF d
<1>3. PICK a \in Int, c \in Int : Dx(b) = 8 * a /\ Dy(b) = 8 * c
    BY <1>1, Multiples
<1>4. k * k = a * a + c * c
    BY <1>1, <1>2, <1>3
<1>5. HalfWidth(b) = 7 * k /\ HalfHeight(b) = 6 * k
    BY <1>2 DEF HalfWidth, HalfHeight, Radius
<1> DEFINE mx == Midpoint(b)[1]
           my == Midpoint(b)[2]
           u == p[1] - mx
           v == p[2] - my
           turned(i, j) == Rotated(b, i * HalfWidth(b), j * HalfHeight(b), 1)
           corner(i, j) == <<mx + turned(i, j)[1] \div Scale(b), my + turned(i, j)[2] \div Scale(b)>>
<1>6. mx \in Int /\ my \in Int /\ u \in Int /\ v \in Int /\ p[1] = mx + u /\ p[2] = my + v
    BY BoundaryTypes
<1>7. \A i, j \in {-1, 1} : corner(i, j) \in Corners(b)
    BY DEF Corners
<1>8. /\ Rotated(b, u, v, -1)[1] \in -(Scale(b) * (7 * k)) .. Scale(b) * (7 * k)
      /\ Rotated(b, u, v, -1)[2] \in -(Scale(b) * (6 * k)) .. Scale(b) * (6 * k)
    <2>1. /\ Rotated(b, u, v, -1)[1] \in -Scale(b) * (7 * k - 0) .. Scale(b) * (7 * k - 0)
          /\ Rotated(b, u, v, -1)[2] \in -Scale(b) * (6 * k - 0) .. Scale(b) * (6 * k - 0)
        BY <1>5 DEF IsBounded, Within
    <2>2. 7 * k - 0 = 7 * k /\ 6 * k - 0 = 6 * k
        OBVIOUS
    <2>3. Scale(b) \in Int
        BY BoundaryTypes
    <2>4. -Scale(b) * (7 * k) = -(Scale(b) * (7 * k)) /\ -Scale(b) * (6 * k) = -(Scale(b) * (6 * k))
        BY <2>3
    <2> QED
        BY <2>1, <2>2, <2>4
<1> HIDE DEF mx, my, u, v
<1>9. CASE k = 0
    <2>1. a = 0 /\ c = 0
        <3>1. a * a >= 0 /\ c * c >= 0
            OBVIOUS
        <3>2. a * a = 0 /\ c * c = 0
            BY <1>4, <1>9, <3>1
        <3> QED
            BY <3>2
    <2>2. Scale(b) = 1 /\ Cos(b) = 1 /\ Dy(b) = 0
        BY <1>2, <1>3, <1>9, <2>1 DEF Scale, Cos
    <2>3. Rotated(b, u, v, -1) = <<u, v>> /\ Rotated(b, 1 * (7 * k), 1 * (6 * k), 1) = <<0, 0>>
        BY <1>6, <1>9, <2>2 DEF Rotated
    <2>4. u = 0 /\ v = 0
        BY <1>6, <1>8, <1>9, <2>2, <2>3
    <2>5. corner(1, 1) = <<mx, my>>
        BY <1>5, <1>6, <2>2, <2>3
    <2>6. <<mx, my>> \in Corners(b)
        BY <1>7, <2>5
    <2> QED
        BY <1>6, <2>4, <2>6, CornersInBox, CornersAreWhole
<1>10. CASE k # 0
    <2>1. Scale(b) = 8 * k /\ Cos(b) = 8 * a /\ Dy(b) = 8 * c
        BY <1>2, <1>3, <1>10 DEF Scale, Cos
    <2> DEFINE q == k * k
               x == u * a + v * c
               y == v * a - u * c
    <2>2. q \in Nat \ {0} /\ q = a * a + c * c
        BY <1>4, <1>10
    <2>3. x \in Int /\ y \in Int
        BY <1>6
    <2>4. Rotated(b, u, v, -1)[1] = 8 * x /\ Rotated(b, u, v, -1)[2] = 8 * y
        <3>1. Rotated(b, u, v, -1)[1] = u * (8 * a) - (-1) * v * (8 * c)
              /\ Rotated(b, u, v, -1)[2] = (-1) * u * (8 * c) + v * (8 * a)
            BY <2>1 DEF Rotated
        <3>2. u * (8 * a) - (-1) * v * (8 * c) = 8 * x
            BY <1>6
        <3>3. (-1) * u * (8 * c) + v * (8 * a) = 8 * y
            BY <1>6
        <3> QED
            BY <3>1, <3>2, <3>3
    <2>5. -(7 * q) <= x /\ x <= 7 * q /\ -(6 * q) <= y /\ y <= 6 * q
        <3>1. Scale(b) * (7 * k) = 56 * q /\ Scale(b) * (6 * k) = 48 * q
            BY <2>1
        <3> HIDE DEF q, x, y
        <3> QED
            BY <1>8, <2>2, <2>3, <2>4, <3>1
    <2>6. /\ u <= 7 * Abs(a) + 6 * Abs(c) /\ -u <= 7 * Abs(a) + 6 * Abs(c)
          /\ v <= 7 * Abs(c) + 6 * Abs(a) /\ -v <= 7 * Abs(c) + 6 * Abs(a)
        <3> HIDE DEF q
        <3> QED
            BY <1>6, <2>2, <2>3, <2>5, RotatedBack
    <2>7. ASSUME NEW i \in {-1, 1}, NEW j \in {-1, 1}
          PROVE  <<mx + (i * (7 * a) - j * (6 * c)), my + (i * (7 * c) + j * (6 * a))>> \in Corners(b)
        <3> DEFINE m == i * (7 * a) - j * (6 * c)
                   n == i * (7 * c) + j * (6 * a)
        <3>1. m \in Int /\ n \in Int
            OBVIOUS
        <3>2. turned(i, j) = <<(8 * k) * m, (8 * k) * n>>
            <4>1. turned(i, j) = <<(i * (7 * k)) * (8 * a) - 1 * (j * (6 * k)) * (8 * c),
                                   1 * (i * (7 * k)) * (8 * c) + (j * (6 * k)) * (8 * a)>>
                BY <1>5, <2>1 DEF Rotated
            <4>2. /\ (i * (7 * k)) * (8 * a) - 1 * (j * (6 * k)) * (8 * c) = (8 * k) * m
                  /\ 1 * (i * (7 * k)) * (8 * c) + (j * (6 * k)) * (8 * a) = (8 * k) * n
                <5>1. CASE i = 1 /\ j = 1
                    BY <5>1
                <5>2. CASE i = 1 /\ j = -1
                    BY <5>2
                <5>3. CASE i = -1 /\ j = 1
                    BY <5>3
                <5>4. CASE i = -1 /\ j = -1
                    BY <5>4
                <5> QED
                    BY <5>1, <5>2, <5>3, <5>4
            <4> QED
                BY <4>1, <4>2
        <3> HIDE DEF m, n, turned
        <3>3. turned(i, j)[1] \div Scale(b) = m /\ turned(i, j)[2] \div Scale(b) = n
            <4>1. 8 * k \in Nat \ {0}
                BY <1>10
            <4>2. ((8 * k) * m) \div (8 * k) = m /\ ((8 * k) * n) \div (8 * k) = n
                BY <3>1, <4>1, Exact
            <4> QED
                BY <2>1, <3>2, <4>2
        <3>4. corner(i, j) = <<mx + m, my + n>>
            BY <3>3
        <3> QED
            BY <1>7, <3>4 DEF m, n
    <2> DEFINE M == 7 * Abs(a) + 6 * Abs(c)
               N == 7 * Abs(c) + 6 * Abs(a)
    <2> HIDE DEF turned
    <2>8. (\E e \in Corners(b) : e[1] = mx + M) /\ (\E e \in Corners(b) : e[1] = mx - M)
        <3> DEFINE i == IF a < 0 THEN -1 ELSE 1
                   j == IF c < 0 THEN 1 ELSE -1
                   g == IF a < 0 THEN 1 ELSE -1
                   h == IF c < 0 THEN -1 ELSE 1
        <3>1. i \in {-1, 1} /\ j \in {-1, 1} /\ g \in {-1, 1} /\ h \in {-1, 1}
            OBVIOUS
        <3>2. i * (7 * a) - j * (6 * c) = M /\ g * (7 * a) - h * (6 * c) = -M
            BY DEF Abs
        <3> HIDE DEF i, j, g, h
        <3>3. <<mx + (i * (7 * a) - j * (6 * c)), my + (i * (7 * c) + j * (6 * a))>> \in Corners(b)
            BY <2>7, <3>1
        <3>4. <<mx + (g * (7 * a) - h * (6 * c)), my + (g * (7 * c) + h * (6 * a))>>
                  \in Corners(b)
            BY <2>7, <3>1
        <3>5. M \in Int
            BY DEF Abs
        <3> HIDE DEF M
        <3>6. mx + -M = mx - M
            BY <1>6, <3>5
        <3> QED
            BY <3>2, <3>3, <3>4, <3>6
    <2>9. (\E e \in Corners(b) : e[2] = my + N) /\ (\E e \in Corners(b) : e[2] = my - N)
        <3> DEFINE i == IF c < 0 THEN -1 ELSE 1
                   j == IF a < 0 THEN -1 ELSE 1
                   g == IF c < 0 THEN 1 ELSE -1
                   h == IF a < 0 THEN 1 ELSE -1
        <3>1. i \in {-1, 1} /\ j \in {-1, 1} /\ g \in {-1, 1} /\ h \in {-1, 1}
            OBVIOUS
        <3>2. i * (7 * c) + j * (6 * a) = N /\ g * (7 * c) + h * (6 * a) = -N
            BY DEF Abs
        <3> HIDE DEF i, j, g, h
        <3>3. <<mx + (i * (7 * a) - j * (6 * c)), my + (i * (7 * c) + j * (6 * a))>> \in Corners(b)
            BY <2>7, <3>1
        <3>4. <<mx + (g * (7 * a) - h * (6 * c)), my + (g * (7 * c) + h * (6 * a))>>
                  \in Corners(b)
            BY <2>7, <3>1
        <3>5. N \in Int
            BY DEF Abs
        <3> HIDE DEF N
        <3>6. my + -N = my - N
            BY <1>6, <3>5
        <3> QED
            BY <3>2, <3>3, <3>4, <3>6
    <2>10. M \in Int /\ N \in Int
        BY DEF Abs
    <2>11. MinX(b) <= mx - M /\ mx + M <= MaxX(b) /\ MinY(b) <= my - N /\ my + N <= MaxY(b)
        BY <2>8, <2>9, CornersInBox
    <2>12. u <= M /\ -u <= M /\ v <= N /\ -v <= N
        BY <2>6
    <2> HIDE DEF M, N
    <2> QED
        BY <1>6, <2>10, <2>11, <2>12, CornersAreWhole
<1> QED
    BY <1>9, <1>10

-----------------------------------------------------------------------------
(* The list of chunks: when it is returned, there is one to fetch.          *)

ListInv ==
    /\ boundary \in Boundaries /\ convergence \in Convergences /\ drift \in Drifts
    /\ lat \in Int /\ lng \in Int /\ listed \in BOOLEAN /\ chunks \in Seq(Int \X Int)
    /\ chunks = <<>> => lat = MinLat /\ lng = MinLng
    /\ listed => chunks # <<>>

LEMMA ListInitInv ==
    ASSUME ListInit
    PROVE  ListInv
<1>1. boundary \in Boundaries /\ convergence \in Convergences
    BY DEF ListInit
<1>2. MinLat \in Int /\ MinLng \in Int
    BY <1>1, EndsAreWhole
<1>3. /\ lat = MinLat /\ lng = MinLng /\ chunks = <<>> /\ listed = FALSE /\ drift \in Drifts
    BY DEF ListInit
<1>4. lat \in Int /\ lng \in Int
    BY <1>2, <1>3
<1>5. chunks \in Seq(Int \X Int)
    BY <1>3
<1> QED
    BY <1>1, <1>3, <1>4, <1>5 DEF ListInv

LEMMA ListStep ==
    ASSUME ListInv, GetRequiredChunks
    PROVE  ListInv' /\ ~listed
<1>0. /\ MinLat \in Int /\ MaxLat \in Int /\ MinLng \in Int /\ MaxLng \in Int
      /\ MinLat <= MaxLat /\ MinLng <= MaxLng /\ TileSize \in Nat \ {0, 1}
      /\ drift[1] \in Int /\ drift[2] \in Int
    BY EndsAreWhole, TileAssumption, SMTT(30) DEF ListInv
<1>1. UNCHANGED inputs /\ ~listed
    BY DEF GetRequiredChunks, Push, NextRow, ReturnList
<1>2. MinLat' = MinLat /\ MinLng' = MinLng
    BY <1>1 DEF MinLat, MinLng, Ends, inputs
<1>3. CASE Push
    <2>1. GetChunkInfo(<<lat, lng>>) \in Int \X Int
        BY <1>0, Quotients DEF GetChunkInfo, ListInv
    <2>2. chunks' \in Seq(Int \X Int) /\ chunks' # <<>>
        BY <1>3, <2>1 DEF Push, ListInv
    <2>3. boundary' \in Boundaries /\ convergence' \in Convergences /\ drift' \in Drifts
        BY <1>1 DEF ListInv, inputs
    <2>4. lat' = lat /\ listed' = FALSE /\ lng' = lng + TileSize + drift[2]
        BY <1>1, <1>3 DEF Push
    <2>5. lat' \in Int /\ lng' \in Int
        BY <1>0, <2>4 DEF ListInv
    <2> QED
        BY <1>1, <2>2, <2>3, <2>4, <2>5 DEF ListInv
<1>4. CASE NextRow
    <2>1. chunks # <<>>
        BY <1>0, <1>4 DEF NextRow, ListInv, Reached
    <2>2. boundary' \in Boundaries /\ convergence' \in Convergences /\ drift' \in Drifts
        BY <1>1 DEF ListInv, inputs
    <2>3. /\ lat' = lat + TileSize + drift[1] /\ lng' = MinLng
          /\ listed' = listed /\ chunks' = chunks
        BY <1>4 DEF NextRow
    <2>4. lat' \in Int /\ lng' \in Int
        BY <1>0, <2>3 DEF ListInv
    <2> QED
        BY <1>1, <2>1, <2>2, <2>3, <2>4 DEF ListInv
<1>5. CASE ReturnList
    <2>1. chunks # <<>>
        BY <1>0, <1>5 DEF ReturnList, ListInv, Reached
    <2>2. boundary' \in Boundaries /\ convergence' \in Convergences /\ drift' \in Drifts
        BY <1>1 DEF ListInv, inputs
    <2>3. lat' = lat /\ lng' = lng /\ listed' = TRUE /\ chunks' = chunks
        BY <1>5 DEF ReturnList
    <2> QED
        BY <1>1, <2>1, <2>2, <2>3 DEF ListInv
<1> QED
    BY <1>1, <1>3, <1>4, <1>5 DEF GetRequiredChunks

-----------------------------------------------------------------------------
(* The loops.  Row r and column k of the enumeration are reached after as   *)
(* many additions; what is listed by then is every earlier tile.            *)

Position(first, d, k) == first + k * (TileSize + d)
Turns(first, last, d) == (last - first + TileSize - 1) \div (TileSize + d) + 1

Rows   == Turns(MinLat, MaxLat, drift[1])
Cols   == Turns(MinLng, MaxLng, drift[2])
Row(i) == Position(MinLat, drift[1], i) \div TileSize
Col(j) == Position(MinLng, drift[2], j) \div TileSize
Tiles(r, k) ==
    {<<Row(i), Col(j)>> : i \in 0 .. r - 1, j \in 0 .. Cols - 1}
        \cup {<<Row(r), Col(j)>> : j \in 0 .. k - 1}

GridOf(r, k, y, x, list_) ==
    /\ y = Position(MinLat, drift[1], r) /\ x = Position(MinLng, drift[2], k)
    /\ r = Rows => k = 0
    /\ {list_[i] : i \in DOMAIN list_} = Tiles(r, k)
    /\ ~Rounded => \A i, j \in DOMAIN list_ : i # j => list_[i] # list_[j]

GridInv == \E r \in 0 .. Rows, k \in 0 .. Cols : GridOf(r, k, lat, lng, chunks)

LEMMA NextPosition ==
    ASSUME NEW first \in Int, NEW d \in Int, NEW k \in Nat
    PROVE  Position(first, d, k + 1) = Position(first, d, k) + TileSize + d
<1> DEFINE s == TileSize + d
<1>1. TileSize \in Int /\ s \in Int
    BY TileAssumption
<1>2. Position(first, d, k + 1) = first + (k + 1) * s /\ Position(first, d, k) = first + k * s
    BY DEF Position
<1>3. s = TileSize + d
    OBVIOUS
<1> HIDE DEF s
<1>4. (k + 1) * s = k * s + s /\ k * s \in Int
    BY <1>1
<1> QED
    BY <1>1, <1>2, <1>3, <1>4

\* A loop makes as many turns as the formula says.
LEMMA TurnsAre ==
    ASSUME NEW first \in Int, NEW last \in Int, first <= last, NEW d \in -1 .. 1
    PROVE  /\ Turns(first, last, d) \in Nat \ {0}
           /\ \A k \in Nat : Position(first, d, k) \in Int
           /\ \A k \in Nat : Reached(Position(first, d, k), last) <=> k < Turns(first, last, d)
<1> DEFINE s == TileSize + d
           m == last - first + TileSize - 1
           q == m \div s
<1>1. TileSize \in Nat \ {0, 1} /\ s \in Nat \ {0} /\ m \in Nat /\ last = first + m + 1 - TileSize
    BY TileAssumption
<1>2. Turns(first, last, d) = q + 1
    BY DEF Turns
<1> HIDE DEF s, m
<1>3. q \in Nat /\ q * s <= m /\ m < q * s + s
    BY <1>1
<1> HIDE DEF q
<1>4. ASSUME NEW k \in Nat
      PROVE  k * s \in Int /\ (k * s <= m <=> k <= q)
    <2>1. CASE k <= q
        <3>1. PICK i \in Nat : q = k + i
            BY <1>3, <2>1
        <3>2. q * s = k * s + i * s /\ i * s \in Nat /\ k * s \in Nat
            BY <1>1, <3>1
        <3> QED
            BY <1>1, <1>3, <2>1, <3>2
    <2>2. CASE k > q
        <3>1. PICK i \in Nat : k = q + 1 + i
            <4>1. k - q - 1 \in Nat /\ k = q + 1 + (k - q - 1)
                BY <1>3, <2>2
            <4> QED
                BY <4>1
        <3>2. k * s = q * s + s + i * s /\ i * s \in Nat /\ q * s \in Nat
            BY <1>1, <1>3, <3>1
        <3> QED
            BY <1>1, <1>3, <2>2, <3>2
    <2> QED
        BY <1>3, <2>1, <2>2
<1>5. ASSUME NEW k \in Nat
      PROVE  /\ Position(first, d, k) \in Int
             /\ Reached(Position(first, d, k), last) <=> k < q + 1
    <2>1. Position(first, d, k) = first + k * s
        BY DEF Position, s
    <2> DEFINE z == k * s
    <2>2. z \in Int /\ (z <= m <=> k <= q)
        BY <1>4
    <2>3. Position(first, d, k) = first + z
        BY <2>1
    <2> HIDE DEF z
    <2> QED
        BY <1>1, <1>3, <2>2, <2>3 DEF Reached
<1> QED
    BY <1>2, <1>3, <1>5

\* Unless it begins near a tile's edge, a loop comes to one tile after another.
LEMMA InStep ==
    ASSUME NEW first \in Int, NEW last \in Int, first <= last, NEW d \in -1 .. 1,
           ~AtEdge(first, last, d), NEW k \in Nat, k <= Turns(first, last, d)
    PROVE  Position(first, d, k) \div TileSize = first \div TileSize + k
<1> DEFINE t == TileSize
           a == first \div t
           o == first % t
           slack == Strayed(first, last, d)
<1>1. t \in Nat \ {0, 1}
    BY TileAssumption
<1>2. a \in Int /\ o \in 0 .. t - 1 /\ first = a * t + o
    BY <1>1
<1>3. o >= slack /\ o < t - slack
    <2>1. slack \in Int
        BY <1>1 DEF Strayed
    <2> QED
        BY <1>1, <1>2, <2>1 DEF AtEdge
<1>4. CASE d = 0
    <2>1. Position(first, d, k) = (a + k) * t + o
        BY <1>1, <1>2, <1>4 DEF Position
    <2> HIDE DEF a, o, t
    <2>2. ((a + k) * t + o) \div t = a + k
        <3> DEFINE b == a + k
        <3>1. b \in Int
            BY <1>2
        <3> HIDE DEF b
        <3>2. (b * t + o) \div t = b
            BY <1>1, <1>2, <3>1
        <3> QED
            BY <3>2 DEF b
    <2> QED
        BY <2>1, <2>2 DEF a, t
<1>5. CASE d # 0
    <2>1. k <= slack
        <3> DEFINE D == last - first
                   u == D \div (t - 1)
                   v == (D + t - 1) \div (t + d)
        <3>1. D \in Nat /\ slack = u + 2 /\ Turns(first, last, d) = v + 1
            BY <1>5 DEF Strayed, Turns
        <3> HIDE DEF D
        <3>2. u \in Nat /\ D < u * (t - 1) + (t - 1)
            <4> DEFINE w == t - 1
            <4>1. w \in Nat \ {0} /\ u = D \div w
                BY <1>1 DEF u
            <4> HIDE DEF w, u
            <4>2. u \in Nat /\ D < u * w + w
                BY <3>1, <4>1
            <4> QED
                BY <4>2 DEF w
        <3>3. v \in Nat /\ v * (t + d) <= D + t - 1
            BY <1>1, <3>1
        <3> HIDE DEF u, v
        <3>4. v * (t - 1) <= v * (t + d)
            <4>1. v * (t + d) = v * (t - 1) + v * (d + 1) /\ v * (d + 1) \in Nat /\ v * (t - 1) \in Nat
                BY <1>1, <3>3
            <4> QED
                BY <1>1, <3>3, <4>1
        <3>5. v <= u + 1
            <4> SUFFICES ASSUME v >= u + 2
                         PROVE  FALSE
                BY <3>2, <3>3
            <4>1. PICK i \in Nat : v = u + 2 + i
                <5>1. v - u - 2 \in Nat /\ v = u + 2 + (v - u - 2)
                    BY <3>2, <3>3
                <5> QED
                    BY <5>1
            <4> DEFINE w == t - 1
            <4>2. w \in Nat
                BY <1>1
            <4>3. D < u * w + w /\ v * w <= D + w
                <5>1. v * (t + d) \in Int /\ v * (t - 1) \in Int
                    BY <1>1, <3>3
                <5> QED
                    BY <1>1, <3>1, <3>2, <3>3, <3>4, <5>1
            <4> HIDE DEF w
            <4>4. v * w = u * w + w + w + i * w /\ i * w \in Nat /\ u * w \in Nat
                BY <3>2, <4>1, <4>2
            <4> QED
                BY <3>1, <4>2, <4>3, <4>4
        <3> QED
            BY <3>1, <3>2, <3>3, <3>5
    <2>2. Position(first, d, k) = (a + k) * t + (o + k * d)
        BY <1>1, <1>2 DEF Position
    <2>3. o + k * d \in 0 .. t - 1
        <3>1. slack \in Int
            BY <1>1 DEF Strayed
        <3>2. k * d = k \/ k * d = -k
            BY <1>5
        <3> QED
            BY <1>1, <1>2, <1>3, <2>1, <3>1, <3>2
    <2> DEFINE b == a + k
               e == o + k * d
    <2>4. b \in Int /\ e \in 0 .. t - 1 /\ Position(first, d, k) = b * t + e
        BY <1>2, <2>2, <2>3
    <2> HIDE DEF b, e, t
    <2>5. (b * t + e) \div t = b
        BY <1>1, <2>4
    <2> QED
        BY <2>4, <2>5 DEF b, t
<1> QED
    BY <1>4, <1>5

LEMMA GridConstants ==
    ASSUME ListInv
    PROVE  /\ drift[1] \in -1 .. 1 /\ drift[2] \in -1 .. 1
           /\ MinLat \in Int /\ MaxLat \in Int /\ MinLat <= MaxLat
           /\ MinLng \in Int /\ MaxLng \in Int /\ MinLng <= MaxLng
           /\ Rows \in Nat \ {0} /\ Cols \in Nat \ {0}
           /\ \A i \in Nat : Reached(Position(MinLat, drift[1], i), MaxLat) <=> i < Rows
           /\ \A j \in Nat : Reached(Position(MinLng, drift[2], j), MaxLng) <=> j < Cols
           /\ ~Rounded => \A i \in 0 .. Rows : Row(i) = MinLat \div TileSize + i
           /\ ~Rounded => \A j \in 0 .. Cols : Col(j) = MinLng \div TileSize + j
<1>1. /\ drift[1] \in -1 .. 1 /\ drift[2] \in -1 .. 1
      /\ MinLat \in Int /\ MaxLat \in Int /\ MinLat <= MaxLat
      /\ MinLng \in Int /\ MaxLng \in Int /\ MinLng <= MaxLng
    BY EndsAreWhole, TileAssumption DEF ListInv
<1>2. /\ Rows \in Nat \ {0}
      /\ \A i \in Nat : Reached(Position(MinLat, drift[1], i), MaxLat) <=> i < Rows
    BY <1>1, TurnsAre DEF Rows
<1>3. /\ Cols \in Nat \ {0}
      /\ \A j \in Nat : Reached(Position(MinLng, drift[2], j), MaxLng) <=> j < Cols
    BY <1>1, TurnsAre DEF Cols
<1>4. ASSUME ~Rounded, NEW i \in 0 .. Rows
      PROVE  Row(i) = MinLat \div TileSize + i
    <2>1. ~AtEdge(MinLat, MaxLat, drift[1]) /\ i \in Nat /\ i <= Turns(MinLat, MaxLat, drift[1])
        BY <1>2, <1>4 DEF Rounded, Rows
    <2> QED
        BY <1>1, <2>1, InStep DEF Row
<1>5. ASSUME ~Rounded, NEW j \in 0 .. Cols
      PROVE  Col(j) = MinLng \div TileSize + j
    <2>1. ~AtEdge(MinLng, MaxLng, drift[2]) /\ j \in Nat /\ j <= Turns(MinLng, MaxLng, drift[2])
        BY <1>3, <1>5 DEF Rounded, Cols
    <2> QED
        BY <1>1, <2>1, InStep DEF Col
<1> QED
    BY <1>1, <1>2, <1>3, <1>4, <1>5

LEMMA GridInit ==
    ASSUME ListInit
    PROVE  GridInv
<1>1. ListInv
    BY ListInitInv
<1>2. Rows \in Nat \ {0} /\ Cols \in Nat \ {0} /\ MinLat \in Int /\ MinLng \in Int
      /\ drift[1] \in Int /\ drift[2] \in Int /\ TileSize \in Int
    BY <1>1, GridConstants, TileAssumption
<1>3. Position(MinLat, drift[1], 0) = MinLat /\ Position(MinLng, drift[2], 0) = MinLng
    BY <1>2 DEF Position
<1>4. Tiles(0, 0) = {}
    BY DEF Tiles
<1>5. lat = MinLat /\ lng = MinLng /\ chunks = <<>>
    BY DEF ListInit
<1>6. GridOf(0, 0, lat, lng, chunks)
    <2>1. DOMAIN chunks = {}
        BY <1>5
    <2> QED
        BY <1>2, <1>3, <1>4, <1>5, <2>1 DEF GridOf
<1> QED
    BY <1>2, <1>6 DEF GridInv

\* What is said of the grid depends on nothing but the inputs.
LEMMA SameGrid ==
    ASSUME UNCHANGED inputs
    PROVE  /\ Rows' = Rows /\ Cols' = Cols
           /\ \A r, k, y, x, s : GridOf(r, k, y, x, s)' <=> GridOf(r, k, y, x, s)
<1>1. boundary' = boundary /\ convergence' = convergence /\ drift' = drift
    BY DEF inputs
<1>2. MinLat' = MinLat /\ MaxLat' = MaxLat /\ MinLng' = MinLng /\ MaxLng' = MaxLng
    BY <1>1 DEF MinLat, MaxLat, MinLng, MaxLng, Ends
<1>3. Rows' = Rows /\ Cols' = Cols /\ (Rounded' <=> Rounded)
    BY <1>1, <1>2 DEF Rows, Cols, Rounded
<1>4. \A i : Row(i)' = Row(i) /\ Col(i)' = Col(i)
    BY <1>1, <1>2 DEF Row, Col
<1>5. \A r, k : Tiles(r, k)' = Tiles(r, k)
    BY <1>3, <1>4 DEF Tiles
<1> QED
    BY <1>1, <1>2, <1>3, <1>5 DEF GridOf

LEMMA GridStep ==
    ASSUME ListInv, GridInv, GetRequiredChunks
    PROVE  GridInv'
<1>1. UNCHANGED inputs
    BY DEF GetRequiredChunks, Push, NextRow, ReturnList
<1>2. PICK r \in 0 .. Rows, k \in 0 .. Cols : GridOf(r, k, lat, lng, chunks)
    BY DEF GridInv
<1>3. /\ Rows \in Nat \ {0} /\ Cols \in Nat \ {0} /\ r \in Nat /\ k \in Nat
      /\ TileSize \in Int /\ drift[1] \in Int /\ drift[2] \in Int
      /\ MinLat \in Int /\ MinLng \in Int
    BY GridConstants, TileAssumption
<1>4. lat = Position(MinLat, drift[1], r) /\ lng = Position(MinLng, drift[2], k)
    BY <1>2 DEF GridOf
<1>5. (Reached(lat, MaxLat) <=> r < Rows) /\ (Reached(lng, MaxLng) <=> k < Cols)
    BY <1>3, <1>4, GridConstants
<1>6. ASSUME NEW i \in 0 .. Rows, NEW j \in 0 .. Cols, GridOf(i, j, lat', lng', chunks')
      PROVE  GridInv'
    <2>1. PICK y, x, s : y = lat' /\ x = lng' /\ s = chunks'
        OBVIOUS
    <2>2. GridOf(i, j, y, x, s)'
        BY <1>1, <1>6, <2>1, SameGrid
    <2>3. i \in 0 .. Rows' /\ j \in 0 .. Cols'
        BY <1>1, SameGrid
    <2> QED
        BY <2>1, <2>2, <2>3 DEF GridInv, GridOf
<1>7. CASE Push
    <2> DEFINE tile == <<Row(r), Col(k)>>
    <2>1. r < Rows /\ k < Cols
        BY <1>5, <1>7 DEF Push
    <2>2. lat' = lat /\ lng' = lng + TileSize + drift[2] /\ chunks' = Append(chunks, tile)
        BY <1>4, <1>7 DEF Push, GetChunkInfo, Row, Col
    <2>3. lng' = Position(MinLng, drift[2], k + 1)
        BY <1>3, <1>4, <2>2, NextPosition
    <2>4. Tiles(r, k + 1) = Tiles(r, k) \cup {tile}
        <3>1. 0 .. (k + 1) - 1 = (0 .. k - 1) \cup {k}
            BY <1>3
        <3> QED
            BY <3>1 DEF Tiles
    <2>5. ~Rounded => tile \notin Tiles(r, k)
        <3> SUFFICES ASSUME ~Rounded, tile \in Tiles(r, k)
                     PROVE  FALSE
            OBVIOUS
        <3> DEFINE a == MinLat \div TileSize
                   b == MinLng \div TileSize
        <3>1. a \in Int /\ b \in Int
            BY <1>3, TileAssumption, Quotients
        <3>2. \A i \in 0 .. Rows : Row(i) = a + i
            BY GridConstants
        <3>3. \A j \in 0 .. Cols : Col(j) = b + j
            BY GridConstants
        <3> HIDE DEF a, b
        <3>4. CASE \E i \in 0 .. r - 1, j \in 0 .. Cols - 1 : tile = <<Row(i), Col(j)>>
            <4>1. PICK i \in 0 .. r - 1 : Row(r) = Row(i)
                BY <3>4
            <4> QED
                BY <1>3, <2>1, <3>1, <3>2, <4>1
        <3>5. CASE \E j \in 0 .. k - 1 : tile = <<Row(r), Col(j)>>
            <4>1. PICK j \in 0 .. k - 1 : Col(k) = Col(j)
                BY <3>5
            <4> QED
                BY <1>3, <2>1, <3>1, <3>3, <4>1
        <3> QED
            BY <3>4, <3>5 DEF Tiles
    <2> HIDE DEF tile
    <2> DEFINE n == Len(chunks)
    <2>6. n \in Nat /\ DOMAIN chunks = 1 .. n /\ DOMAIN chunks' = 1 .. n + 1
          /\ chunks'[n + 1] = tile /\ \A i \in 1 .. n : chunks'[i] = chunks[i]
        BY <2>2 DEF ListInv
    <2> HIDE DEF n
    <2>7. {chunks'[i] : i \in DOMAIN chunks'} = {chunks[i] : i \in DOMAIN chunks} \cup {tile}
        <3>1. 1 .. n + 1 = (1 .. n) \cup {n + 1}
            BY <2>6
        <3> QED
            BY <2>6, <3>1
    <2>8. /\ {chunks[i] : i \in DOMAIN chunks} = Tiles(r, k)
          /\ ~Rounded => \A i, j \in DOMAIN chunks : i # j => chunks[i] # chunks[j]
        BY <1>2 DEF GridOf
    <2>9. ASSUME ~Rounded, NEW i \in 1 .. n + 1, NEW j \in 1 .. n + 1, i # j
          PROVE  chunks'[i] # chunks'[j]
        <3>1. \A l \in 1 .. n : chunks[l] # tile
            BY <2>5, <2>6, <2>8, <2>9
        <3>2. i \in 1 .. n \/ i = n + 1
            BY <2>6
        <3>3. j \in 1 .. n \/ j = n + 1
            BY <2>6
        <3> QED
            BY <2>6, <2>8, <2>9, <3>1, <3>2, <3>3
    <2>10. GridOf(r, k + 1, lat', lng', chunks')
        <3>1. lat' = Position(MinLat, drift[1], r) /\ ~(r = Rows)
            BY <1>3, <1>4, <2>1, <2>2
        <3>2. {chunks'[i] : i \in DOMAIN chunks'} = Tiles(r, k + 1)
            BY <2>4, <2>7, <2>8
        <3>3. ~Rounded => \A i, j \in DOMAIN chunks' : i # j => chunks'[i] # chunks'[j]
            BY <2>6, <2>9
        <3> QED
            BY <2>3, <3>1, <3>2, <3>3 DEF GridOf
    <2>11. k + 1 \in 0 .. Cols
        BY <1>3, <2>1
    <2> QED
        BY <1>6, <2>10, <2>11
<1>8. CASE NextRow
    <2>1. r < Rows /\ k = Cols
        BY <1>3, <1>5, <1>8 DEF NextRow
    <2>2. lat' = lat + TileSize + drift[1] /\ lng' = MinLng /\ chunks' = chunks
        BY <1>8 DEF NextRow
    <2>3. lat' = Position(MinLat, drift[1], r + 1) /\ lng' = Position(MinLng, drift[2], 0)
        <3>1. Position(MinLng, drift[2], 0) = MinLng
            BY <1>3 DEF Position
        <3> QED
            BY <1>3, <1>4, <2>2, <3>1, NextPosition
    <2>4. Tiles(r + 1, 0) = Tiles(r, Cols)
        <3>1. 0 .. (r + 1) - 1 = (0 .. r - 1) \cup {r} /\ 0 .. 0 - 1 = {}
            BY <1>3
        <3> QED
            BY <3>1 DEF Tiles
    <2>5. GridOf(r + 1, 0, lat', lng', chunks')
        BY <1>2, <2>1, <2>2, <2>3, <2>4 DEF GridOf
    <2>6. r + 1 \in 0 .. Rows /\ 0 \in 0 .. Cols
        BY <1>3, <2>1
    <2> QED
        BY <1>6, <2>5, <2>6
<1>9. CASE ReturnList
    <2>1. lat' = lat /\ lng' = lng /\ chunks' = chunks
        BY <1>9 DEF ReturnList
    <2> QED
        BY <1>2, <1>6, <2>1
<1> QED
    BY <1>7, <1>8, <1>9 DEF GetRequiredChunks

\* When the loops have ended, all rows and columns are listed.
LEMMA GridAtEnd ==
    ASSUME ListInv, GridInv, Enumerated
    PROVE  Required = Tiles(Rows, 0)
<1>1. PICK r \in 0 .. Rows, k \in 0 .. Cols : GridOf(r, k, lat, lng, chunks)
    BY DEF GridInv
<1>2. r \in Nat /\ Rows \in Nat
    BY GridConstants
<1>3. lat = Position(MinLat, drift[1], r) /\ {chunks[i] : i \in DOMAIN chunks} = Tiles(r, k)
    BY <1>1 DEF GridOf
<1>4. ~(r < Rows)
    BY <1>2, <1>3, GridConstants DEF Enumerated
<1>5. r = Rows /\ k = 0
    BY <1>1, <1>2, <1>4 DEF GridOf
<1> QED
    BY <1>3, <1>5 DEF Required

LEMMA GridIsInStep ==
    ASSUME ListInv, GridInv, Enumerated, ~Rounded
    PROVE  /\ \A i, j \in DOMAIN chunks : i # j => chunks[i] # chunks[j]
           /\ Required = (MinLat \div TileSize .. MinLat \div TileSize + Rows - 1)
                    \X (MinLng \div TileSize .. MinLng \div TileSize + Cols - 1)
<1> DEFINE a == MinLat \div TileSize
           b == MinLng \div TileSize
<1>1. a \in Int /\ b \in Int
    BY GridConstants, TileAssumption, Quotients
<1>2. Rows \in Nat \ {0} /\ Cols \in Nat \ {0}
    BY GridConstants
<1>3. /\ \A i \in 0 .. Rows : Row(i) = a + i
      /\ \A j \in 0 .. Cols : Col(j) = b + j
    BY GridConstants
<1> HIDE DEF a, b
<1>4. Tiles(Rows, 0) = {<<Row(i), Col(j)>> : i \in 0 .. Rows - 1, j \in 0 .. Cols - 1}
    <2>1. 0 .. 0 - 1 = {}
        OBVIOUS
    <2> QED
        BY <2>1 DEF Tiles
<1>5. {<<Row(i), Col(j)>> : i \in 0 .. Rows - 1, j \in 0 .. Cols - 1}
        = (a .. a + Rows - 1) \X (b .. b + Cols - 1)
    <2>1. ASSUME NEW i \in 0 .. Rows - 1, NEW j \in 0 .. Cols - 1
          PROVE  <<Row(i), Col(j)>> \in (a .. a + Rows - 1) \X (b .. b + Cols - 1)
        <3>1. Row(i) = a + i /\ Col(j) = b + j /\ i \in 0 .. Rows /\ j \in 0 .. Cols
            BY <1>2, <1>3
        <3>2. Row(i) \in a .. a + Rows - 1 /\ Col(j) \in b .. b + Cols - 1
            BY <1>1, <1>2, <3>1
        <3> QED
            BY <3>2
    <2>2. ASSUME NEW y \in a .. a + Rows - 1, NEW x \in b .. b + Cols - 1
          PROVE  \E i \in 0 .. Rows - 1, j \in 0 .. Cols - 1 : <<y, x>> = <<Row(i), Col(j)>>
        <3>1. y - a \in 0 .. Rows - 1 /\ x - b \in 0 .. Cols - 1
            BY <1>1, <1>2
        <3>2. Row(y - a) = y /\ Col(x - b) = x
            BY <1>1, <1>2, <1>3, <3>1
        <3> QED
            BY <3>1, <3>2
    <2> QED
        BY <2>1, <2>2
<1>6. \A i, j \in DOMAIN chunks : i # j => chunks[i] # chunks[j]
    BY DEF GridInv, GridOf
<1>7. Required = (a .. a + Rows - 1) \X (b .. b + Cols - 1)
    BY <1>4, <1>5, GridAtEnd
<1> QED
    BY <1>6, <1>7 DEF a, b

\* Along one axis: some tile of the enumeration holds x, but for the slack.
SomeTileHolds(first, n, x, slack) ==
    \E c \in first \div TileSize .. first \div TileSize + n - 1 :
        x < (c + 1) * TileSize + slack /\ x >= c * TileSize - slack

LEMMA AxisIsCovered ==
    ASSUME NEW first \in Int, NEW last \in Int, first <= last, NEW d \in -1 .. 1,
           ~AtEdge(first, last, d), NEW slack \in Nat,
           NEW x \in Int, first - slack <= x, x <= last + slack
    PROVE  SomeTileHolds(first, Turns(first, last, d), x, slack)
<1> DEFINE t == TileSize
           n == Turns(first, last, d)
           a == first \div t
           end == Position(first, d, n)
<1>1. t \in Nat \ {0, 1} /\ n \in Nat \ {0} /\ a \in Int
    BY TileAssumption, TurnsAre, Quotients
<1>2. end \in Int /\ end >= last + t /\ end \div t = a + n
    <2>1. n \in Nat /\ n <= n /\ ~(n < n)
        BY <1>1
    <2>2. end \in Int /\ ~Reached(end, last)
        BY <2>1, TurnsAre
    <2>3. end \div t = a + n
        BY <2>1, InStep
    <2> QED
        BY <1>1, <2>2, <2>3 DEF Reached
<1> DEFINE b == a + n
<1>3. b \in Int /\ a <= b - 1 /\ first >= a * t
    BY <1>1
<1> HIDE DEF end, a, n, t
<1>4. end < b * t + t
    <2> HIDE DEF b
    <2>1. end \div t = b
        BY <1>2 DEF b
    <2> QED
        BY <1>1, <1>2, <1>3, <2>1
<1>5. last < b * t
    <2>1. b * t \in Int
        BY <1>1, <1>3
    <2> HIDE DEF b
    <2> QED
        BY <1>1, <1>2, <1>4, <2>1
<1> DEFINE holds(c) == x < (c + 1) * t + slack /\ x >= c * t - slack
<1>6. ASSUME NEW c \in a .. b - 1, holds(c)
      PROVE  SomeTileHolds(first, n, x, slack)
    <2>1. b - 1 = a + n - 1
        BY <1>1 DEF b
    <2>2. c \in a .. a + n - 1
        BY <2>1
    <2> QED
        BY <1>6, <2>2 DEF SomeTileHolds, a, t
<1> HIDE DEF b
<1>7. CASE x < a * t
    <2>1. a \in a .. b - 1
        BY <1>1, <1>3
    <2>2. (a + 1) * t = a * t + t /\ a * t \in Int
        BY <1>1
    <2>3. holds(a)
        BY <1>1, <1>3, <1>7, <2>2
    <2> HIDE DEF holds
    <2> QED
        BY <1>6, <2>1, <2>3 DEF n
<1>8. CASE x >= b * t
    <2> DEFINE c == b - 1
    <2>1. c \in a .. b - 1
        BY <1>1, <1>3
    <2>2. (c + 1) * t = b * t /\ c * t = b * t - t /\ b * t \in Int
        BY <1>1, <1>3
    <2> HIDE DEF c
    <2>3. holds(c)
        BY <1>1, <1>5, <1>8, <2>2
    <2> HIDE DEF holds
    <2> QED
        BY <1>6, <2>1, <2>3 DEF n
<1>9. CASE a * t <= x /\ x < b * t
    <2> DEFINE c == x \div t
    <2>1. c \in Int /\ c * t <= x /\ x < c * t + t
        BY <1>1
    <2> HIDE DEF c
    <2>2. (c + 1) * t = c * t + t /\ c * t \in Int
        BY <1>1, <2>1
    <2>3. a * t < (c + 1) * t /\ c * t < b * t
        BY <1>1, <1>3, <1>9, <2>1, <2>2
    <2>4. \A i, j \in Int : i * t < j * t => i < j
        BY <1>1
    <2>5. a < c + 1 /\ c < b
        BY <1>1, <1>3, <2>1, <2>3, <2>4
    <2>6. c \in a .. b - 1
        BY <1>1, <1>3, <2>1, <2>5
    <2>7. holds(c)
        BY <1>1, <2>1, <2>2
    <2> HIDE DEF holds
    <2> QED
        BY <1>6, <2>6, <2>7 DEF n
<1> QED
    <2>1. a * t \in Int /\ b * t \in Int
        BY <1>1, <1>3
    <2> QED
        BY <1>7, <1>8, <1>9, <2>1 DEF n

\* A bounded point lies between the latitudes, and between the longitudes, of the two
\* corners that are converted, but for what the box's sides stray.
LEMMA StraysASliver ==
    ASSUME ListInv, NEW p \in Int \X Int, IsBounded(boundary, p)
    PROVE  /\ Sliver[1] \in Nat /\ Sliver[2] \in Nat
           /\ ToWgs84(p, convergence)[1] \in MinLat - Sliver[1] .. MaxLat + Sliver[1]
           /\ ToWgs84(p, convergence)[2] \in MinLng - Sliver[2] .. MaxLng + Sliver[2]
<1> DEFINE u == Unit
           t == convergence
           x == p[1]
           y == p[2]
           x1 == MinX(boundary)
           x2 == MaxX(boundary)
           y1 == MinY(boundary)
           y2 == MaxY(boundary)
<1>1. u \in Nat \ {0} /\ t \in Int
    BY TileAssumption DEF ListInv
<1>2. /\ x1 \in Int /\ x2 \in Int /\ y1 \in Int /\ y2 \in Int /\ x \in x1 .. x2 /\ y \in y1 .. y2
      /\ x1 <= x2 /\ y1 <= y2
    BY BoundedInBox, CornersAreWhole DEF ListInv
<1>3. Ends = {<<u * y1 + t * x2, u * x2 - t * y1>>, <<u * y2 + t * x1, u * x1 - t * y2>>}
    BY DEF Ends, ToWgs84, GetUpperRightPoint, GetLowerLeftPoint
<1>4. Sliver = <<Abs(t) * (x2 - x1), Abs(t) * (y2 - y1)>>
    BY DEF Sliver, Abs
<1>5. ToWgs84(p, convergence) = <<u * y + t * x, u * x - t * y>>
    BY DEF ToWgs84
<1> HIDE DEF u, t, x, y, x1, x2, y1, y2
<1> DEFINE ux == u * x
           uy == u * y
           tx == t * x
           ty == t * y
           ux1 == u * x1
           ux2 == u * x2
           uy1 == u * y1
           uy2 == u * y2
           tx1 == t * x1
           tx2 == t * x2
           ty1 == t * y1
           ty2 == t * y2
           w == Abs(t) * (x2 - x1)
           h == Abs(t) * (y2 - y1)
<1>6. /\ ux \in Int /\ uy \in Int /\ tx \in Int /\ ty \in Int
      /\ ux1 \in Int /\ ux2 \in Int /\ uy1 \in Int /\ uy2 \in Int
      /\ tx1 \in Int /\ tx2 \in Int /\ ty1 \in Int /\ ty2 \in Int
    BY <1>1, <1>2
<1>7. ASSUME NEW i \in Int, NEW j \in Int, i <= j
      PROVE  u * i <= u * j
    BY <1>1, <1>7
<1>8. ux1 <= ux /\ ux <= ux2 /\ uy1 <= uy /\ uy <= uy2
    BY <1>2, <1>7
<1>9. ASSUME NEW i \in Int, NEW m \in Nat, -m <= i, i <= m
      PROVE  Abs(t) * m \in Nat /\ t * i <= Abs(t) * m /\ -(t * i) <= Abs(t) * m
    <2>1. Abs(t) \in Nat
        BY <1>1 DEF Abs
    <2> QED
        BY <1>1, <1>9, <2>1, ProductIsBounded
<1>10. w \in Nat /\ tx - tx2 >= -w /\ tx - tx1 <= w
    <2>1. x2 - x1 \in Nat /\ -(x2 - x1) <= x - x2 /\ x - x2 <= x2 - x1
          /\ -(x2 - x1) <= x - x1 /\ x - x1 <= x2 - x1 /\ x - x1 \in Int /\ x - x2 \in Int
        BY <1>2
    <2>2. w \in Nat /\ -(t * (x - x2)) <= w /\ t * (x - x1) <= w
        BY <1>9, <2>1
    <2>3. t * (x - x2) = tx - tx2 /\ t * (x - x1) = tx - tx1
        BY <1>1, <1>2
    <2> HIDE DEF w, tx, tx1, tx2
    <2> QED
        BY <1>6, <2>2, <2>3
<1>11. h \in Nat /\ ty - ty1 >= -h /\ ty - ty2 <= h
    <2>1. y2 - y1 \in Nat /\ -(y2 - y1) <= y - y2 /\ y - y2 <= y2 - y1
          /\ -(y2 - y1) <= y - y1 /\ y - y1 <= y2 - y1 /\ y - y1 \in Int /\ y - y2 \in Int
        BY <1>2
    <2>2. h \in Nat /\ t * (y - y2) <= h /\ -(t * (y - y1)) <= h
        BY <1>9, <2>1
    <2>3. t * (y - y2) = ty - ty2 /\ t * (y - y1) = ty - ty1
        BY <1>1, <1>2
    <2> HIDE DEF h, ty, ty1, ty2
    <2> QED
        BY <1>6, <2>2, <2>3
<1> HIDE DEF ux, uy, tx, ty, ux1, ux2, uy1, uy2, tx1, tx2, ty1, ty2, w, h
<1>12. /\ MinLat \in Int /\ MaxLat \in Int /\ MinLng \in Int /\ MaxLng \in Int
       /\ MinLat <= uy1 + tx2 /\ uy2 + tx1 <= MaxLat
       /\ MinLng <= ux1 - ty2 /\ ux2 - ty1 <= MaxLng
    <2>1. {e[1] : e \in Ends} = {uy1 + tx2, uy2 + tx1} /\ {e[2] : e \in Ends} = {ux2 - ty1, ux1 - ty2}
        BY <1>3 DEF uy1, uy2, ux1, ux2, tx1, tx2, ty1, ty2
    <2>2. /\ MinLat = Min({uy1 + tx2, uy2 + tx1}) /\ MaxLat = Max({uy1 + tx2, uy2 + tx1})
          /\ MinLng = Min({ux2 - ty1, ux1 - ty2}) /\ MaxLng = Max({ux2 - ty1, ux1 - ty2})
        BY <2>1 DEF MinLat, MaxLat, MinLng, MaxLng
    <2>3. uy1 + tx2 \in Int /\ uy2 + tx1 \in Int /\ ux2 - ty1 \in Int /\ ux1 - ty2 \in Int
        BY <1>6
    <2> QED
        BY <2>2, <2>3, LeastOfTwo
<1>13. /\ uy + tx \in MinLat - w .. MaxLat + w
       /\ ux - ty \in MinLng - h .. MaxLng + h
    <2>1. MinLat - w <= uy + tx /\ uy + tx <= MaxLat + w
        BY <1>6, <1>8, <1>10, <1>12
    <2>2. MinLng - h <= ux - ty /\ ux - ty <= MaxLng + h
        BY <1>6, <1>8, <1>11, <1>12
    <2> QED
        BY <1>6, <1>10, <1>11, <1>12, <2>1, <2>2
<1>14. Sliver = <<w, h>> /\ ToWgs84(p, convergence) = <<uy + tx, ux - ty>>
    BY <1>4, <1>5 DEF w, h, ux, uy, tx, ty
<1> QED
    BY <1>10, <1>11, <1>13, <1>14

-----------------------------------------------------------------------------
(* The files and the datasets of a chunk, and what is there at each step.   *)

Rec == [of : Int \X Int, answer : Answers, complete : BOOLEAN]

\* A file may stay when its chunk is through.
Settled(f) ==
    f[2] # "raster" /\ (f[2] = "response" => feature = "paths") /\ feature # "tin"

FilesOf(d) ==
    \A f \in DOMAIN d :
        /\ f \in (1 .. index) \X Roles
        /\ d[f] \in Rec /\ d[f].of = chunks[f[1]]
        /\ f[2] # "response" => d[f].answer # "page"
        /\ f[1] < index => Settled(f)
OpenOf(o) ==
    \A f \in DOMAIN o :
        /\ f \in {index} \X Roles
        /\ o[f] \in Rec /\ o[f].of = chunks[index] /\ o[f].answer # "page"

\* The roles of this chunk's files, or datasets.
Own(d) == {r \in Roles : File(r) \in DOMAIN d}

LEMMA FilesWith ==
    ASSUME index \in Nat \ {0}, NEW d, FilesOf(d), NEW r \in Roles, NEW rec \in Rec,
           rec.of = chunks[index], r # "response" => rec.answer # "page"
    PROVE  FilesOf(With(d, File(r), rec)) /\ Own(With(d, File(r), rec)) = Own(d) \cup {r}
<1> DEFINE new == With(d, File(r), rec)
<1>1. /\ DOMAIN new = DOMAIN d \cup {File(r)} /\ new[File(r)] = rec
      /\ \A f \in DOMAIN d : f # File(r) => new[f] = d[f]
    BY DEF With
<1> HIDE DEF new
<1>2. FilesOf(new)
    <2> SUFFICES ASSUME NEW f \in DOMAIN new
                 PROVE  /\ f \in (1 .. index) \X Roles
                        /\ new[f] \in Rec /\ new[f].of = chunks[f[1]]
                        /\ f[2] # "response" => new[f].answer # "page"
                        /\ f[1] < index => Settled(f)
        BY DEF FilesOf
    <2>1. CASE f = File(r)
        BY <1>1, <2>1 DEF File
    <2>2. CASE f # File(r)
        BY <1>1, <2>2 DEF FilesOf
    <2> QED
        BY <2>1, <2>2
<1>3. Own(new) = Own(d) \cup {r}
    BY <1>1 DEF Own, File
<1> QED
    BY <1>2, <1>3 DEF new

LEMMA FilesWithout ==
    ASSUME NEW d, FilesOf(d), NEW r
    PROVE  FilesOf(Without(d, {File(r)})) /\ Own(Without(d, {File(r)})) = Own(d) \ {r}
<1> DEFINE new == Without(d, {File(r)})
<1>1. /\ DOMAIN new = DOMAIN d \ {File(r)}
      /\ \A f \in DOMAIN new : new[f] = d[f]
    BY DEF Without
<1> HIDE DEF new
<1>2. FilesOf(new)
    BY <1>1 DEF FilesOf
<1>3. Own(new) = Own(d) \ {r}
    BY <1>1 DEF Own, File
<1> QED
    BY <1>2, <1>3 DEF new

LEMMA OpenWith ==
    ASSUME NEW o, OpenOf(o), NEW r \in Roles, NEW rec \in Rec,
           rec.of = chunks[index], rec.answer # "page"
    PROVE  OpenOf(With(o, File(r), rec)) /\ Own(With(o, File(r), rec)) = Own(o) \cup {r}
<1> DEFINE new == With(o, File(r), rec)
<1>1. /\ DOMAIN new = DOMAIN o \cup {File(r)} /\ new[File(r)] = rec
      /\ \A f \in DOMAIN o : f # File(r) => new[f] = o[f]
    BY DEF With
<1> HIDE DEF new
<1>2. OpenOf(new)
    BY <1>1 DEF OpenOf, File
<1>3. Own(new) = Own(o) \cup {r}
    BY <1>1 DEF Own, File
<1> QED
    BY <1>2, <1>3 DEF new

LEMMA OpenWithout ==
    ASSUME NEW o, OpenOf(o), NEW r
    PROVE  OpenOf(Without(o, {File(r)})) /\ Own(Without(o, {File(r)})) = Own(o) \ {r}
<1> DEFINE new == Without(o, {File(r)})
<1>1. /\ DOMAIN new = DOMAIN o \ {File(r)}
      /\ \A f \in DOMAIN new : new[f] = o[f]
    BY DEF Without
<1> HIDE DEF new
<1>2. OpenOf(new)
    BY <1>1 DEF OpenOf
<1>3. Own(new) = Own(o) \ {r}
    BY <1>1 DEF Own, File
<1> QED
    BY <1>2, <1>3 DEF new

\* What is warped, and the roles of the result and what stays beside it.
SourceRole == IF feature = "water" THEN "raster" ELSE "response"
Beside     == IF feature = "paths" THEN {"response"} ELSE {}

ResultOf(d) == IF File("cached") \in DOMAIN d THEN File("cached") ELSE File("warped")

\* At step s, with d on the disk, o open, and so many failures.
StepOf(s, d, o, n) ==
    /\ s = "request" => Own(d) = {} /\ Own(o) = {}
    /\ s = "load" => Own(d) \subseteq {"response"} /\ Own(o) = {}
    /\ s = "rasterize" => feature = "water" /\ Own(d) = {"response"} /\ Own(o) = {"response"}
    /\ s = "warp" => Own(d) = {SourceRole} /\ Own(o) = {SourceRole}
    /\ s = "unlink" => feature = "tin" /\ Own(d) = {"warped"} /\ Own(o) = {"warped"}
    /\ s = "extract" => feature = "tin" /\ Own(d) = {} /\ Own(o) = {"warped"}
    /\ s = "cache" =>
           feature \in {"terrain", "water"} /\ Own(d) = {"warped"} /\ Own(o) = {"warped"}
    /\ s \in {"release", "read"} =>
           feature # "tin" /\ Own(d) \in {{"cached"}, {"warped"} \cup Beside}
    /\ s = "release" => Own(o) = Own(d) \ {"response"}
    /\ s = "read" => Own(o) = {} /\ d[ResultOf(d)].complete
    /\ s = "done" => Own(o) = {} /\ \A r \in Own(d) : Settled(File(r))
    /\ s = "threw" =>
           /\ "raster" \notin Own(d) /\ ("response" \in Own(d) => feature # "water")
           /\ Own(o) # {} =>
                  Own(o) = {"warped"} /\ feature \in {"terrain", "water"} /\ n > 0

StepInv == StepOf(step, disk, open, failures)

ReadRight(read, i) == read # Nothing =>
    read.of = chunks[i] /\ read.complete /\ read.answer # "page"

GotInv ==
    /\ got \in Seq(Rec) /\ Len(got) = IF step = "done" THEN index ELSE index - 1
    /\ \A i \in DOMAIN got : ReadRight(got[i], i)

Steps == {"request", "load", "rasterize", "warp", "unlink", "extract", "cache",
          "release", "read", "threw", "done"}

CountInv ==
    /\ feature \in Features /\ step \in Steps /\ index \in Nat \ {0}
    /\ listed => index \in 1 .. Len(chunks)
    /\ ~listed => /\ step = "request" /\ index = 1 /\ got = <<>>
                  /\ DOMAIN disk = {} /\ DOMAIN open = {}
    /\ failures \in 0 .. MaxFailures /\ curl \in 0 .. failures /\ misused = FALSE

FetchInv == CountInv /\ FilesOf(disk) /\ OpenOf(open) /\ StepInv /\ GotInv

Inv == ListInv /\ FetchInv

LEMMA InvInit ==
    ASSUME Init
    PROVE  Inv
<1>1. ListInv /\ listed = FALSE
    BY ListInitInv DEF Init, ListInit
<1>2. DOMAIN disk = {} /\ DOMAIN open = {}
    BY DEF Init
<1>3. FilesOf(disk) /\ OpenOf(open) /\ Own(disk) = {} /\ Own(open) = {}
    BY <1>2 DEF FilesOf, OpenOf, Own
<1>4. StepInv
    BY <1>3 DEF Init, StepInv, StepOf
<1>5. GotInv
    BY DEF Init, GotInv
<1>6. CountInv
    BY <1>1, <1>2, FailuresAssumption DEF Init, CountInv, Steps
<1> QED
    BY <1>1, <1>3, <1>4, <1>5, <1>6 DEF Inv, FetchInv

\* While the list grows nothing has been fetched.
LEMMA ListingStep ==
    ASSUME Inv, GetRequiredChunks, UNCHANGED fetched
    PROVE  Inv'
<1>1. ListInv' /\ ~listed
    BY ListStep DEF Inv
<1>2. /\ step = "request" /\ index = 1 /\ got = <<>> /\ DOMAIN disk = {} /\ DOMAIN open = {}
    BY <1>1 DEF Inv, FetchInv, CountInv
<1>3. /\ step' = "request" /\ index' = 1 /\ got' = <<>> /\ DOMAIN disk' = {} /\ DOMAIN open' = {}
      /\ UNCHANGED <<feature, failures, curl, misused>>
    BY <1>2 DEF fetched
<1>4. FilesOf(disk)' /\ OpenOf(open)' /\ Own(disk)' = {} /\ Own(open)' = {}
    BY <1>3 DEF FilesOf, OpenOf, Own
<1>5. StepInv'
    BY <1>3, <1>4 DEF StepInv, StepOf
<1>6. GotInv'
    BY <1>3 DEF GotInv
<1>7. CountInv'
    <2>1. listed' => 1 \in 1 .. Len(chunks')
        <3>1. ASSUME listed'
              PROVE  chunks' \in Seq(Int \X Int) /\ chunks' # <<>>
            BY <1>1, <3>1 DEF ListInv
        <3> QED
            BY <3>1
    <2> QED
        BY <1>3, <2>1 DEF Inv, FetchInv, CountInv, Steps
<1> QED
    BY <1>1, <1>4, <1>5, <1>6, <1>7 DEF Inv, FetchInv

-----------------------------------------------------------------------------
(* How a step ends.                                                         *)

Counted == failures' \in 0 .. MaxFailures /\ curl' \in 0 .. failures' /\ misused' = FALSE

LEMMA GoesStep ==
    ASSUME Inv, listed, Same, NEW to \in Steps \ {"done"}, Goes(to), step # "done",
           FilesOf(disk'), OpenOf(open'), StepOf(to, disk', open', failures'), Counted
    PROVE  Inv'
<1>1. /\ UNCHANGED <<inputs, list, feature, index, got>> /\ step' = to
      /\ UNCHANGED <<chunks, listed>>
    BY DEF Same, Goes, list
<1>2. ListInv'
    <2>1. MinLat' = MinLat /\ MinLng' = MinLng
        BY <1>1 DEF MinLat, MinLng, Ends, inputs
    <2> QED
        BY <1>1, <2>1 DEF Inv, ListInv, inputs, list
<1>3. FilesOf(disk)' /\ OpenOf(open)'
    BY <1>1 DEF FilesOf, OpenOf, Settled
<1>4. StepInv'
    <2>1. Own(disk)' = Own(disk') /\ Own(open)' = Own(open') /\ ResultOf(disk)' = ResultOf(disk')
        BY <1>1 DEF Own, ResultOf, File
    <2>2. SourceRole' = SourceRole /\ Beside' = Beside
        BY <1>1 DEF SourceRole, Beside
    <2> QED
        BY <1>1, <2>1, <2>2 DEF StepInv, StepOf
<1>5. GotInv'
    BY <1>1 DEF Inv, FetchInv, GotInv, ReadRight
<1>6. CountInv'
    BY <1>1 DEF Inv, FetchInv, CountInv, Counted
<1> QED
    BY <1>2, <1>3, <1>4, <1>5, <1>6 DEF Inv, FetchInv

LEMMA ThroughStep ==
    ASSUME Inv, listed, Same, step # "done", NEW read \in Rec, ReadRight(read, index), Through(read),
           FilesOf(disk'), OpenOf(open'), Own(open') = {},
           \A r \in Own(disk') : Settled(File(r)), Counted
    PROVE  Inv'
<1>1. /\ UNCHANGED <<inputs, list, feature, chunks, listed>>
      /\ index \in 1 .. Len(chunks) /\ chunks \in Seq(Int \X Int)
      /\ got \in Seq(Rec) /\ Len(got) = index - 1
    BY DEF Same, list, Inv, FetchInv, CountInv, GotInv, ListInv
<1>2. ListInv'
    <2>1. MinLat' = MinLat /\ MinLng' = MinLng
        BY <1>1 DEF MinLat, MinLng, Ends, inputs
    <2> QED
        BY <1>1, <2>1 DEF Inv, ListInv, inputs, list
<1>3. DOMAIN open' = {}
    BY DEF OpenOf, Own, File
<1>4. \A f \in DOMAIN disk' : f[1] = index => Settled(f)
    <2> SUFFICES ASSUME NEW f \in DOMAIN disk', f[1] = index
                 PROVE  Settled(f)
        OBVIOUS
    <2>1. f \in (1 .. index) \X Roles
        BY DEF FilesOf
    <2>2. f = File(f[2]) /\ f[2] \in Own(disk')
        BY <2>1 DEF File, Own
    <2> QED
        BY <2>2
<1>5. /\ got' \in Seq(Rec) /\ Len(got') = index
      /\ \A i \in DOMAIN got' : ReadRight(got'[i], i)
    <2>1. got' = Append(got, read)
        BY DEF Through
    <2>2. DOMAIN got' = (DOMAIN got) \cup {index}
          /\ got'[index] = read /\ \A i \in DOMAIN got : got'[i] = got[i]
        BY <1>1, <2>1
    <2>3. \A i \in DOMAIN got : ReadRight(got[i], i)
        BY DEF Inv, FetchInv, GotInv
    <2> QED
        BY <1>1, <2>1, <2>2, <2>3
<1>6. CASE index = Len(chunks)
    <2>1. step' = "done" /\ index' = index
        BY <1>6 DEF Through
    <2>2. FilesOf(disk)' /\ OpenOf(open)'
        BY <1>1, <2>1 DEF FilesOf, OpenOf, Settled
    <2>3. StepInv'
        <3>1. Own(disk)' = Own(disk') /\ Own(open)' = {}
            BY <2>1 DEF Own, File
        <3>2. \A r \in Own(disk)' : Settled(File(r))'
            BY <1>1, <2>1, <3>1 DEF Settled, File
        <3> QED
            BY <2>1, <3>1, <3>2 DEF StepInv, StepOf
    <2>4. GotInv'
        BY <1>1, <1>5, <2>1 DEF GotInv, ReadRight
    <2>5. CountInv'
        BY <1>1, <2>1 DEF Inv, FetchInv, CountInv, Counted, Steps
    <2> QED
        BY <1>2, <2>2, <2>3, <2>4, <2>5 DEF Inv, FetchInv
<1>7. CASE index # Len(chunks)
    <2>1. step' = "request" /\ index' = index + 1
        BY <1>7 DEF Through
    <2>2. FilesOf(disk)'
        <3> SUFFICES ASSUME NEW f \in DOMAIN disk'
                     PROVE  /\ f \in (1 .. index + 1) \X Roles
                            /\ disk'[f] \in Rec /\ disk'[f].of = chunks[f[1]]
                            /\ f[2] # "response" => disk'[f].answer # "page"
                            /\ f[1] < index + 1 => Settled(f)
            BY <1>1, <2>1 DEF FilesOf, Settled
        <3>1. /\ f \in (1 .. index) \X Roles
              /\ disk'[f] \in Rec /\ disk'[f].of = chunks[f[1]]
              /\ f[2] # "response" => disk'[f].answer # "page"
              /\ f[1] < index => Settled(f)
            BY DEF FilesOf
        <3>2. f[1] \in 1 .. index /\ f \in (1 .. index + 1) \X Roles
            BY <1>1, <3>1
        <3>3. f[1] < index + 1 => f[1] < index \/ f[1] = index
            BY <1>1, <3>2
        <3> QED
            BY <1>4, <3>1, <3>2, <3>3
    <2>3. OpenOf(open)'
        BY <1>3 DEF OpenOf
    <2>4. StepInv'
        <3>1. Own(open)' = {}
            BY <1>3 DEF Own
        <3>2. \A f \in DOMAIN disk' : f \in (1 .. index) \X Roles
            BY DEF FilesOf
        <3>3. \A r \in Roles : <<index + 1, r>> \notin DOMAIN disk'
            BY <1>1, <3>2
        <3>4. Own(disk)' = {}
            BY <2>1, <3>3 DEF Own, File
        <3> QED
            BY <2>1, <3>1, <3>4 DEF StepInv, StepOf
    <2>5. GotInv'
        BY <1>1, <1>5, <2>1 DEF GotInv, ReadRight
    <2>6. CountInv'
        BY <1>1, <1>7, <2>1 DEF Inv, FetchInv, CountInv, Counted, Steps
    <2> QED
        BY <1>2, <2>2, <2>3, <2>4, <2>5, <2>6 DEF Inv, FetchInv
<1> QED
    BY <1>6, <1>7

\* An exception of ChunkManager.
LEMMA FetchThrowsStep ==
    ASSUME Inv, listed, Same, step # "done", FetchThrows,
           FilesOf(disk'), OpenOf(open'), Own(open') = {},
           Own(disk') \subseteq {"response"}, feature = "water" => Own(disk') = {}, Counted
    PROVE  Inv'
<1>1. CASE feature = "water"
    <2>1. Nothing \in Rec /\ ReadRight(Nothing, index)
        BY DEF Nothing, Rec, Answers, ReadRight
    <2> QED
        BY <1>1, <2>1, ThroughStep DEF FetchThrows
<1>2. CASE feature # "water"
    <2>1. StepOf("threw", disk', open', failures')
        BY <1>2 DEF StepOf
    <2> QED
        BY <1>2, <2>1, GoesStep DEF FetchThrows, Throws, Steps
<1> QED
    BY <1>1, <1>2

-----------------------------------------------------------------------------
(* The steps of a chunk.                                                    *)

\* What is known before any of them.
LEMMA Before ==
    ASSUME Inv, listed
    PROVE  /\ index \in Nat \ {0} /\ index \in 1 .. Len(chunks) /\ feature \in Features
           /\ FilesOf(disk) /\ OpenOf(open) /\ StepOf(step, disk, open, failures)
           /\ failures \in 0 .. MaxFailures
BY DEF Inv, FetchInv, CountInv, StepInv

\* What a request or a conversion writes is of this chunk.
LEMMA ContentIsOwn ==
    ASSUME Inv, listed, NEW answer \in Answers, NEW complete \in BOOLEAN
    PROVE  /\ Content(answer, complete) \in Rec
           /\ Content(answer, complete).of = chunks[index]
           /\ Content(answer, complete).answer = answer
<1>1. index \in 1 .. Len(chunks) /\ chunks \in Seq(Int \X Int)
    BY Before DEF Inv, ListInv
<1>2. chunks[index] \in Int \X Int
    BY <1>1
<1> QED
    BY <1>2 DEF Content, Rec

\* The counters, of a step that may count a failure.
LEMMA Counts ==
    ASSUME Inv, UNCHANGED <<curl, misused>>, UNCHANGED failures \/ Fails
    PROVE  Counted
<1>1. failures \in 0 .. MaxFailures /\ curl \in 0 .. failures /\ misused = FALSE
    BY DEF Inv, FetchInv, CountInv
<1> QED
    BY <1>1, FailuresAssumption DEF Counted, Fails

LEMMA CountsUse ==
    ASSUME Inv, UNCHANGED curl, UNCHANGED failures \/ Fails, NEW r \in Own(open), Uses(File(r))
    PROVE  Counted
<1>1. UNCHANGED misused
    BY DEF Uses, Own, Inv, FetchInv, CountInv
<1> QED
    BY <1>1, Counts

LEMMA RequestSteps ==
    ASSUME Inv, UseCached \/ Request \/ RequestFails \/ RequestThrows
    PROVE  Inv'
<1>0. /\ At("request") /\ Own(disk) = {} /\ Own(open) = {}
      /\ listed /\ step # "done" /\ index \in Nat \ {0} /\ FilesOf(disk) /\ OpenOf(open)
    <2>1. At("request")
        BY DEF UseCached, Request, RequestFails, RequestThrows
    <2> QED
        BY <2>1, Before DEF At, StepOf
<1>1. CASE UseCached
    <2> DEFINE rec == Content("data", TRUE)
    <2>1. rec \in Rec /\ rec.of = chunks[index] /\ rec.answer # "page"
        BY <1>0, ContentIsOwn DEF Answers
    <2>2. /\ disk' = With(disk, File("cached"), rec) /\ open' = With(open, File("cached"), rec)
          /\ feature = "terrain" /\ Goes("release") /\ Same /\ UNCHANGED <<curl, misused, failures>>
        BY <1>1 DEF UseCached
    <2> HIDE DEF rec
    <2>3. FilesOf(disk') /\ Own(disk') = {"cached"} /\ OpenOf(open') /\ Own(open') = {"cached"}
        <3>1. FilesOf(disk') /\ Own(disk') = Own(disk) \cup {"cached"}
            BY <1>0, <2>1, <2>2, FilesWith DEF Roles
        <3>2. OpenOf(open') /\ Own(open') = Own(open) \cup {"cached"}
            BY <1>0, <2>1, <2>2, OpenWith DEF Roles
        <3> QED
            BY <1>0, <3>1, <3>2
    <2>4. StepOf("release", disk', open', failures')
        BY <2>2, <2>3 DEF StepOf
    <2> QED
        BY <1>0, <2>2, <2>3, <2>4, Counts, GoesStep DEF Steps
<1>2. CASE Request
    <2>1. PICK answer \in Answers : disk' = With(disk, File("response"), Content(answer, TRUE))
        BY <1>2 DEF Request
    <2> DEFINE rec == Content(answer, TRUE)
    <2>2. rec \in Rec /\ rec.of = chunks[index]
        BY <1>0, ContentIsOwn
    <2> HIDE DEF rec
    <2>3. FilesOf(disk') /\ Own(disk') = {"response"}
        <3>1. disk' = With(disk, File("response"), rec)
            BY <2>1 DEF rec
        <3>2. FilesOf(disk') /\ Own(disk') = Own(disk) \cup {"response"}
            BY <1>0, <2>2, <3>1, FilesWith DEF Roles
        <3> QED
            BY <1>0, <3>2
    <2>4. Goes("load") /\ Same /\ UNCHANGED <<open, curl, misused, failures>>
        BY <1>2 DEF Request
    <2>5. StepOf("load", disk', open', failures')
        BY <1>0, <2>3, <2>4 DEF StepOf
    <2> QED
        BY <1>0, <2>3, <2>4, <2>5, Counts, GoesStep DEF Steps
<1>3. CASE RequestFails
    <2>1. Goes("load") /\ Same /\ UNCHANGED <<disk, open, misused>> /\ Fails /\ curl' \in {curl, curl + 1}
        BY <1>3 DEF RequestFails
    <2>2. Counted
        <3>1. failures \in 0 .. MaxFailures /\ curl \in 0 .. failures /\ misused = FALSE
            BY DEF Inv, FetchInv, CountInv
        <3> QED
            BY <2>1, <3>1, FailuresAssumption DEF Counted, Fails
    <2>3. StepOf("load", disk', open', failures')
        BY <1>0, <2>1 DEF StepOf
    <2> QED
        BY <1>0, <2>1, <2>2, <2>3, GoesStep DEF Steps
<1>4. CASE RequestThrows
    <2>1. FetchThrows /\ Same /\ UNCHANGED <<disk, open, curl, misused>> /\ Fails
        BY <1>4 DEF RequestThrows
    <2> QED
        BY <1>0, <2>1, Counts, FetchThrowsStep
<1> QED
    BY <1>1, <1>2, <1>3, <1>4

LEMMA LoadSteps ==
    ASSUME Inv, Load \/ LoadFails
    PROVE  Inv'
<1>0. /\ At("load") /\ Own(disk) \subseteq {"response"} /\ Own(open) = {}
      /\ listed /\ step # "done" /\ index \in Nat \ {0} /\ FilesOf(disk) /\ OpenOf(open)
    <2>1. At("load")
        BY DEF Load, LoadFails
    <2> QED
        BY <2>1, Before DEF At, StepOf
<1>1. CASE Load
    <2> DEFINE rec == disk[File("response")]
    <2>1. File("response") \in DOMAIN disk /\ rec.answer # "page"
        BY <1>1 DEF Load, Loadable
    <2>2. rec \in Rec /\ rec.of = chunks[index] /\ Own(disk) = {"response"}
        BY <1>0, <2>1, Before DEF FilesOf, File, Own, Roles
    <2>3. /\ open' = With(open, File("response"), rec) /\ disk' = disk
          /\ Goes(IF feature = "water" THEN "rasterize" ELSE "warp")
          /\ Same /\ UNCHANGED <<curl, misused, failures>>
        BY <1>1 DEF Load
    <2> HIDE DEF rec
    <2>4. OpenOf(open') /\ Own(open') = {"response"} /\ FilesOf(disk')
        <3>1. OpenOf(open') /\ Own(open') = Own(open) \cup {"response"}
            BY <1>0, <2>1, <2>2, <2>3, OpenWith DEF Roles
        <3> QED
            BY <1>0, <2>3, <3>1
    <2>5. CASE feature = "water"
        <3>1. StepOf("rasterize", disk', open', failures')
            BY <2>2, <2>3, <2>4, <2>5 DEF StepOf
        <3> QED
            BY <1>0, <2>3, <2>4, <2>5, <3>1, Counts, GoesStep DEF Steps
    <2>6. CASE feature # "water"
        <3>1. StepOf("warp", disk', open', failures')
            BY <2>2, <2>3, <2>4, <2>6 DEF StepOf, SourceRole
        <3> QED
            BY <1>0, <2>3, <2>4, <2>6, <3>1, Counts, GoesStep DEF Steps
    <2> QED
        BY <2>5, <2>6
<1>2. CASE LoadFails
    <2>1. /\ disk' = IF feature = "water" THEN Without(disk, {File("response")}) ELSE disk
          /\ FetchThrows /\ Same /\ UNCHANGED <<open, curl, misused>>
          /\ UNCHANGED failures \/ Fails
        BY <1>2 DEF LoadFails, Unless
    <2>2. /\ FilesOf(disk') /\ Own(disk') \subseteq {"response"}
          /\ feature = "water" => Own(disk') = {}
        BY <1>0, <2>1, Before, FilesWithout
    <2> QED
        BY <1>0, <2>1, <2>2, Counts, FetchThrowsStep
<1> QED
    BY <1>1, <1>2

LEMMA RasterizeSteps ==
    ASSUME Inv, Rasterize \/ RasterizeFails
    PROVE  Inv'
<1>0. /\ At("rasterize") /\ feature = "water" /\ Own(disk) = {"response"} /\ Own(open) = {"response"}
      /\ listed /\ step # "done" /\ index \in Nat \ {0} /\ FilesOf(disk) /\ OpenOf(open)
    <2>1. At("rasterize")
        BY DEF Rasterize, RasterizeFails
    <2> QED
        BY <2>1, Before DEF At, StepOf
<1>1. /\ FilesOf(Without(disk, {File("response")})) /\ Own(Without(disk, {File("response")})) = {}
      /\ OpenOf(Without(open, {File("response")})) /\ Own(Without(open, {File("response")})) = {}
    <2>1. /\ FilesOf(Without(disk, {File("response")}))
          /\ Own(Without(disk, {File("response")})) = Own(disk) \ {"response"}
        BY <1>0, FilesWithout
    <2>2. /\ OpenOf(Without(open, {File("response")}))
          /\ Own(Without(open, {File("response")})) = Own(open) \ {"response"}
        BY <1>0, OpenWithout
    <2> QED
        BY <1>0, <2>1, <2>2
<1>2. CASE Rasterize
    <2> DEFINE rec == Content("data", FALSE)
               d   == Without(disk, {File("response")})
               o   == Without(open, {File("response")})
    <2>1. rec \in Rec /\ rec.of = chunks[index] /\ rec.answer # "page"
        BY <1>0, ContentIsOwn DEF Answers
    <2>2. /\ disk' = With(d, File("raster"), rec) /\ open' = With(o, File("raster"), rec)
          /\ Goes("warp") /\ Same /\ UNCHANGED <<curl, failures>> /\ Uses(File("response"))
        BY <1>2 DEF Rasterize
    <2>3. FilesOf(d) /\ Own(d) = {} /\ OpenOf(o) /\ Own(o) = {}
        BY <1>1
    <2> HIDE DEF rec, d, o
    <2>4. FilesOf(disk') /\ Own(disk') = {"raster"} /\ OpenOf(open') /\ Own(open') = {"raster"}
        <3>1. FilesOf(disk') /\ Own(disk') = Own(d) \cup {"raster"}
            BY <1>0, <2>1, <2>2, <2>3, FilesWith DEF Roles
        <3>2. OpenOf(open') /\ Own(open') = Own(o) \cup {"raster"}
            BY <1>0, <2>1, <2>2, <2>3, OpenWith DEF Roles
        <3> QED
            BY <2>3, <3>1, <3>2
    <2>5. StepOf("warp", disk', open', failures')
        BY <1>0, <2>4 DEF StepOf, SourceRole
    <2> QED
        BY <1>0, <2>2, <2>4, <2>5, CountsUse, GoesStep DEF Steps
<1>3. CASE RasterizeFails
    <2>1. /\ open' = Without(open, {File("response")}) /\ disk' = Without(disk, {File("response")})
          /\ FetchThrows /\ Same /\ UNCHANGED curl /\ Uses(File("response"))
          /\ UNCHANGED failures \/ Fails
        BY <1>3 DEF RasterizeFails, Unless
    <2> QED
        BY <1>0, <1>1, <2>1, CountsUse, FetchThrowsStep
<1> QED
    BY <1>2, <1>3

\* The source of a warp is released, and removed but for paths.
LEMMA WarpSteps ==
    ASSUME Inv, Warp \/ WarpFails
    PROVE  Inv'
<1>0. /\ At("warp") /\ Own(disk) = {SourceRole} /\ Own(open) = {SourceRole}
      /\ listed /\ step # "done" /\ index \in Nat \ {0} /\ FilesOf(disk) /\ OpenOf(open)
      /\ feature \in Features
    <2>1. At("warp")
        BY DEF Warp, WarpFails
    <2> QED
        BY <2>1, Before DEF At, StepOf
<1>1. Source = File(SourceRole) /\ SourceRole \in {"raster", "response"}
    BY DEF Source, SourceRole
<1> DEFINE o == Without(open, {File(SourceRole)})
           d == RemovesSource(disk)
<1>2. OpenOf(o) /\ Own(o) = {}
    <2>1. OpenOf(o) /\ Own(o) = Own(open) \ {SourceRole}
        BY <1>0, OpenWithout
    <2> QED
        BY <1>0, <2>1
<1>3. FilesOf(d) /\ Own(d) = Beside
    <2>1. CASE feature = "paths"
        BY <1>0, <2>1 DEF RemovesSource, Beside, SourceRole
    <2>2. CASE feature # "paths"
        <3>1. /\ FilesOf(Without(disk, {File(SourceRole)}))
              /\ Own(Without(disk, {File(SourceRole)})) = Own(disk) \ {SourceRole}
            BY <1>0, FilesWithout
        <3> QED
            BY <1>0, <1>1, <2>2, <3>1 DEF RemovesSource, Beside
    <2> QED
        BY <2>1, <2>2
<1>4. CASE Warp
    <2> DEFINE rec == [open[Source] EXCEPT !.complete = FALSE]
               to  == CASE feature = "tin" -> "unlink" [] feature = "paths" -> "release"
                        [] OTHER -> "cache"
    <2>1. rec \in Rec /\ rec.of = chunks[index] /\ rec.answer # "page"
        <3>1. Source \in DOMAIN open
            BY <1>0, <1>1 DEF Own
        <3>2. /\ open[Source] \in Rec /\ open[Source].of = chunks[index]
              /\ open[Source].answer # "page"
            BY <1>0, <3>1 DEF OpenOf
        <3> QED
            BY <3>2 DEF Rec
    <2>2. /\ disk' = With(d, File("warped"), rec) /\ open' = With(o, File("warped"), rec)
          /\ Goes(to) /\ Same /\ UNCHANGED <<curl, failures>> /\ Uses(File(SourceRole))
        BY <1>1, <1>4 DEF Warp
    <2>3. /\ feature = "tin" => to = "unlink"
          /\ feature = "paths" => to = "release"
          /\ feature \in {"terrain", "water"} => to = "cache"
        <3>1. CASE feature = "tin"
            BY <3>1
        <3>2. CASE feature = "paths"
            BY <3>2
        <3>3. CASE feature \in {"terrain", "water"}
            BY <3>3
        <3> QED
            BY <1>0, <3>1, <3>2, <3>3 DEF Features
    <2> HIDE DEF rec, d, o, to
    <2>4. FilesOf(disk') /\ Own(disk') = {"warped"} \cup Beside
        <3>1. FilesOf(disk') /\ Own(disk') = Own(d) \cup {"warped"}
            BY <1>0, <1>3, <2>1, <2>2, FilesWith DEF Roles
        <3> QED
            BY <1>3, <3>1
    <2>5. OpenOf(open') /\ Own(open') = {"warped"}
        <3>1. OpenOf(open') /\ Own(open') = Own(o) \cup {"warped"}
            BY <1>0, <1>2, <2>1, <2>2, OpenWith DEF Roles
        <3> QED
            BY <1>2, <3>1
    <2>6. Counted
        BY <1>0, <2>2, CountsUse
    <2>7. to \in Steps \ {"done"} /\ StepOf(to, disk', open', failures')
        <3>1. CASE feature = "tin"
            BY <2>3, <2>4, <2>5, <3>1 DEF StepOf, Beside, Steps
        <3>2. CASE feature = "paths"
            BY <2>3, <2>4, <2>5, <3>2 DEF StepOf, Beside, Steps
        <3>3. CASE feature \in {"terrain", "water"}
            BY <2>3, <2>4, <2>5, <3>3 DEF StepOf, Beside, Steps
        <3> QED
            BY <1>0, <3>1, <3>2, <3>3 DEF Features
    <2> QED
        BY <1>0, <2>2, <2>4, <2>5, <2>6, <2>7, GoesStep
<1>5. CASE WarpFails
    <2>1. /\ open' = o /\ disk' = d /\ FetchThrows /\ Same /\ UNCHANGED curl
          /\ Uses(File(SourceRole))
          /\ UNCHANGED failures \/ Fails
        BY <1>1, <1>5 DEF WarpFails, Unless
    <2> HIDE DEF o, d
    <2>2. Counted
        BY <1>0, <2>1, CountsUse
    <2>3. Own(disk') \subseteq {"response"} /\ (feature = "water" => Own(disk') = {})
        BY <1>3, <2>1 DEF Beside
    <2> QED
        BY <1>0, <1>2, <1>3, <2>1, <2>2, <2>3, FetchThrowsStep
<1> QED
    BY <1>4, <1>5

\* The terrain's way: the dataset outlives its file.
LEMMA TinSteps ==
    ASSUME Inv, Unlink \/ Extract
    PROVE  Inv'
<1>1. CASE Unlink
    <2>1. /\ At("unlink") /\ feature = "tin" /\ Own(disk) = {"warped"} /\ Own(open) = {"warped"}
          /\ listed /\ step # "done" /\ index \in Nat \ {0} /\ FilesOf(disk) /\ OpenOf(open)
        <3>1. At("unlink")
            BY <1>1 DEF Unlink
        <3> QED
            BY <3>1, Before DEF At, StepOf
    <2>2. /\ disk' = Without(disk, {File("warped")}) /\ Goes("extract") /\ Same
          /\ UNCHANGED <<open, curl, misused, failures>>
        BY <1>1 DEF Unlink
    <2>3. FilesOf(disk') /\ Own(disk') = Own(disk) \ {"warped"}
        BY <2>1, <2>2, FilesWithout
    <2>4. StepOf("extract", disk', open', failures')
        BY <2>1, <2>2, <2>3 DEF StepOf
    <2> QED
        BY <2>1, <2>2, <2>3, <2>4, Counts, GoesStep DEF Steps
<1>2. CASE Extract
    <2>1. /\ At("extract") /\ feature = "tin" /\ Own(disk) = {} /\ Own(open) = {"warped"}
          /\ listed /\ step # "done" /\ index \in Nat \ {0} /\ FilesOf(disk) /\ OpenOf(open)
        <3>1. At("extract")
            BY <1>2 DEF Extract
        <3> QED
            BY <3>1, Before DEF At, StepOf
    <2> DEFINE read == [open[File("warped")] EXCEPT !.complete = TRUE]
    <2>2. read \in Rec /\ ReadRight(read, index)
        <3>1. File("warped") \in DOMAIN open
            BY <2>1 DEF Own
        <3>2. /\ open[File("warped")] \in Rec /\ open[File("warped")].of = chunks[index]
              /\ open[File("warped")].answer # "page"
            BY <2>1, <3>1 DEF OpenOf
        <3> QED
            BY <3>2 DEF Rec, ReadRight
    <2>3. /\ Uses(File("warped")) /\ open' = Without(open, {File("warped")}) /\ Same
          /\ UNCHANGED <<disk, curl>>
          /\ (Through(read) /\ UNCHANGED failures) \/ (Fails /\ Throws)
        BY <1>2 DEF Extract
    <2> HIDE DEF read
    <2>4. OpenOf(open') /\ Own(open') = {}
        <3>1. OpenOf(open') /\ Own(open') = Own(open) \ {"warped"}
            BY <2>1, <2>3, OpenWithout
        <3> QED
            BY <2>1, <3>1
    <2>5. Counted
        BY <2>1, <2>3, CountsUse
    <2>6. CASE Through(read) /\ UNCHANGED failures
        BY <2>1, <2>2, <2>3, <2>4, <2>5, <2>6, ThroughStep
    <2>7. CASE Fails /\ Throws
        <3>1. StepOf("threw", disk', open', failures')
            BY <2>1, <2>3, <2>4 DEF StepOf
        <3> QED
            BY <2>1, <2>3, <2>4, <2>5, <2>7, <3>1, GoesStep DEF Throws, Steps
    <2> QED
        BY <2>3, <2>6, <2>7
<1> QED
    BY <1>1, <1>2

\* The file a feature is given is the cached one or the warped one.
LEMMA ResultFacts ==
    ASSUME NEW d, Own(d) \in {{"cached"}, {"warped"} \cup Beside}
    PROVE  /\ ResultOf(d) \in DOMAIN d
           /\ \E r \in Own(d) : r \in {"cached", "warped"} /\ ResultOf(d) = File(r)
                                /\ Own(d) \ {"response"} = {r}
BY DEF Own, ResultOf, Beside, Roles

LEMMA CacheSteps ==
    ASSUME Inv, Cache \/ Release \/ Read
    PROVE  Inv'
<1>0. Result = ResultOf(disk)
    BY DEF Result, ResultOf
<1>1. CASE Cache
    <2>1. /\ At("cache") /\ feature \in {"terrain", "water"}
          /\ Own(disk) = {"warped"} /\ Own(open) = {"warped"}
          /\ listed /\ step # "done" /\ index \in Nat \ {0} /\ FilesOf(disk) /\ OpenOf(open)
          /\ failures \in 0 .. MaxFailures
        <3>1. At("cache")
            BY <1>1 DEF Cache
        <3> QED
            BY <3>1, Before DEF At, StepOf
    <2>2. Result = File("warped")
        BY <2>1 DEF Own, Result, Roles
    <2>3. /\ Uses(File("warped")) /\ Same /\ UNCHANGED <<disk, open, curl>>
          /\ (Goes("release") /\ UNCHANGED failures) \/ (Fails /\ Throws)
        BY <1>1, <2>2 DEF Cache
    <2>4. Counted
        BY <2>1, <2>3, CountsUse
    <2>5. CASE Goes("release") /\ UNCHANGED failures
        <3>1. StepOf("release", disk', open', failures')
            BY <2>1, <2>3 DEF StepOf, Beside
        <3> QED
            BY <2>1, <2>3, <2>4, <2>5, <3>1, GoesStep DEF Steps
    <2>6. CASE Fails /\ Throws
        <3>1. StepOf("threw", disk', open', failures')
            BY <2>1, <2>3, <2>6 DEF StepOf, Fails
        <3> QED
            BY <2>1, <2>3, <2>4, <2>6, <3>1, GoesStep DEF Throws, Steps
    <2> QED
        BY <2>3, <2>5, <2>6
<1>2. CASE Release
    <2>1. /\ At("release") /\ feature # "tin" /\ Own(disk) \in {{"cached"}, {"warped"} \cup Beside}
          /\ Own(open) = Own(disk) \ {"response"}
          /\ listed /\ step # "done" /\ index \in Nat \ {0} /\ FilesOf(disk) /\ OpenOf(open)
        <3>1. At("release")
            BY <1>2 DEF Release
        <3> QED
            BY <3>1, Before DEF At, StepOf
    <2>2. PICK r \in Own(disk) : r \in {"cached", "warped"} /\ ResultOf(disk) = File(r)
                                 /\ Own(disk) \ {"response"} = {r}
        BY <2>1, ResultFacts
    <2>3. /\ Uses(File(r)) /\ open' = Without(open, {File(r)}) /\ Goes("read") /\ Same
          /\ UNCHANGED <<curl, failures>>
          /\ disk' = [disk EXCEPT ![File(r)].complete = TRUE]
        BY <1>0, <1>2, <2>2 DEF Release
    <2>4. OpenOf(open') /\ Own(open') = {}
        <3>1. OpenOf(open') /\ Own(open') = Own(open) \ {r}
            BY <2>1, <2>3, OpenWithout
        <3> QED
            BY <2>1, <2>2, <3>1
    <2>5. File(r) \in DOMAIN disk /\ disk[File(r)] \in Rec
        BY <2>1, <2>2 DEF Own, FilesOf
    <2>6. /\ DOMAIN disk' = DOMAIN disk /\ disk'[File(r)] = [disk[File(r)] EXCEPT !.complete = TRUE]
          /\ \A f \in DOMAIN disk : f # File(r) => disk'[f] = disk[f]
        BY <2>3, <2>5
    <2>7. /\ disk'[File(r)] \in Rec /\ disk'[File(r)].complete
          /\ disk'[File(r)].of = disk[File(r)].of /\ disk'[File(r)].answer = disk[File(r)].answer
        BY <2>5, <2>6 DEF Rec
    <2>8. FilesOf(disk')
        <3> SUFFICES ASSUME NEW f \in DOMAIN disk
                     PROVE  /\ f \in (1 .. index) \X Roles
                            /\ disk'[f] \in Rec /\ disk'[f].of = chunks[f[1]]
                            /\ f[2] # "response" => disk'[f].answer # "page"
                            /\ f[1] < index => Settled(f)
            BY <2>6 DEF FilesOf
        <3>1. /\ f \in (1 .. index) \X Roles
              /\ disk[f] \in Rec /\ disk[f].of = chunks[f[1]]
              /\ f[2] # "response" => disk[f].answer # "page"
              /\ f[1] < index => Settled(f)
            BY <2>1 DEF FilesOf
        <3>2. CASE f = File(r)
            BY <2>7, <3>1, <3>2
        <3>3. CASE f # File(r)
            BY <2>6, <3>1, <3>3
        <3> QED
            BY <3>2, <3>3
    <2>9. Own(disk') = Own(disk) /\ ResultOf(disk') = ResultOf(disk)
        BY <2>6 DEF Own, ResultOf
    <2>10. StepOf("read", disk', open', failures')
        BY <2>1, <2>2, <2>4, <2>7, <2>9 DEF StepOf
    <2>11. Counted
        BY <2>1, <2>2, <2>3, CountsUse
    <2> QED
        BY <2>1, <2>3, <2>4, <2>8, <2>10, <2>11, GoesStep DEF Steps
<1>3. CASE Read
    <2>1. /\ At("read") /\ feature # "tin" /\ Own(disk) \in {{"cached"}, {"warped"} \cup Beside}
          /\ Own(open) = {} /\ disk[Result].complete
          /\ listed /\ step # "done" /\ index \in Nat \ {0} /\ FilesOf(disk) /\ OpenOf(open)
        <3>1. At("read")
            BY <1>3 DEF Read
        <3> QED
            BY <1>0, <3>1, Before DEF At, StepOf
    <2>2. PICK r \in Own(disk) : r \in {"cached", "warped"} /\ ResultOf(disk) = File(r)
                                 /\ Own(disk) \ {"response"} = {r}
        BY <2>1, ResultFacts
    <2> DEFINE read == disk[Result]
    <2>3. read \in Rec /\ ReadRight(read, index)
        <3>1. File(r) \in DOMAIN disk /\ File(r)[1] = index /\ File(r)[2] = r
            BY <2>2 DEF Own, File
        <3>2. read \in Rec /\ read.of = chunks[index] /\ read.answer # "page"
            BY <1>0, <2>1, <2>2, <3>1 DEF FilesOf
        <3> QED
            BY <2>1, <3>2 DEF ReadRight
    <2>4. /\ Same /\ UNCHANGED <<disk, open, curl, misused>>
          /\ (Through(read) /\ UNCHANGED failures) \/ (Fails /\ Throws)
        BY <1>3 DEF Read
    <2> HIDE DEF read
    <2>5. Counted
        BY <2>4, Counts
    <2>6. CASE Through(read) /\ UNCHANGED failures
        <3>1. \A s \in Own(disk) : Settled(File(s))
            BY <2>1 DEF Settled, File, Beside
        <3>2. Own(disk') = Own(disk) /\ Own(open') = {} /\ FilesOf(disk') /\ OpenOf(open')
            BY <2>1, <2>4
        <3> QED
            BY <2>1, <2>3, <2>4, <2>5, <2>6, <3>1, <3>2, ThroughStep
    <2>7. CASE Fails /\ Throws
        <3>1. StepOf("threw", disk', open', failures')
            BY <2>1, <2>4 DEF StepOf, Beside
        <3> QED
            BY <2>1, <2>4, <2>5, <2>7, <3>1, GoesStep DEF Throws, Steps
    <2> QED
        BY <2>4, <2>6, <2>7
<1> QED
    BY <1>1, <1>2, <1>3

-----------------------------------------------------------------------------
LEMMA InvStep ==
    ASSUME Inv, [Next]_vars
    PROVE  Inv'
<1>1. CASE GetRequiredChunks /\ UNCHANGED fetched
    BY <1>1, ListingStep
<1>2. CASE FetchStep
    <2>1. \/ UseCached \/ Request \/ RequestFails \/ RequestThrows
          \/ Load \/ LoadFails
          \/ Rasterize \/ RasterizeFails
          \/ Warp \/ WarpFails
          \/ Unlink \/ Extract
          \/ Cache \/ Release \/ Read
        BY <1>2 DEF FetchStep
    <2> QED
        BY <2>1, RequestSteps, LoadSteps, RasterizeSteps, WarpSteps, TinSteps, CacheSteps
<1>3. CASE UNCHANGED vars
    <2>1. UNCHANGED <<inputs, list, fetched>>
        BY <1>3 DEF vars
    <2>2. /\ UNCHANGED <<boundary, convergence, drift, lat, lng, chunks, listed>>
          /\ UNCHANGED <<feature, index, step, disk, open, curl, misused, got, failures>>
        BY <2>1 DEF inputs, list, fetched
    <2>3. MinLat' = MinLat /\ MinLng' = MinLng
        BY <2>2 DEF MinLat, MinLng, Ends
    <2>4. ListInv'
        BY <2>2, <2>3 DEF Inv, ListInv
    <2>5. FilesOf(disk)' /\ OpenOf(open)'
        BY <2>2 DEF Inv, FetchInv, FilesOf, OpenOf, Settled
    <2>6. StepInv'
        <3>1. Own(disk)' = Own(disk) /\ Own(open)' = Own(open) /\ ResultOf(disk)' = ResultOf(disk)
            BY <2>2 DEF Own, ResultOf, File
        <3>2. SourceRole' = SourceRole /\ Beside' = Beside
            BY <2>2 DEF SourceRole, Beside
        <3>3. \A r \in Own(disk) : Settled(File(r)) => Settled(File(r))'
            BY <2>2 DEF Settled, File
        <3>4. StepOf(step, disk, open, failures)
            BY DEF Inv, FetchInv, StepInv
        <3> QED
            BY <2>2, <3>1, <3>2, <3>3, <3>4 DEF StepInv, StepOf
    <2>7. GotInv' /\ CountInv'
        BY <2>2 DEF Inv, FetchInv, GotInv, CountInv, ReadRight
    <2> QED
        BY <2>4, <2>5, <2>6, <2>7 DEF Inv, FetchInv
<1> QED
    BY <1>1, <1>2, <1>3 DEF Next

THEOREM Invariant == Spec => []Inv
<1>1. Init => Inv
    BY InvInit
<1>2. Inv /\ [Next]_vars => Inv'
    BY InvStep
<1> QED
    BY <1>1, <1>2, PTL DEF Spec

-----------------------------------------------------------------------------
(* The results.                                                             *)

\* Lists, files, datasets and what is read are of this list's chunks, and the
\* counters stay in bounds, at every step of fetching (ChunkManager.cpp:33-280).
THEOREM TypeCorrect == Spec => []TypeOK
<1>1. Inv => TypeOK
    <2> SUFFICES ASSUME Inv
                 PROVE  TypeOK
        OBVIOUS
    <2>1. ListInv /\ CountInv /\ FilesOf(disk) /\ OpenOf(open) /\ GotInv
        BY DEF Inv, FetchInv
    <2>2. chunks \in Seq(Int \X Int) /\ index \in Nat \ {0}
        BY <2>1 DEF ListInv, CountInv
    <2>3. \A i \in 1 .. Len(chunks) : chunks[i] \in Required
        BY <2>2 DEF Required
    <2>4. DOMAIN disk \subseteq File_ /\ \A f \in DOMAIN disk : disk[f] \in Data
        <3> SUFFICES ASSUME NEW f \in DOMAIN disk
                     PROVE  f \in File_ /\ disk[f] \in Data
            OBVIOUS
        <3>1. listed /\ index \in 1 .. Len(chunks)
            BY <2>1 DEF CountInv
        <3>2. f \in (1 .. index) \X Roles /\ disk[f] \in Rec /\ disk[f].of = chunks[f[1]]
            BY <2>1 DEF FilesOf
        <3>3. f[1] \in 1 .. Len(chunks) /\ f \in File_
            BY <2>2, <3>1, <3>2 DEF File_
        <3>4. disk[f].of \in Required
            BY <2>3, <3>2, <3>3
        <3> QED
            BY <3>2, <3>3, <3>4 DEF Rec, Data
    <2>5. DOMAIN open \subseteq File_ /\ \A f \in DOMAIN open : open[f] \in Data
        <3> SUFFICES ASSUME NEW f \in DOMAIN open
                     PROVE  f \in File_ /\ open[f] \in Data
            OBVIOUS
        <3>1. listed /\ index \in 1 .. Len(chunks)
            BY <2>1 DEF CountInv
        <3>2. f \in {index} \X Roles /\ open[f] \in Rec /\ open[f].of = chunks[index]
            BY <2>1 DEF OpenOf
        <3>3. f \in File_
            BY <2>2, <3>1, <3>2 DEF File_
        <3>4. open[f].of \in Required
            BY <2>3, <3>1, <3>2
        <3> QED
            BY <3>2, <3>3, <3>4 DEF Rec, Data
    <2>6. got \in Seq(Data) /\ Len(got) \in {index - 1, index}
        <3>1. got \in Seq(Rec) /\ Len(got) \in {index - 1, index}
            BY <2>1, <2>2 DEF GotInv
        <3>2. \A i \in 1 .. Len(got) : got[i] \in Data
            <4> SUFFICES ASSUME NEW i \in 1 .. Len(got)
                         PROVE  got[i] \in Data
                OBVIOUS
            <4>1. got[i] \in Rec /\ ReadRight(got[i], i)
                BY <2>1, <3>1 DEF GotInv
            <4>2. listed /\ index \in 1 .. Len(chunks)
                <5>1. got # <<>>
                    BY <3>1
                <5> QED
                    BY <2>1, <5>1 DEF CountInv
            <4>3. i \in 1 .. Len(chunks)
                BY <2>2, <3>1, <4>2
            <4>4. CASE got[i] = Nothing
                BY <4>1, <4>4 DEF Rec, Data
            <4>5. CASE got[i] # Nothing
                <5>1. got[i].of \in Required
                    BY <2>3, <4>1, <4>3, <4>5 DEF ReadRight
                <5> QED
                    BY <4>1, <5>1 DEF Rec, Data
            <4> QED
                BY <4>4, <4>5
        <3> QED
            BY <3>1, <3>2
    <2>7. curl \in 0 .. MaxFailures /\ failures \in 0 .. MaxFailures /\ misused \in BOOLEAN
          /\ feature \in Features /\ step \in Steps
        <3>1. failures \in 0 .. MaxFailures /\ curl \in 0 .. failures /\ misused = FALSE
              /\ feature \in Features /\ step \in Steps
            BY <2>1 DEF CountInv
        <3>2. curl \in 0 .. MaxFailures
            BY <3>1, FailuresAssumption
        <3> QED
            BY <3>1, <3>2
    <2>8. lat \in Int /\ lng \in Int /\ listed \in BOOLEAN
        BY <2>1 DEF ListInv
    <2> QED
        BY <2>2, <2>4, <2>5, <2>6, <2>7, <2>8 DEF TypeOK, Steps
<1> QED
    BY <1>1, Invariant, PTL

\* What a feature takes for a chunk is that chunk's data, complete, and never the
\* page GDAL refused (APICaller.cpp:64-75, GDALHandler.cpp:19-28).
THEOREM FeaturesReadTheirChunk == Spec => []ReadsOwnChunk
<1>1. Inv => ReadsOwnChunk
    BY DEF Inv, FetchInv, GotInv, ReadRight, ReadsOwnChunk
<1> QED
    BY <1>1, Invariant, PTL

\* Every dataset is released once, before the next chunk, whatever fails; the one
\* that leaks is the one whose caching threw (CEHTerrainFeature.cpp:138-141).
THEOREM Released == Spec => []DatasetsReleasedOnce
<1>1. Inv => DatasetsReleasedOnce
    <2> SUFFICES ASSUME Inv
                 PROVE  DatasetsReleasedOnce
        OBVIOUS
    <2>1. StepOf(step, disk, open, failures) /\ misused = FALSE /\ step \in Steps /\ OpenOf(open)
        BY DEF Inv, FetchInv, CountInv, StepInv
    <2>2. \A f \in DOMAIN open : f = File(f[2]) /\ f[2] \in Own(open)
        BY <2>1 DEF OpenOf, File, Own
    <2>3. ASSUME AtRest, DOMAIN open # {}
          PROVE  /\ step = "threw" /\ feature \in {"terrain", "water"} /\ failures > 0
                 /\ DOMAIN open = {File("warped")}
        <3>1. Own(open) # {}
            BY <2>2, <2>3
        <3>2. step = "threw"
            BY <2>1, <2>3, <3>1 DEF AtRest, StepOf
        <3>3. Own(open) = {"warped"} /\ feature \in {"terrain", "water"} /\ failures > 0
            BY <2>1, <3>1, <3>2 DEF StepOf
        <3>4. DOMAIN open = {File("warped")}
            BY <2>2, <3>3 DEF Own
        <3> QED
            BY <3>2, <3>3, <3>4
    <2> QED
        BY <2>1, <2>3 DEF DatasetsReleasedOnce
<1> QED
    BY <1>1, Invariant, PTL

\* Between two chunks and at the end only results stay, and the responses no
\* clean-up removes (ChunkManager.cpp:165-211, 270-278).
THEOREM Removed == Spec => []IntermediatesRemoved
<1>1. Inv => IntermediatesRemoved
    <2> SUFFICES ASSUME Inv, AtRest, NEW f \in DOMAIN disk
                 PROVE  /\ f[2] # "raster"
                        /\ f[2] = "response" =>
                               \/ feature = "paths"
                               \/ feature \in {"tin", "terrain"} /\ step = "threw" /\ f[1] = index
                        /\ feature = "tin" => step = "threw"
        BY DEF IntermediatesRemoved
    <2>1. /\ StepOf(step, disk, open, failures) /\ FilesOf(disk) /\ feature \in Features
          /\ index \in Nat
        BY DEF Inv, FetchInv, CountInv, StepInv
    <2>2. f \in (1 .. index) \X Roles /\ (f[1] < index => Settled(f))
        BY <2>1 DEF FilesOf
    <2>3. CASE f[1] < index
        BY <2>2, <2>3 DEF Settled
    <2>4. CASE f[1] = index
        <3>1. f = File(f[2]) /\ f[2] \in Own(disk)
            BY <2>2, <2>4 DEF File, Own
        <3>2. CASE step = "request"
            BY <2>1, <3>1, <3>2 DEF StepOf
        <3>3. CASE step = "done"
            <4>1. Settled(File(f[2]))
                BY <2>1, <3>1, <3>3 DEF StepOf
            <4> QED
                BY <3>1, <4>1 DEF Settled
        <3>4. CASE step = "threw"
            <4>1. f[2] # "raster" /\ (f[2] = "response" => feature # "water")
                BY <2>1, <3>1, <3>4 DEF StepOf
            <4> QED
                BY <2>1, <2>4, <3>4, <4>1 DEF Features
        <3> QED
            BY <3>2, <3>3, <3>4 DEF AtRest
    <2> QED
        BY <2>1, <2>2, <2>3, <2>4
<1> QED
    BY <1>1, Invariant, PTL

\* With the margin of MeshBoundary.cpp:115, source and target are safe exactly if
\* they are 80 metres apart or more, whichever way the line runs.
THEOREM SafeFromEightyMetres ==
    ASSUME Safe = 30
    PROVE  Spec => []EndsSafeFromDistance
<1>1. Inv => EndsSafeFromDistance
    <2> SUFFICES ASSUME Inv
                 PROVE  EndsSafeFromDistance
        OBVIOUS
    <2>1. boundary \in Boundaries
        BY DEF Inv, ListInv
    <2>2. IsBoundedSafe(boundary, boundary.source) <=> boundary.distance >= 80
        <3>1. \A s \in {-1, 1} : \A p : p = (IF s = -1 THEN boundary.source ELSE boundary.target)
                  => (IsBoundedSafe(boundary, p) <=> boundary.distance >= 80)
            BY <2>1, EndsSafe
        <3> QED
            BY <3>1
    <2>3. IsBoundedSafe(boundary, boundary.target) <=> boundary.distance >= 80
        <3>1. \A s \in {-1, 1} : \A p : p = (IF s = -1 THEN boundary.source ELSE boundary.target)
                  => (IsBoundedSafe(boundary, p) <=> boundary.distance >= 80)
            BY <2>1, EndsSafe
        <3> QED
            BY <3>1
    <2> QED
        BY <2>2, <2>3 DEF EndsSafeFromDistance
<1> QED
    BY <1>1, Invariant, PTL

-----------------------------------------------------------------------------
(* The enumeration as a part of the whole.                                  *)

LEMMA GridInductive ==
    ASSUME Inv, GridInv, [Next]_vars
    PROVE  GridInv'
<1>1. ListInv
    BY DEF Inv
<1>2. CASE GetRequiredChunks
    BY <1>1, <1>2, GridStep
<1>3. CASE UNCHANGED <<inputs, list>>
    <2>1. lat' = lat /\ lng' = lng /\ chunks' = chunks
        BY <1>3 DEF list
    <2>2. Rows' = Rows /\ Cols' = Cols
        BY <1>3, SameGrid
    <2>3. \A r, k, y, x, s : GridOf(r, k, y, x, s)' <=> GridOf(r, k, y, x, s)
        BY <1>3, SameGrid
    <2>4. PICK r \in 0 .. Rows, k \in 0 .. Cols : GridOf(r, k, lat, lng, chunks)
        BY DEF GridInv
    <2>5. PICK y, x, s : y = lat /\ x = lng /\ s = chunks
        OBVIOUS
    <2>6. GridOf(r, k, y, x, s)'
        BY <2>3, <2>4, <2>5
    <2> QED
        BY <2>1, <2>2, <2>5, <2>6 DEF GridInv, GridOf
<1>4. FetchStep \/ UNCHANGED vars => UNCHANGED <<inputs, list>>
    BY DEF FetchStep, UseCached, Request, RequestFails, RequestThrows, Load, LoadFails,
           Rasterize, RasterizeFails, Warp, WarpFails, Unlink, Extract, Cache, Release, Read,
           Same, vars
<1> QED
    BY <1>2, <1>3, <1>4 DEF Next

THEOREM GridInvariant == Spec => [](Inv /\ GridInv)
<1>1. Init => Inv /\ GridInv
    BY InvInit, GridInit DEF Init
<1>2. Inv /\ GridInv /\ [Next]_vars => (Inv /\ GridInv)'
    BY InvStep, GridInductive
<1> QED
    BY <1>1, <1>2, PTL DEF Spec

\* No tile is listed twice and none left out, whatever the size of a tile and of the
\* boundary, unless the enumeration begins within the rounding errors of a tile's edge
\* (ChunkManager.cpp:60-71).
THEOREM RequiredInStep == Spec => []InStepWithGrid
<1>1. Inv /\ GridInv => InStepWithGrid
    <2> SUFFICES ASSUME Inv, GridInv, Enumerated, ~Rounded
                 PROVE  /\ \A i, j \in DOMAIN chunks : i # j => chunks[i] # chunks[j]
                        /\ Required = (MinLat \div TileSize .. Max({c[1] : c \in Required}))
                                 \X (MinLng \div TileSize .. Max({c[2] : c \in Required}))
        BY DEF InStepWithGrid
    <2> DEFINE a == MinLat \div TileSize
               b == MinLng \div TileSize
               e == a + Rows - 1
               f == b + Cols - 1
    <2>1. ListInv
        BY DEF Inv
    <2>2. /\ \A i, j \in DOMAIN chunks : i # j => chunks[i] # chunks[j]
          /\ Required = (a .. e) \X (b .. f)
        BY <2>1, GridIsInStep
    <2>3. a \in Int /\ b \in Int /\ e \in Int /\ f \in Int /\ a <= e /\ b <= f
        BY <2>1, GridConstants, TileAssumption, Quotients
    <2> HIDE DEF a, b, e, f
    <2>4. {c[1] : c \in Required} = a .. e /\ {c[2] : c \in Required} = b .. f
        <3>1. \A x \in a .. e : <<x, b>> \in Required /\ <<x, b>>[1] = x
            BY <2>2, <2>3
        <3>2. \A x \in b .. f : <<a, x>> \in Required /\ <<a, x>>[2] = x
            BY <2>2, <2>3
        <3>3. \A c \in Required : c[1] \in a .. e /\ c[2] \in b .. f
            BY <2>2
        <3>4. {c[1] : c \in Required} = a .. e
            BY <3>1, <3>3
        <3>5. {c[2] : c \in Required} = b .. f
            BY <3>2, <3>3
        <3> QED
            BY <3>4, <3>5
    <2>5. Max(a .. e) = e /\ Max(b .. f) = f
        <3>1. \A x, y \in Int : x <= y => Max(x .. y) = y
            <4> SUFFICES ASSUME NEW x \in Int, NEW y \in Int, x <= y
                         PROVE  Max(x .. y) = y
                OBVIOUS
            <4>1. y \in x .. y /\ \A z \in x .. y : y >= z
                OBVIOUS
            <4>2. Max(x .. y) \in x .. y /\ \A z \in x .. y : Max(x .. y) >= z
                BY <4>1 DEF Max
            <4> QED
                BY <4>1, <4>2
        <3> QED
            BY <2>3, <3>1
    <2> QED
        BY <2>2, <2>4, <2>5 DEF a, b
<1> QED
    BY <1>1, GridInvariant, PTL

\* A bounded point lies in a required tile, or beside one by no more than the sides of
\* the box stray between its corners (ChunkManager.cpp:47-71).
THEOREM MissesNoMore == Spec => []MissesOnlySliver
<1>1. Inv /\ GridInv => MissesOnlySliver
    <2> SUFFICES ASSUME Inv, GridInv, Enumerated, ~Rounded, NEW p \in Samples
                 PROVE  \E c \in Required : \A axis \in {1, 2} :
                            LET x == ToWgs84(p, convergence)[axis] IN
                            /\ x < (c[axis] + 1) * TileSize + Sliver[axis]
                            /\ x >= c[axis] * TileSize - Sliver[axis]
        BY DEF MissesOnlySliver
    <2>1. ListInv
        BY DEF Inv
    <2>2. p \in Int \X Int /\ IsBounded(boundary, p)
        <3>1. ASSUME NEW i \in Int, NEW j \in Int
              PROVE  Every8th(i, j) \subseteq Int
            BY <3>1 DEF Every8th
        <3>2. /\ Every8th(MinX(boundary), MaxX(boundary)) \subseteq Int
              /\ Every8th(MinY(boundary), MaxY(boundary)) \subseteq Int
            BY <2>1, <3>1, CornersAreWhole DEF ListInv
        <3> QED
            BY <3>2 DEF Samples
    <2> DEFINE w == ToWgs84(p, convergence)
    <2>3. /\ Sliver[1] \in Nat /\ Sliver[2] \in Nat
          /\ w[1] \in MinLat - Sliver[1] .. MaxLat + Sliver[1]
          /\ w[2] \in MinLng - Sliver[2] .. MaxLng + Sliver[2]
        BY <2>1, <2>2, StraysASliver
    <2> HIDE DEF w
    <2>4. SomeTileHolds(MinLat, Rows, w[1], Sliver[1])
        <3>1. w[1] \in Int /\ MinLat - Sliver[1] <= w[1] /\ w[1] <= MaxLat + Sliver[1]
            BY <2>1, <2>3, GridConstants
        <3>2. ~AtEdge(MinLat, MaxLat, drift[1])
            BY DEF Rounded
        <3> QED
            BY <2>1, <2>3, <3>1, <3>2, GridConstants, AxisIsCovered DEF Rows
    <2>5. SomeTileHolds(MinLng, Cols, w[2], Sliver[2])
        <3>1. w[2] \in Int /\ MinLng - Sliver[2] <= w[2] /\ w[2] <= MaxLng + Sliver[2]
            BY <2>1, <2>3, GridConstants
        <3>2. ~AtEdge(MinLng, MaxLng, drift[2])
            BY DEF Rounded
        <3> QED
            BY <2>1, <2>3, <3>1, <3>2, GridConstants, AxisIsCovered DEF Cols
    <2>6. PICK i \in MinLat \div TileSize .. MinLat \div TileSize + Rows - 1 :
              w[1] < (i + 1) * TileSize + Sliver[1] /\ w[1] >= i * TileSize - Sliver[1]
        BY <2>4 DEF SomeTileHolds
    <2>7. PICK j \in MinLng \div TileSize .. MinLng \div TileSize + Cols - 1 :
              w[2] < (j + 1) * TileSize + Sliver[2] /\ w[2] >= j * TileSize - Sliver[2]
        BY <2>5 DEF SomeTileHolds
    <2>8. <<i, j>> \in Required
        BY <2>1, GridIsInStep
    <2> DEFINE c == <<i, j>>
    <2>9. \A axis \in {1, 2} : w[axis] < (c[axis] + 1) * TileSize + Sliver[axis]
                               /\ w[axis] >= c[axis] * TileSize - Sliver[axis]
        BY <2>6, <2>7
    <2> QED
        BY <2>8, <2>9 DEF w
<1> QED
    BY <1>1, GridInvariant, PTL
=============================================================================
