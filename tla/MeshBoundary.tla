---------------------------- MODULE MeshBoundary ----------------------------
(***************************************************************************)
(* MeshBoundary (src/src/tsr/MeshBoundary.cpp): the rectangle around the   *)
(* straight line from source to target, inside which the terrain is        *)
(* loaded and outside of whose safe part no route is looked for.           *)
(*                                                                         *)
(* Coordinates are whole metres.  The rotation by the angle of the line    *)
(* is exact: its cosine and sine are the differences of the coordinates    *)
(* over the distance, and a rotated offset is kept multiplied by it.       *)
(***************************************************************************)
EXTENDS Integers, FiniteSetsExt

CONSTANTS
    Boundaries,     \* the boundaries asked for: [source, target, distance]
    Safe            \* SAFE_DISTANCE_M

Point == Int \X Int

Dx(b) == b.target[1] - b.source[1]
Dy(b) == b.target[2] - b.source[2]

\* The distance is CalculateXYDistance of both points; being a multiple of 8,
\* with both differences, it leaves no fractions in the rectangle.
BoundaryAssumption ==
    \A b \in Boundaries :
        /\ b.source \in Point /\ b.target \in Point /\ b.distance \in Nat
        /\ b.distance * b.distance = Dx(b) * Dx(b) + Dy(b) * Dy(b)
        /\ b.distance % 8 = 0 /\ Dx(b) % 8 = 0 /\ Dy(b) % 8 = 0
ASSUME BoundaryAssumed == BoundaryAssumption
ASSUME SafeAssumption == Safe \in Nat

Midpoint(b) == <<(b.source[1] + b.target[1]) \div 2, (b.source[2] + b.target[2]) \div 2>>

\* radius is distance / 2 times RADII_MULTIPLIER, 1.5.
Radius(b)     == (b.distance * 3) \div 4
HalfWidthOnce(b) == (b.distance) \div 2                 \* a bug: radius not added
HalfWidth(b)  == (b.distance + Radius(b)) \div 2
HalfHeight(b) == Radius(b)

\* rotatePoint, for an offset from the midpoint and times Scale; sign is -1 for
\* the rotation back.  atan2(0, 0) is 0: a line of no length is not rotated.
Scale(b) == IF b.distance = 0 THEN 1 ELSE b.distance
Cos(b)   == IF b.distance = 0 THEN 1 ELSE Dx(b)
RotatedOnly(b, x, y, sign) ==                           \* a bug: never rotated back
    <<x * Cos(b) - y * Dy(b), x * Dy(b) + y * Cos(b)>>
Rotated(b, x, y, sign) ==
    <<x * Cos(b) - sign * y * Dy(b), sign * x * Dy(b) + y * Cos(b)>>

Corners(b) ==
    {LET r == Rotated(b, i * HalfWidth(b), j * HalfHeight(b), 1) IN
     <<Midpoint(b)[1] + r[1] \div Scale(b), Midpoint(b)[2] + r[2] \div Scale(b)>>
        : i \in {-1, 1}, j \in {-1, 1}}

MinX(b) == Min({c[1] : c \in Corners(b)})
MaxX(b) == Max({c[1] : c \in Corners(b)})
MinY(b) == Min({c[2] : c \in Corners(b)})
MaxY(b) == Max({c[2] : c \in Corners(b)})

\* Despite their names these are the upper left and the lower right corner.
GetLowerLeftPoint(b)  == <<MinX(b), MaxY(b)>>
GetUpperRightPoint(b) == <<MaxX(b), MinY(b)>>

\* The point, rotated back, keeps the margin to each side of the upright rectangle.
Within(b, p, margin) ==
    LET r == Rotated(b, p[1] - Midpoint(b)[1], p[2] - Midpoint(b)[2], -1) IN
    /\ r[1] \in -Scale(b) * (HalfWidth(b) - margin) .. Scale(b) * (HalfWidth(b) - margin)
    /\ r[2] \in -Scale(b) * (HalfHeight(b) - margin) .. Scale(b) * (HalfHeight(b) - margin)

IsBounded(b, p)     == Within(b, p, 0)
IsBoundedSafe(b, p) == Within(b, p, Safe)
=============================================================================
