----------------------------- MODULE MCContours ------------------------------
(***************************************************************************)
(* Half metres; the limits and the six digits of the program.  The mesh     *)
(* ends at a whole metre in the south and at half a metre in the north.    *)
(***************************************************************************)
EXTENDS Contours

MCLimit     == [f \in Features |-> IF f = "paths" THEN 30 ELSE 44]
MCCrossings == {3, 36, 60}

\* Ways: short, longer than the limit, just short of twice it, over three times it, two
\* segments and back, out of the mesh and into it, to the hull, and a broken one.
MCWays == {<<6, 20>>, <<4, 49>>, <<6, 64>>, <<2, 101>>, <<10, 60, 88>>, <<20, 110, 40>>, <<88, 20>>, <<70, 150, 80, 40>>,
           <<41, 111>>, <<55, 111>>, <<118, 90>>, <<20, Nil, 30, 70>>}
\* Outlines of ground and water: along the line for a stretch, or a single point.
MCOutlines == {<<>>, << <<11, 67>> >>, << <<30>>, <<80, 30>> >>}

MCDrawings ==
    {[f \in Features |->
        CASE f = "paths"   -> <<<<way>>, IF again THEN <<Nil, way>> ELSE <<>>>>
          [] f = "terrain" -> <<outline, <<>>>>
          [] f = "water"   -> <<<<>>, <<>>>>] :
        way \in MCWays, again \in BOOLEAN, outline \in MCOutlines}
    \cup
    {[f \in Features |-> IF f = "paths" THEN <<<<v>>, <<w>>>> ELSE <<<<>>, <<>>>>] :
        v \in MCWays, w \in MCWays}
=============================================================================
