------------------------------ MODULE MCRouter ------------------------------
(***************************************************************************)
(* A mesh of six vertices and five triangles around an inner vertex 4:     *)
(*                                                                         *)
(*        1 --- 3 --- 5                                                    *)
(*         \   / \   / \                                                   *)
(*           2 --- 4 --- 6   with 2-4-6 closing it below                   *)
(*                                                                         *)
(* Every face gets a weight, Inf for an impassable one, and walking to a   *)
(* higher vertex costs one more: faces that share an edge disagree on its  *)
(* cost, and an edge costs more one way than the other.                    *)
(***************************************************************************)
EXTENDS RouterProps

MCVertices == 1 .. 6
MCFaces == {{1, 2, 3}, {2, 3, 4}, {3, 4, 5}, {2, 4, 6}, {4, 5, 6}}

\* A terrain: the weight of each face and the surcharges of the way up and down.
MCTerrains(weights, climb, fall) ==
    [weight : [MCFaces -> weights], climb : {climb}, fall : {fall}]

MCCalculate(t, f, u, v) ==
    IF t.weight[f] = Inf THEN Inf ELSE t.weight[f] + (IF u < v THEN t.climb ELSE t.fall)

\* Search: costs are a time or a distance, hence not negative; zero occurs.
SearchTerrains == MCTerrains({0, 2, Inf}, 1, 0)
SearchRegions  == {1 .. 6, {1, 2, 3, 6}, {1, 3, 4, 6}}
SearchQueries  == {<<1, 6>>, <<5, 2>>, <<3, 3>>, <<1, Nil>>, <<Nil, 1>>}
=============================================================================
