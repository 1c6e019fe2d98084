--------------------------- MODULE MCDataFeatures ---------------------------
(***************************************************************************)
(* A boundary over two chunks and five faces: two neighbours in one chunk, *)
(* one in the other, one whose circumcenter lies in a chunk that is not    *)
(* required, and one whose circumcenter cannot be converted.               *)
(***************************************************************************)
EXTENDS DataFeatures, TLC

CONSTANTS c1, c2, c3, f1, f2, f3, f4, f5

MCRequired == <<c1, c2>>
MCFaces    == <<f1, f2, f3, f4, f5>>
MCChunkOf  == (f1 :> c1) @@ (f2 :> c1) @@ (f3 :> c2) @@ (f4 :> c3) @@ (f5 :> Nil)
MCTruth ==
    [terrain |-> (f1 :> "BOG") @@ (f2 :> "URBAN") @@ (f3 :> "URBAN") @@ (f4 :> "BOG")
                  @@ (f5 :> "URBAN"),
     water   |-> (f1 :> "WATER") @@ (f2 :> "LAND") @@ (f3 :> "WATER") @@ (f4 :> "WATER")
                  @@ (f5 :> "WATER")]
=============================================================================
