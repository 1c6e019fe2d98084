---------------------------- MODULE MCTinPipeline ----------------------------
(***************************************************************************)
(* Two processes whose boundaries need the same two chunks, in different   *)
(* orders.                                                                 *)
(***************************************************************************)
EXTENDS TinPipeline, TLC

CONSTANTS p, q, c1, c2

SharedChunks == (p :> <<c1, c2>>) @@ (q :> <<c2, c1>>)
=============================================================================
