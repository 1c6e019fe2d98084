-------------------------- MODULE MCFeatureManager --------------------------
(***************************************************************************)
(* Three features, whose names may be any of three, unique or shared: room *)
(* for a diamond, a cycle of three and a cycle below the output.           *)
(***************************************************************************)
EXTENDS FeatureManager, TLC

Alike == Permutations(Features) \cup Permutations(Ids)
=============================================================================
