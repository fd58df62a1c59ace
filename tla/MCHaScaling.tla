---------------------------- MODULE MCHaScaling -----------------------------
(* Instances of HaScaling for TLC. *)
EXTENDS HaScaling, TLC
NodeSymmetry == Permutations(Nodes)
=============================================================================
