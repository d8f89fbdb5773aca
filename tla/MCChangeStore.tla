---------------------------- MODULE MCChangeStore ----------------------------
(* Instances of ChangeStore for TLC. *)
EXTENDS ChangeStore, TLC

RunSymmetry == Permutations(Runs)
=============================================================================
