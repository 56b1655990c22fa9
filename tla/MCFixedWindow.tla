--------------------------- MODULE MCFixedWindow ----------------------------
(* Instances of FixedWindow for TLC. *)
EXTENDS FixedWindow, TLC

TaskSymmetry == Permutations(Tasks)
=============================================================================
