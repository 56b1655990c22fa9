--------------------------- MODULE MCSlidingWindow ----------------------------
(* Instances of SlidingWindow for TLC. *)
EXTENDS SlidingWindow, TLC

TaskSymmetry == Permutations(Tasks)
=============================================================================
