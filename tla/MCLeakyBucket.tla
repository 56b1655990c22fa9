--------------------------- MODULE MCLeakyBucket ----------------------------
(* Instances of LeakyBucket for TLC. *)
EXTENDS LeakyBucket, TLC

TaskSymmetry == Permutations(Tasks)
=============================================================================
