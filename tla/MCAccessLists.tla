--------------------------- MODULE MCAccessLists ----------------------------
(* Instances of AccessLists for TLC. *)
EXTENDS AccessLists, TLC

AdminSymmetry == Permutations(Admins)
=============================================================================
