--------------------------- MODULE MCTokenRotation ---------------------------
(* Instances of TokenRotation for TLC. *)
EXTENDS TokenRotation, TLC

RotationSymmetry ==
  Permutations(Tokens) \cup Permutations(Families) \cup Permutations(Requests)
  \cup Permutations(Logouts)
=============================================================================
