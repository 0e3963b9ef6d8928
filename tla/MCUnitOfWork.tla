----------------------------- MODULE MCUnitOfWork -----------------------------
(* The instance of UnitOfWork for TLC. *)
EXTENDS UnitOfWork, TLC

EventSymmetry == Permutations(Events)
=============================================================================
