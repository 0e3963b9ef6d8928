--------------------------- MODULE MCSubscriptions ---------------------------
(* The instance of Subscriptions and OptimisticToggle for TLC. *)
EXTENDS OptimisticToggle, TLC

OneFieldEdits ==
  {[start |-> d] : d \in Ranges} \cup {[end |-> d] : d \in Ranges} \cup
  {[active |-> b] : b \in BOOLEAN \cup {None}} \cup
  {[origin |-> o] : o \in Origins} \cup {[destination |-> d] : d \in Destinations}

OneDeal == {[origin |-> "NYC", destination |-> "PAR"]}

SubsSymmetry == Permutations(Subs) \cup Permutations(Calls)
=============================================================================
