SPECIFICATION Spec
CONSTANTS
  Tokens = {t1, t2, t3}
  Families = {f1}
  Requests = {q1, q2}
  Logouts = {o1}
  Faults <- RotationFaults
  None = None
INVARIANTS
  TypeOK
  FamilyIsAChain
  
  LogoutLeavesOnlyRacers
SYMMETRY RotationSymmetry
CHECK_DEADLOCK FALSE
