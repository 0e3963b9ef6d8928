SPECIFICATION Spec
CONSTANTS
  Accounts = {a1, a2}
  Emails = {e1, e2}
  EmailKey <- SameAddress
  Passwords = {p1, p2}
  Calls = {c1, c2, c3}
  MaxAttempts = 1
  AccountFaults = {"redis"}
  None = None
INVARIANTS
  TypeOK
  ErrorOnlyByOverlap
  ThrottleHolds
  OldPasswordSessionsEnd
SYMMETRY AccountSymmetry
CHECK_DEADLOCK FALSE
