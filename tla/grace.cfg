SPECIFICATION Spec
CONSTANTS
  Tokens = {t1, t2, t3}
  Families = {f1}
  Requests = {q1, q2}
  Logouts = {}
  Faults = {}
  None = None
PROPERTIES
  GraceIsHonoured
CHECK_DEADLOCK FALSE
