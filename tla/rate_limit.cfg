SPECIFICATION FairSpec
CONSTANTS
  u1 = u1
  None = None
  Users = {u1}
  Chats = {c1}
  Tokens = {k1}
  Starts = {l1}
  LinkFaults = FALSE
  Alerts = {a1}
  Owner <- OwnedByFirst
  Executions = {x1, x2}
  Faults = {"telegram"}
  MaxFaults = 1
PROPERTY RateLimitedIsRetried
CHECK_DEADLOCK FALSE
