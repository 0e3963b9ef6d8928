SPECIFICATION FairSpec
CONSTANTS
  None = None
  s1 = s1
  s2 = s2
  Subs = {s1}
  Runs = {r1}
  Polls = {p1}
  Hooks = {h1}
  Evals = {x1, x2}
  Sweeps = {c1}
  Batch = 1
  MaxTries = 2
  Provider <- AllRegistered
  Faults <- AllFaults
  Outcomes = {"match", "nomatch", "failed", "aborted"}
PROPERTIES
  MatchLeadsToAlert
  PendingIsResolved
CHECK_DEADLOCK FALSE
