SPECIFICATION Spec
CONSTANTS
  None = None
  s1 = s1
  s2 = s2
  Subs = {s1}
  Runs = {r1}
  Polls = {p1}
  Hooks = {h1, h2}
  Evals = {x1, x2, x3}
  Sweeps = {c1}
  Batch = 1
  MaxTries = 2
  Provider <- AllRegistered
  Faults <- AllFaults
  Outcomes = {"match", "nodata", "failed"}
CONSTRAINT FewProcesses
SYMMETRY HookSymmetry
INVARIANTS TypeOK CompletedIsRequested DuplicateOnlyByOverlap RepeatAlertOnlyByOverlap
PROPERTY ImplementsRunLifecycle
CHECK_DEADLOCK FALSE
