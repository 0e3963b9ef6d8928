SPECIFICATION Spec
CONSTANTS
  None = None
  s1 = s1
  s2 = s2
  Subs = {s1, s2, s3}
  Runs = {r1, r2, r3}
  Polls = {p1, p2}
  Hooks = {}
  Evals = {}
  Sweeps = {}
  Batch = 2
  MaxTries = 2
  Provider <- MixedProviders
  Faults <- PollFaults
  Outcomes = {}
SYMMETRY PollSymmetry
INVARIANTS
  RepeatScheduleOnlyByOverlap
  StartedRunIsRecorded
CHECK_DEADLOCK FALSE
