SPECIFICATION Spec
CONSTANTS
  Intervals <- SomeIntervals
  RecheckHours = 24
  MaxMissed = 2
INVARIANTS
  TypeOK
  PollsAreNeverLate
  EvenIntervalsAreExact
  RecheckIsBounded
