SPECIFICATION Spec
CONSTANTS
  Events = {e1, e2, e3}
  Faults <- UnitFaults
INVARIANTS
  TypeOK
  PublishedOnce
  PublishedIsCommitted
  CommittedIsPublished
SYMMETRY EventSymmetry
CHECK_DEADLOCK FALSE
