SPECIFICATION Spec
CONSTANTS
  Subs = {s1, s2}
  Dates = {1, 2}
  Origins = {"NYC"}
  Destinations = {"PAR", "TYO"}
  Deals <- OneDeal
  Calls = {c1, c2}
  Edits <- OneFieldEdits
  MaxTries = 2
  SubsFaults = {"source", "crash"}
  NetworkFaults = {"network"}
  None = None
INVARIANTS
  TypeOK
  RangeBrokenOnlyByOverlap
  DealImportedOnce
  CacheConverges
  ToggleIsShown
SYMMETRY SubsSymmetry
CHECK_DEADLOCK FALSE
