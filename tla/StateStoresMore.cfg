SPECIFICATION StoresSpec
CONSTANTS
  Pids = {p1, p2}
  Values = {v1, v2}
  Names <- AllNames
  Unleased <- ReportNames
  Known <- KnownNames
  Collection <- PlanNames
  Verified <- ReportNames
  MaxRuns = 3
  MaxCaptures = 2
  Attempt = {a1, a2, a3, a4}
  None = None
SYMMETRY Symmetry
INVARIANTS
  ReadableOnceListed
  AlwaysReadable
  NothingInTheWay
PROPERTIES
  NeverClobbered
  CollectionSurvives
CHECK_DEADLOCK FALSE
