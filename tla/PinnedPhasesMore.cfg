SPECIFICATION PinnedMoreSpec
CONSTANTS
  Lane = {l1, l2}
  NoLane = NoLane
  PlanLanes = {k1, k2}
  PlanUnits = 2
  ExecFaults = 2
  None = None
  PhaseUnits = 3
  MaxStops = 4
  Observations = 2
  Segments = {1, 2, 3}
  MaxSweeps = 2
  Gaps = {4}
  MaxFaults = 2
INVARIANTS
  CommittedWhole
  FrontierAgrees
  RefusedForCause
  EnvelopeReadsBack
PROPERTIES
  FailureEndsWave
  CrashFreesLease
  GroupIsTakenDown
CHECK_DEADLOCK FALSE
