SPECIFICATION LoadedSpec
CONSTANTS
  Worker = {w1, w2}
  PerLeg = 2
INVARIANTS
  LoadBracketsB
  BaselinesUnloaded
  NaturalIsNatural
  CompleteMeansGone
PROPERTIES
  SessionReturns
  GroupIsReaped
CHECK_DEADLOCK FALSE
