SPECIFICATION Spec
CONSTANTS
  Units = 3
  MaxStops = 4
CHECK_DEADLOCK FALSE
INVARIANTS
  RetryDiscardsStage
