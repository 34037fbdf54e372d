SPECIFICATION Spec
CONSTANTS
  Slots = {r1, r2}
  Settings = {turbo, cap}
  Turbo = turbo
  MaxRuns = 1
  MaxFaults = 2
INVARIANT
  HandledExitRestores
