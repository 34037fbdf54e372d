SPECIFICATION Spec
CONSTANTS
  s1 = s1
  s2 = s2
  quick = quick
  None = None
  Settings = {s1, s2}
  Modes = {}
  Preset <- NoPreset
  Phases <- MCPhases
  Parts <- MCParts
  Restartable <- MCRestartable
  Redos <- MCRedos
  MaxId = 4
  MaxTxn = 1
  MaxStops = 2
CHECK_DEADLOCK FALSE
INVARIANT
  AlwaysResumable
