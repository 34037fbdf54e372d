SPECIFICATION EvidenceMoreSpec
CONSTANTS
  s1 = s1
  s2 = s2
  quick = quick
  None = None
  Settings = {s1, s2}
  Modes = {quick}
  Preset <- QuickPreset
  Phases <- MCPhases
  Parts <- MCParts
  Restartable <- MCRestartable
  Redos <- MCWideRedos
  MaxId = 3
  MaxTxn = 1
  MaxStops = 2
  Txs = {t1, t2}
  Artifacts = {ab, cap}
  Cap = {cap}
  MaxFaults = 2
  MaxResumes = 1
  Slots = {r1, r2}
  Controls = {turbo, limit}
  Turbo = turbo
  Experiments = 2
  Troubles = 3
  Procs = {p1, p2}
  Payloads = 2
  Collections = 2
  MaxKills = 1
INVARIANTS
  NothingLost
  ManifestExact
  CommandsOnce
  EvidenceKept
  ManifestIsCurrent
PROPERTIES
  RedoFinishes
  StagesFinish
  FenceExcludes
  RestoredBeforePublished
CHECK_DEADLOCK FALSE
