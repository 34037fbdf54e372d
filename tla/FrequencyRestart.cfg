SPECIFICATION Spec
CONSTANTS
  None = None
  Txs = {t1, t2}
  Artifacts = {ab, cap}
  Cap = {cap}
  MaxFaults = 2
  MaxResumes = 1
CHECK_DEADLOCK FALSE
INVARIANTS
  OwnFencePasses
