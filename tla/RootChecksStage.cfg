SPECIFICATION Spec
CONSTANTS
  Procs = {p1}
  Payloads = 2
  MaxRuns = 1
  MaxKills = 1
INVARIANT
  OrphanIsRecoverable
