SPECIFICATION KitSpec
CONSTANTS
  c1 = c1
  c2 = c2
  Procs = {c1, c2}
  Cpu <- TwoCpus
  MaxHits = 1
  MaxFaults = 2
  Runs = {r1, r2}
  Preparers = {p1, p2}
  Stamps = {n1}
  None = None
  Attempts = 2
  Failures = 2
INVARIANTS
  PublishedIsFinal
  OneAtATime
  CandidateIsUndisturbed
  ArchiveIsFinal
  ReturnedIsExportable
  ConfirmationsAlone
CHECK_DEADLOCK FALSE
