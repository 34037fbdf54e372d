SPECIFICATION Spec
CONSTANTS
  c1 = c1
  c2 = c2
  Procs = {c1, c2}
  Cpu <- TwoCpus
  MaxHits = 1
  MaxFaults = 2
INVARIANTS
 Preservable
