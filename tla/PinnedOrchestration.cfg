SPECIFICATION FairSpec
CONSTANTS
  c1 = c1
  c2 = c2
  Cli <- MCCli
  Cpu = {"p", "q"}
  Waves = 3
  Controller <- MCController
  None = None
INVARIANTS
  PlacedAsScheduled
  WavesNeverOverlap
PROPERTIES
  NoCommandHangs
CHECK_DEADLOCK FALSE
