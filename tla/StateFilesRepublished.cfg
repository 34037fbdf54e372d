\* A discovery collection, whose report is committed again on every resume.
SPECIFICATION Spec
CONSTANTS
  Pids = {p1, p2}
  Values = {v1}
  Names = {"plan", "discovery_report"}
  Unleased = {}
  Known = {"plan", "discovery_report"}
  Collection = {"plan", "discovery_report"}
  Verified = {"discovery_report"}
INVARIANTS
  RecoveryNeverStuck
