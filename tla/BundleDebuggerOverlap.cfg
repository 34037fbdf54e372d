SPECIFICATION Spec
CONSTANTS
  Owners = {o1, o2}
  Phases <- PhasesV6
  Jobs <- JobsV6
  Campaign <- NoCampaign
  Total <- TotalV6
  Retaining <- RetainingV6
INVARIANTS
  NoOverlap
CHECK_DEADLOCK FALSE
