SPECIFICATION FairSpec
CONSTANTS
  Owners = {o1, o2}
  Phases <- PhasesV7
  Jobs <- JobsV7
  Campaign <- CampaignV7
  Total <- TotalV7
  Retaining <- PhasesV7
INVARIANTS
  BreadcrumbClassifiable
  NoOverlap
PROPERTIES
  CommitsWhatItRan
  LedgerSpec
  OwnersStop
CHECK_DEADLOCK FALSE
