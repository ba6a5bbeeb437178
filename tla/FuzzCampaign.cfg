CONSTANTS
  None = None
  Commands <- MCCommands
  Jobs = 2
  Clean <- MCClean
  Deviations <- MCDeviations
  Edits = {"riscc_rf.vh", "riscc_pipeline_shared.v"}
  MaxTime = 1
  MaxFaults = 2
  MaxCampaigns = 2
SPECIFICATION Spec
INVARIANTS  ExitTrue
PROPERTY CampaignEnds
CHECK_DEADLOCK FALSE
