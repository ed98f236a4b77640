SPECIFICATION CampaignSpec
CONSTANTS
  Shots = 3
  BatchSize = 2
  CaseLimit = 1
  Allowed = 1
  Starts = 2
INVARIANTS
  ExitZeroIsEarned
  FailuresAreTheWrongShots
PROPERTIES
  EndsUnlessHung
CHECK_DEADLOCK FALSE
