SPECIFICATION Spec
CONSTANTS
  Shots = 3
  MaxSeq = 3
INVARIANTS
  OwnUntilExhausted
  PassMeansOwn
  FirstErrorNeedsTwoFaults
PROPERTY
  CampaignEnds
CHECK_DEADLOCK FALSE
