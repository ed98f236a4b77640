SPECIFICATION Spec
CONSTANTS
  MaxRequests = 1
  MaxProbes = 1
  ProbeAnytime = TRUE
  StartsLocked = TRUE
  MaxPllLosses = 0
  LoadCycles = 2
PROPERTY
  AnswerIsSent
