SPECIFICATION Spec
CONSTANTS
  MaxRequests = 2
  MaxProbes = 0
  ProbeAnytime = FALSE
  StartsLocked = TRUE
  MaxPllLosses = 1
  LoadCycles = 2
PROPERTY
  RequestReleased
