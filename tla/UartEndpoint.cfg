SPECIFICATION Spec
CONSTANTS
  MaxRequests = 3
  MaxProbes = 1
  ProbeAnytime = FALSE
  StartsLocked = TRUE
  MaxPllLosses = 0
  LoadCycles = 2
INVARIANTS
  ReplyIsOwn
PROPERTIES
  SnapshotsHeld
  ImplementsStopAndWait
