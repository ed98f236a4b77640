SPECIFICATION Spec
CONSTANTS
  MaxRequests = 2
  MaxProbes = 0
  ProbeAnytime = FALSE
  StartsLocked = FALSE
  MaxPllLosses = 1
  LoadCycles = 2
INVARIANT
  ReplyNeedsDecode
PROPERTY
  NewestReplyIsOwn
