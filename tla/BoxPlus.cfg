SPECIFICATION Spec
CONSTANTS
  CheckDegree = 4
INVARIANTS
  CombinedIsSound
CHECK_DEADLOCK FALSE
