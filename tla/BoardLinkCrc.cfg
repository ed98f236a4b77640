SPECIFICATION Spec
CONSTANTS
  Shots = 2
  MaxSeq = 3
INVARIANT
  PassMeansNoCrcError
CHECK_DEADLOCK FALSE
