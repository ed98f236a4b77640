SPECIFICATION Spec
CONSTANTS
  Logicals = {la, lb, lc}
  la = la
  lb = lb
  lc = lc
  Costs = {1, 2}
  Settings <- MCSettings
INVARIANTS
  NeverLosesExact
  QuorumRespected
  BridgedIsLastResort
PROPERTIES
  Answered
