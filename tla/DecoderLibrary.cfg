SPECIFICATION Spec
CONSTANTS
  Calls <- MCCalls
  Windows = 2
  StageBudget = 2
  TotalBudget = 5
  ColdLoad = 2
  WarmLoad = 1
  RelayLegs = 4
  Quorum = 2
  CheckDegree = 4
  XDim = 2
  YDim = 2
  Slices = 2
  BankCount = 2
INVARIANTS
  AcceptedMeetsRequest
  EscalationIsPaidFor
  ControllersAgree
  RelayNeedsQuorum
  CheckUpdatesAgree
  CodesArePaired
  CompletionsAreExact
  ImagesAreExact
  BeatsAreConflictFree
  CircuitsRoundTrip
  PassesAndBatchesAgree
  RunsAgree
  TrialsAreSound
  MemoriesAreExact
  BatchesMayRunTogether
  DeferralIsFinal
  RetriesNeverRegress
CHECK_DEADLOCK FALSE
