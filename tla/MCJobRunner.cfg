SPECIFICATION FairSpec
CONSTANTS
  Policies <- MCPolicies
  Width = 3
  MaxDuration = 12
INVARIANT RunnerInv
PROPERTIES NoAttemptAfterCancel TimedFiringEnds
CHECK_DEADLOCK FALSE
