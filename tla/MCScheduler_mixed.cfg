SPECIFICATION FairSpec
CONSTANTS
  j1 = j1
  alice = alice
  helper = helper
  None = None
  Jobs = {j1}
  Principals = {alice}
  Delegates <- MCDelegates
  Specs <- MixedSpecs
  Window = 1
  CronHorizon = 4
  HasStore = TRUE
  EarlyCalls = TRUE
  Abandonable = TRUE
  MaxTime = 1
  MaxGen = 2
  MaxFails = 0
  MaxEvents = 1
  EvCap = 1
  MaxWait = 0
INVARIANTS Exclusion AtMostOnce
PROPERTIES DueIsClaimed

CHECK_DEADLOCK FALSE
