SPECIFICATION Spec
CONSTANTS
  j1 = j1
  alice = alice
  helper = helper
  None = None
  Jobs = {j1}
  Principals = {alice, helper}
  Delegates <- MCDelegates
  Specs <- EventSpecs
  Window = 1
  CronHorizon = 4
  HasStore = TRUE
  EarlyCalls = FALSE
  Abandonable = FALSE
  MaxTime = 1
  MaxGen = 1
  MaxFails = 0
  MaxEvents = 1
  EvCap = 1
  MaxWait = 0

PROPERTIES CancelStopsFutureFirings
CHECK_DEADLOCK FALSE
