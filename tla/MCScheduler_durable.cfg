SPECIFICATION Spec
CONSTANTS
  j1 = j1
  alice = alice
  helper = helper
  None = None
  Jobs = {j1}
  Principals = {alice}
  Delegates <- MCDelegates
  Specs <- DurableSpecs
  Window = 1
  CronHorizon = 4
  HasStore = TRUE
  EarlyCalls = FALSE
  Abandonable = FALSE
  MaxTime = 3
  MaxGen = 2
  MaxFails = 1
  MaxEvents = 0
  EvCap = 1
  MaxWait = 1
INVARIANTS TypeOK TableIsHonest
PROPERTIES StaleNeverRuns CancelledStaysCancelled
CHECK_DEADLOCK FALSE
