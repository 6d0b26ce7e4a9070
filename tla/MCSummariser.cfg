SPECIFICATION Spec
CONSTANTS
  alice = alice
  aide = aide
  Sessions = {s1, s2}
  Principals = {alice, aide}
  NoSession = NoSession
  Nothing = Nothing
  Writers = {w1}
  Rounds = {r1, r2}
  MayActFor <- MCMayActFor
  Entries <- MCEntries
  Budgets <- MCBudgets
  MaxRecords = 4
  Batch = 1
  Retention = 1
  MaxTime = 2
  MaxIds = 4
  KeepRecent = 1
  MinRetained = 1
  MinSummarised = 1
  RetainPercent = 50
  MaxExcerpt = 4
  RecapTokens = 1
  MarkerTokens = 1
INVARIANT TablesAgree
PROPERTIES SweepLeavesNothingDue LossIsBounded ImplementsSessionLog
SYMMETRY MCSymmetry
CONSTRAINT Narrow
