SPECIFICATION FairSpec
CONSTANTS
  own = own
  delegated = delegated
  person = person
  agent = agent
  Clients = {own, delegated}
  Deadlined = {own}
  FailureThreshold = 2
  MaxAttempts = 2
  Permits = 1
  MaxCount = 2
  Principals = {person, agent}
  Subjects <- MCSubjects
  Costs = {1}
  MaxTurns <- MCMaxTurns
  MaxToolCalls <- MCMaxToolCalls
  Replies = {0, 2}
  Windows = 1
  Settings <- MCSettings
INVARIANTS AgentInv BreakerAndSlotsHonest OvershootBounded
PROPERTY StoppedRunEnds
CHECK_DEADLOCK FALSE
