SPECIFICATION FairSpec
CONSTANTS
  fetch = fetch
  write = write
  s1 = s1
  s2 = s2
  tty = tty
  NoHand = NoHand
  Calls = {fetch, write}
  Scopes = {s1, s2}
  Responders = {tty}
  MaxPending = 1
  MaxQuestion = 4
  Requests <- MCRequests
  Tool <- MCTool
  Settings <- MCSettings
INVARIANTS GateInv TaintIsRemembered AnswersAreHuman
PROPERTY QuestionsEnd
CHECK_DEADLOCK FALSE
