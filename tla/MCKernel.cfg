SPECIFICATION FairSpec
CONSTANTS
  N = 3
  Absent = 99
  daemon = daemon
  stopper = stopper
  Callers = {daemon, stopper}
  Kind <- MCKind
  Graphs <- MCGraphs
  Droppable = TRUE
INVARIANTS OrderIsTheLeast LifecycleInv
PROPERTY ShutdownEnds
CHECK_DEADLOCK FALSE
