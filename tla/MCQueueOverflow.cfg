CONSTANTS
  N = 3
  QCap = 90
  Calls <- CreateAndJoin
  Garbage = {7}
  Preemptive = FALSE
  MallocFails = FALSE
  OuterLabels = {}
SPECIFICATION Spec
INVARIANT EveryRunnableQueued
