CONSTANTS
  N = 3
  QCap = 3
  Calls <- PingPong
  Garbage = {7}
  Preemptive = TRUE
  MallocFails = FALSE
  OuterLabels = {}
SPECIFICATION FairSpec
PROPERTIES NoStarvation JoinReturns
