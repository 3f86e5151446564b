CONSTANTS
  N = 3
  QCap = 90
  Calls <- KillAWaiter
  Garbage = {7}
  Preemptive = FALSE
  MallocFails = FALSE
  OuterLabels = {}
SPECIFICATION Spec
INVARIANT WaiterNotRunning
