CONSTANTS
  N = 2
  QCap = 60
  Calls <- WaitForEachOther
  Garbage = {7}
  Preemptive = FALSE
  MallocFails = FALSE
  OuterLabels = {}
SPECIFICATION Spec
INVARIANT SuspendedUntilExit
