CONSTANTS
  N = 3
  QCap = 4
  Calls <- Tidy
  Garbage = {7}
  Preemptive = TRUE
  MallocFails = FALSE
  OuterLabels = {}
SPECIFICATION KeptSpec
INVARIANTS WaitSeesDeath NoAbort WaiterStillWaits WaitOK
PROPERTY JoinImplements
