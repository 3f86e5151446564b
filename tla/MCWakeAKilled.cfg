CONSTANTS
  N = 2
  QCap = 60
  Calls <- KillASleeper
  Garbage = {7}
  Preemptive = TRUE
  MallocFails = FALSE
  OuterLabels <- SyncLabels
  mutex = mutex
  cond = cond
  queue = queue
  None = None
  Locks = {mutex}
  Cvs = {cond}
  Queues = {queue}
  Made = {queue}
  SyncCalls <- SleepAndWakeup
  Disciplined = FALSE
SPECIFICATION SyncSpec
INVARIANT WokenWasAsleep
