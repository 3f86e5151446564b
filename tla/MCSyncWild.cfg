CONSTANTS
  N = 2
  QCap = 3
  Calls <- WildThreads
  Garbage = {7}
  Preemptive = TRUE
  MallocFails = TRUE
  OuterLabels <- SyncLabels
  mutex = mutex
  cond = cond
  queue = queue
  None = None
  Locks = {mutex}
  Cvs = {cond}
  Queues = {queue}
  Made = {cond, queue}
  SyncCalls <- WildSync
  Disciplined = FALSE
SPECIFICATION SyncSpec
INVARIANTS SyncTypeOK FramesOK MutualExclusion NoLostRelease SleeperQueued WokenNotLost
