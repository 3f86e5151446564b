CONSTANTS
  N = 3
  QCap = 4
  Calls <- TidyThreads
  Garbage = {7}
  Preemptive = TRUE
  MallocFails = FALSE
  OuterLabels <- SyncLabels
  mutex = mutex
  cond = cond
  queue = queue
  None = None
  Locks = {mutex}
  Cvs = {cond}
  Queues = {queue}
  Made = {mutex, cond, queue}
  SyncCalls <- TidySync
  Disciplined = TRUE
SPECIFICATION FairSyncSpec
INVARIANTS SyncNoAbort SleepOK HolderNotStuck HolderOK
PROPERTIES MonitorImplements LockTaken
