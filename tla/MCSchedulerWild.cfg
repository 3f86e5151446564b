CONSTANTS
  N = 3
  QCap = 3
  Calls <- Wild
  Garbage = {7}
  Preemptive = TRUE
  MallocFails = TRUE
  OuterLabels = {}
SPECIFICATION Spec
INVARIANTS TypeOK ControlOK NoLostThread SleeperHasWaker StackLifetime DeadNeverRuns MaskPreserved
  ExitOnlyWhenNoneRunnable Assertions
