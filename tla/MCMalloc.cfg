\* Two threads allocate and free, and may interrupt each other.  Four
\* pointers: the fourth makes the table grow from 4 to 8 buckets.
SPECIFICATION Spec
CONSTANTS
  p1 = p1
  p2 = p2
  p3 = p3
  p4 = p4
  t1 = t1
  t2 = t2
  Keys = {p1, p2, p3, p4}
  Hash <- MCHash
  Threads = {t1, t2}
  Tables = {4, 8, 16}
  Sizes = {1, 2}
  FREED = 16
  HeapBytes = 8
  MaxMallocs = 4
  MaxFrees = 2
  MaxInterrupts = 1
SYMMETRY MCSymmetry
INVARIANTS
  MallocTypeOK
  Findable
  Accounting
  KnownPointers
  NoFalseAlarm
  CountsWithin
  FreesCounted
PROPERTY RehashKeeps
CHECK_DEADLOCK FALSE
