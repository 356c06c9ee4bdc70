SPECIFICATION FairSpec
CONSTANTS
  t1 = t1  t2 = t2  p1 = p1  p2 = p2
  Threads = {t1, t2}
  Placements <- OneOrTwo
  Procs = {p1, p2}
  Operations = {"save", "remove", "load", "cleanup"}
  Values = {"v1"}
  NoValue = NoValue
  Locks = {11, 12, 13}
  Inodes = {21, 22, 23, 24}
  None = None
  MaxOps = 3
  MaxFaults = 2
INVARIANTS LockExcludes SavedIsDurable ReadersSeeWholeValues
PROPERTIES RegisterSpec OperationsReturn
CHECK_DEADLOCK FALSE
