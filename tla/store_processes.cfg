SPECIFICATION Spec
CONSTANTS
  t1 = t1  t2 = t2  p1 = p1  p2 = p2
  Threads = {t1, t2}
  Placements <- TwoProcesses
  Procs = {p1, p2}
  Operations = {"save", "load"}
  Values = {"v1", "v2"}
  NoValue = NoValue
  Locks = {11, 12, 13}
  Inodes = {21, 22, 23, 24}
  None = None
  MaxOps = 3
  MaxFaults = 0
INVARIANTS NeverTorn
CHECK_DEADLOCK FALSE
