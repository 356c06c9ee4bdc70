SPECIFICATION Spec
CONSTANTS
  c1 = c1  c2 = c2
  Conns = {c1, c2}
  f1 = f1  f2 = f2
  Fds = {f1, f2}
  p1 = p1
  Pushers = {p1}
  Stalling = {c1}
  NoConn = NoConn
  Foreign = Foreign
  NoFd = NoFd
  MaxRuns = 1
  MaxRequests <- OneEach
  MaxPushes = 1
  MaxForeign = 0
INVARIANT NothingStrays
CHECK_DEADLOCK FALSE
