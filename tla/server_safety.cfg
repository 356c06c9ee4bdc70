SPECIFICATION Spec
CONSTANTS
  c1 = c1  c2 = c2
  Conns = {c1, c2}
  f1 = f1  f2 = f2
  Fds = {f1, f2}
  p1 = p1
  Pushers = {p1}
  Stalling = {}
  NoConn = NoConn
  Foreign = Foreign
  NoFd = NoFd
  MaxRuns = 2
  MaxRequests <- OneEach
  MaxPushes = 1
  MaxForeign = 1
SYMMETRY Symmetry
INVARIANTS RegistryExact ServedFdIsOwn CallbacksNeverShareFd DisconnectOnce StopReachesAll FramesWhole
CHECK_DEADLOCK FALSE
