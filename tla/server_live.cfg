SPECIFICATION FairSpec
CONSTANTS
  c1 = c1  c2 = c2
  Conns = {c1, c2}
  f1 = f1
  Fds = {f1}
  p1 = p1
  Pushers = {p1}
  Stalling = {c1, c2}
  NoConn = NoConn
  Foreign = Foreign
  NoFd = NoFd
  MaxRuns = 2
  MaxRequests <- OneInAll
  MaxPushes = 1
  MaxForeign = 0
PROPERTIES StopTerminates ConnectionsReaped PushReleased
CHECK_DEADLOCK FALSE
