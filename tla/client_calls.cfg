SPECIFICATION FairSpec
CONSTANTS
  t1 = t1  t2 = t2  d1 = d1  e1 = e1
  Callers = {t1, t2}
  Once = {t2}
  Large = {t1}
  Connectors = {d1}
  Closers = {e1}
  Fds = {3, 4}
  None = None
  Foreign = Foreign
  MaxConns = 4
  MaxForeign = 1
INVARIANTS ExecutionsBounded ResponseMatches
PROPERTIES CallsReturn
CHECK_DEADLOCK FALSE
