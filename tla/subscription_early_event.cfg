SPECIFICATION Spec
CONSTANTS
  t1 = t1
  Cancellers = {t1}
  Disconnecters = {}
  Fds = {3, 4}
  Free = Free
  Foreign = Foreign
  EarlyEvents = TRUE
  LargeParams = FALSE
  SelfCalls = {}
  MaxEvents = 1
  MaxForeign = 0
INVARIANTS EndsOnlyOnRejection
CHECK_DEADLOCK FALSE
