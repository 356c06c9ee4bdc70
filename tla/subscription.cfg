SPECIFICATION FairSpec
CONSTANTS
  t1 = t1  d1 = d1
  Cancellers = {t1}
  Disconnecters = {d1}
  Fds = {3, 4}
  Free = Free
  Foreign = Foreign
  EarlyEvents = FALSE
  LargeParams = TRUE
  SelfCalls = {"cancel", "disconnect", "subscribe"}
  MaxEvents = 2
  MaxForeign = 1
INVARIANTS CancelMeansStopped NoDescriptorLeak ShutsNoLaterConnection EndsOnlyOnRejection
PROPERTIES EventsInOrder CancelTerminates Resubscribes
CHECK_DEADLOCK FALSE
