SPECIFICATION FairSpec
CONSTANTS
  l1 = l1  l2 = l2  b1 = b1  s1 = s1  s2 = s2  f1 = f1
  Loggers = {l1, l2}
  Bridges = {b1}
  Level <- Levels
  Stoppers = {s1, s2}
  Flushers = {f1}
  QueueSize = 2
  BatchMax = 1
  Lines = 1
  MaxInits = 2
  NoOne = NoOne
INVARIANTS Fifo ShutdownAndFlushWrite
PROPERTIES AcceptedIsWritten ShutdownEnds
CHECK_DEADLOCK FALSE
