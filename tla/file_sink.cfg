SPECIFICATION Spec
CONSTANTS
  f1 = f1
  Flushers = {f1}
  MaxFiles = 3
  FileMax = 2
  Lines = 10
  MaxLives = 3
INVARIANTS NewestKept  FlushReachesDisk
CHECK_DEADLOCK FALSE
