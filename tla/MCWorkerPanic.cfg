SPECIFICATION FairSpec
CONSTANTS
  Streams = {k1}
  Shutdowns = {s1}
  MaxTasks = 0
  CanPanic = TRUE
PROPERTIES
  ShutdownBounded
CHECK_DEADLOCK FALSE
