SPECIFICATION StreamFairSpec
CONSTANTS
  Receivers = {r1, r2}
  MaxPushed = 2
  MaxCancels = 1
INVARIANTS
  NoSleepOnTask
PROPERTIES
  TasksReceived
  EndReleases
\* After the end of the stream nothing is left to do.
CHECK_DEADLOCK FALSE
