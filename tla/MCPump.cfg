SPECIFICATION PumpFairSpec
CONSTANTS
  Requests = {r1, r2}
  Cancellable = {r2}
  Batch = 1
  CanDie = TRUE
INVARIANTS
  NoOrphanHandle
PROPERTIES
  CloseEndsRequests
  CancelReachesNative
\* A closed runtime whose coroutines have all been resumed has nothing left to do.
CHECK_DEADLOCK FALSE
