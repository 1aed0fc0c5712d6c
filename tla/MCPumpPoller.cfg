SPECIFICATION PumpSpec
CONSTANTS
  Requests = {r1, r2}
  Cancellable = {r2}
  Batch = 2
  CanDie = FALSE
INVARIANTS
  PumpReleasesPoller
CHECK_DEADLOCK FALSE
