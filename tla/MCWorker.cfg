SPECIFICATION FairSpec
CONSTANTS
  Streams = {k1, k2}
  Shutdowns = {s1, s2}
  MaxTasks = 1
  CanPanic = TRUE
INVARIANTS
  NoStrandedCompletion
  FinalizedOnce
PROPERTIES
  ShutdownReturns
  ImplementsStreams
  LateIsFinalized
\* A worker that has been shut down and freed has nothing left to do.
CHECK_DEADLOCK FALSE
