SPECIFICATION FairSpec
CONSTANTS
  Calls = {c1, c2}
  ReqIds = {i1, i2}
  Ops = {"client", "ephemeral", "stop", "use"}
INVARIANTS
  ExactlyOneCompletion
  FreeLeavesNothing
  NoLeakedHandle
PROPERTIES
  ImplementsOneAnswer
  FreeTerminates
\* Every call made and the runtime freed, nothing is left to do.
CHECK_DEADLOCK FALSE
