SPECIFICATION FairSpec
CONSTANTS
  Instruments = {i1}
  Capacity = 2
  Fit = 1
  MaxRecords = 3
  Workers = {w1}
  Closers = {c1, c2}
  SamplerThread = sampler
  NoThread = none
INVARIANTS
  TelemetryAccounted
  HandlesLiveWhenSampled
  QuietAfterClose
PROPERTIES
  CloseReturns
\* The system may stop once the runtime is closed.
CHECK_DEADLOCK FALSE
