SPECIFICATION Spec
CONSTANTS
  Threads = {t1, t2}
  GenMask = 2
  MaxObjects = 4
  Created = {"client", "worker", "poller"}
SYMMETRY ThreadSymmetry
INVARIANTS
  LiveResolves
  StaleWithinCycle
  OwnerLive
  SingleRemover
  CallPairsMatch
\* The bound on objects lets a behaviour end with every handle freed.
CHECK_DEADLOCK FALSE
