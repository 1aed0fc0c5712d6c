SPECIFICATION Spec
CONSTANTS
  Owners = {j1}
  Reapers = {j2, j3}
  Servers = {s1, s2}
SYMMETRY RegistrySymmetry
INVARIANTS
  OnlyOrphansKilled
  OrphansReaped
  ClosedIsForgotten
\* Nothing is left to do when every JVM is gone.
CHECK_DEADLOCK FALSE
