SPECIFICATION FairSpec
CONSTANTS
  Reservations = {r1, r2, r3}
  HalfRange = 8
  Configs <- MCConfigs
  RawOptions <- MCRawOptions
INVARIANTS
  PermitsExact
  AcceptedIsBuilt
  QueueKeepsPermit
  NoMissedChange
PROPERTIES
  NeverStuck
