SPECIFICATION FairSpec
CONSTANTS
  Reader = {r1, r2}
  MaxEvents = 2
  EntryTtl = 1
  ReadTicks = 1
  FaultKinds = {"command", "eviction", "restart", "database", "crash"}
  MaxFaults = 2
INVARIANTS
  TypeOK
  NoStaleHit
PROPERTIES
  StalenessEnds
CHECK_DEADLOCK FALSE
