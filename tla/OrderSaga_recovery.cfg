SPECIFICATION FairSpec
CONSTANTS
  o1 = o1
  o2 = o2
  s1 = s1
  s2 = s2
  Order = {o1}
  Sku = {s1, s2}
  Queue = {"inventory", "order"}
  CopyId = {0, 1, 2}
  FaultKinds = {"database", "publish", "crash", "replay"}
  MaxFaults = 5
  MaxDrops = 1
  InitialStock <- MCInitialStock
  Demand <- MCDemand
INVARIANT NoDomainConflict
PROPERTY OrdersConclude
CHECK_DEADLOCK FALSE
