SPECIFICATION Spec
CONSTANTS
  o1 = o1
  o2 = o2
  s1 = s1
  s2 = s2
  Order = {o1, o2}
  Sku = {s1, s2}
  Queue = {"inventory", "order"}
  CopyId = {0, 1, 2}
  FaultKinds = {"database", "publish", "connection", "crash", "replay"}
  MaxFaults = 1
  MaxDrops = 1
  InitialStock <- MCInitialStock
  Demand <- MCDemand
INVARIANTS
  TypeOK
  AtMostOneOutcome
  OutcomeTruthful
  StockConserved
  PendingIsAccountedFor
  NoEventDropped
PROPERTY LifecycleSpec
CHECK_DEADLOCK FALSE
