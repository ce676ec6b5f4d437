SPECIFICATION FairSpec
CONSTANTS
  a = a  b = b  c = c  s1 = s1  s2 = s2
  Replica = {r1, r2}
  Order = {a, b, c}
  Sku = {s1, s2}
  Lines <- MCLines
  InitialStock <- MCInitialStock
  FaultKinds = {"database", "publish", "connection", "crash"}
  MaxFaults = 1
INVARIANTS
  TypeOK
  RowsGuarded
PROPERTIES
  ReservesAtomically
  OrdersDecided
CHECK_DEADLOCK FALSE
