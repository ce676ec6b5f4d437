SPECIFICATION FairSpec
CONSTANTS
  Outcome = {e1, e2}
  MaxSeen = 1
  Queue = {"notification"}
  CopyId = {0, 1, 2, 3}
  FaultKinds = {"email", "publish", "connection", "crash", "replay"}
  MaxFaults = 2
  MaxDrops = 1
INVARIANTS
  TypeOK
  OneEmail
  NoNotificationLost
PROPERTIES
  CustomersNotified
CHECK_DEADLOCK FALSE
