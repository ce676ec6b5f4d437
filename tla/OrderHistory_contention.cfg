SPECIFICATION Spec
CONSTANTS
  Order = {1}
  Queue = {"history"}
  CopyId = {0, 1, 2}
  Prefetch = 3
  OccurredAt <- MCOccurredAt
  FaultKinds = {"database", "replay"}
  MaxFaults = 3
  MaxDrops = 2
INVARIANTS
  TypeOK
  ViewMatchesLog
  DeadLetterTakesFaults
CHECK_DEADLOCK FALSE
