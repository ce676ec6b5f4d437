SPECIFICATION FairSpec
CONSTANTS
  Order = {1}
  Queue = {"history"}
  CopyId = {0, 1, 2}
  Prefetch = 1
  OccurredAt <- MCOccurredAt
  FaultKinds = {"connection", "crash"}
  MaxFaults = 2
  MaxDrops = 2
INVARIANTS
  ViewMatchesLog
  NoEventDropped
PROPERTIES
  EventsProjected
CHECK_DEADLOCK FALSE
