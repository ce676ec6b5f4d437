SPECIFICATION Spec
CONSTANTS
  o1 = o1  o2 = o2  e1 = e1  r1 = r1  e2 = e2  v1 = v1  made = made
  Order = {}
  Event = {}
  Value = {}
  OrderOf <- NoFunction
  Carries <- NoFunction
  Rejection = {}
  MaxCitations = 1
  Question = {q1, q2, q3}
  Client = {c1}
  Limit = 1
  Window = 2
  DailyLimit = 1
  MaxIterations = 2
  MaxToolCallsPerTurn = 1
  LastHalfDay = 2
  MaxFacts = 0
  MaxFaults = 1
  MaxRestarts = 1
SYMMETRY Questions
INVARIANTS
  BurstBound
  WindowEnds
  ProviderDayBound
CHECK_DEADLOCK FALSE
