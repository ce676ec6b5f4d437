SPECIFICATION FairSpec
CONSTANTS
  o1 = o1  o2 = o2  e1 = e1  r1 = r1  e2 = e2  v1 = v1  made = made
  Order = {o1, o2}
  Event = {e1, r1, e2}
  Value = {v1, made, 100}
  OrderOf <- MCOrderOf
  Carries <- MCCarries
  Rejection = {r1}
  MaxCitations = 1
  Question = {q1}
  Client = {c1}
  Limit = 1
  Window = 1
  DailyLimit = 3
  MaxIterations = 2
  MaxToolCallsPerTurn = 2
  LastHalfDay = 0
  MaxFacts = 1
  MaxFaults = 1
  MaxRestarts = 0
INVARIANTS
  TypeOK
  AnswersAreGrounded
  NamedIsCited
PROPERTIES
  QuestionsEnd
CHECK_DEADLOCK FALSE
