SPECIFICATION FlowFairSpec
CONSTANTS
  MaxAttempts = 1
  FloatMaxExponent = 1
  MaxOutages = 1
  r1 = r1  r2 = r2  h = h  g = g
  Request = {r1, r2}
  Get = {g}
  Header <- MCHeader
  NoId = NoId
  Body <- MCBody
  MaxQuantity <- MCMaxQuantity
  MaxPrice <- MCMaxPrice
  PoolSize = 1
  MaxFaults = 1
INVARIANTS
  FlowTypeOK
  NothingLeftBehind
  OneTrace
  AnswersAreTrue
PROPERTIES
  ServesRegardless
  FlowEnds
CHECK_DEADLOCK FALSE
