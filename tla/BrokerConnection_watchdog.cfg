SPECIFICATION Spec
CONSTANTS
  MaxAttempts <- MCMaxAttempts
  FloatMaxExponent <- MCFloatMaxExponent
  MaxOutages = 1
INVARIANTS
  RetriesForever
CHECK_DEADLOCK FALSE
