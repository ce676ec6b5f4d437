SPECIFICATION FairSpec
CONSTANTS
  MaxAttempts <- MCMaxAttempts
  FloatMaxExponent <- MCFloatMaxExponent
  MaxOutages = 1
PROPERTIES
  NeverNeedsRestart
CHECK_DEADLOCK FALSE
