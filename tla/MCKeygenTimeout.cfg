CONSTANTS
  Wallet = {w1}
  maxInflightKeygens = 1
  MaxCrashes = 0
  MaxDbErrors = 0
SPECIFICATION Spec
PROPERTY TimeoutFailsGenerating
CHECK_DEADLOCK FALSE
