CONSTANTS
  Wallet = {w1, w2}
  maxInflightKeygens = 1
  MaxCrashes = 1
  MaxDbErrors = 1
SPECIFICATION FairSpec
INVARIANTS
  TypeOK
  OneKeygenAtATime
  NoSlotLeak
  ReadyHasKey
PROPERTY GeneratingEnds
CHECK_DEADLOCK FALSE
