CONSTANTS
  t1 = t1
  t2 = t2
  w1 = w1
  Tx = {t1, t2}
  Wallet = {w1}
  WalletOf <- SharedWallet
  maxInflightSigns = 1
  MaxCrashes = 1
  MaxDbErrors = 1
SPECIFICATION FairSpec
INVARIANTS
  TypeOK
  NoSlotLeak
  QueuedHasJob
  SubmittedAtMostOnce
PROPERTIES
  ImplementsLifecycle
  SigningEnds
  ClaimedEnds
CHECK_DEADLOCK FALSE
