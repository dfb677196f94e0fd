CONSTANTS
  t1 = t1
  t2 = t2
  w1 = w1
  Tx = {t1}
  Wallet = {w1}
  WalletOf <- SharedWallet
  maxInflightSigns = 1
  MaxCrashes = 1
  MaxDbErrors = 0
SPECIFICATION FairSpec
PROPERTY BroadcastEnds
CHECK_DEADLOCK FALSE
