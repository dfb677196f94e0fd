CONSTANTS
  User = {u1, u2}
  Request = {r1}
  MaxCalls = 2
  MaxEvents = 1
  MaxCrashes = 0
SPECIFICATION FairSpec
PROPERTY ExecutingCloses
CHECK_DEADLOCK FALSE
