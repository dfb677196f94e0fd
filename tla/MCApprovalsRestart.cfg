CONSTANTS
  User = {u1, u2, u3}
  Request = {r1}
  MaxCalls = 2
  MaxEvents = 1
  MaxCrashes = 1
SPECIFICATION Spec
INVARIANT RestartTellsSent
CHECK_DEADLOCK FALSE
