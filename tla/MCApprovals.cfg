CONSTANTS
  User = {u1, u2, u3}
  Request = {r1}
  MaxCalls = 2
  MaxEvents = 2
  MaxCrashes = 1
SPECIFICATION Spec
SYMMETRY Symmetry
INVARIANTS
  TypeOK
  EnoughApprovers
  SentAtMostOnce
  HasOwner
PROPERTIES
  StoppedNeverSent
  ClaimedByCurrentApprovers
  ImplementsRequest
  ImplementsLifecycle
  MembersKeepApprovers
CHECK_DEADLOCK FALSE
