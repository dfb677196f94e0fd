CONSTANTS
  Id = {i1, i2, i3, i4}
  Limit = 2
SPECIFICATION Spec
INVARIANTS
  InflightWithinLimit
  FirstInFirstOut
PROPERTY EventuallyDispatched
