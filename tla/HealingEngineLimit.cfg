CONSTANTS
  Calls = {c1, c2, c3, c4}
  Criticalities = {high}
  EnvelopeShapes <- TwoAnHour
  ActionShapes <- Reversible
  Hour = 2
  MaxNow = 4
  MaxVersions = 1
  MaxRequests = 0
SPECIFICATION Spec
SYMMETRY Interchangeable
CHECK_DEADLOCK FALSE
INVARIANTS
  RateLimited
