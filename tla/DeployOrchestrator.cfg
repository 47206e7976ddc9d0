CONSTANTS
  Deploys = {d1, d2}
  Rollbacks = {r1}
  RequestIds = {"q"}
  Images = {"a", "b"}
  Digests = {"da", "db"}
  Bodies <- SmallBodies
  Signed <- SmallSigned
  MaxAdmin = 2
SYMMETRY Interchangeable
SPECIFICATION Spec
CHECK_DEADLOCK FALSE
INVARIANTS
  TypeOK
  RequestAppliedOnce
  RunsOnlyCleared
  RolledBackWasReplaced
