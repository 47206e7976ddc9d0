CONSTANTS
  Calls = {c1, c2}
  Criticalities = {low, high}
  EnvelopeShapes <- SmallEnvelopes
  ActionShapes <- SmallActions
  Hour = 1
  MaxNow = 2
  MaxVersions = 2
  MaxRequests = 1
SPECIFICATION FairSpec
CHECK_DEADLOCK FALSE
INVARIANTS
  TypeOK
  OutcomeTruthful
  UndoneWasReversible
PROPERTIES
  EveryTriggerSettles
