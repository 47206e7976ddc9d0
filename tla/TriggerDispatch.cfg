CONSTANTS
  Fires = {f1, f2}
  Lanes = {lane}
  MaxAttempts = 2
  Runtimes <- AllHandlers
SPECIFICATION FairSpec
CHECK_DEADLOCK FALSE
INVARIANTS
  TypeOK
  EventsFollowAnswers
PROPERTIES
  EveryAttemptServed
  EveryFireReported
