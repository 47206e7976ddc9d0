CONSTANTS
  None = None
  NoStep = None
  StepIds <- MCStepIds
  Workflows <- MCWorkflows
  SignalCap = 2
  MaxSends = 3
  Detachable = TRUE
SPECIFICATION FairSpec
INVARIANTS
  TypeOK
  AttemptsInOrder
  NoEventLeftOpen
  SagaReverse
  CompensatedBeforeEnd
  GatesAudited
PROPERTIES
  ImplementsSaga
  EventuallyOver
