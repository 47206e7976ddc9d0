CONSTANTS
  None = None
  NoStep = None
  StepIds <- MCStepIds
  Workflows <- MCWorkflows
  SignalCap = 2
  MaxSends = 2
  Detachable = FALSE
SPECIFICATION Spec
PROPERTIES
  GatePassedByItsOwnApproval
