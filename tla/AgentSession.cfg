SPECIFICATION Spec
CONSTANTS
  ToolSteps = {1, 2}
  MaxRuns = 1
  MaxItems = 3
  MaxDisruptions = 1
PROPERTY
  CancelStopsDispatch
CHECK_DEADLOCK FALSE
