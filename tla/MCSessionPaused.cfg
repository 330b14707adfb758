SPECIFICATION Spec
CONSTANTS
  MaxDrafts = 1
  MaxRuns = 1
  StepsPerRun = 2
  MaxEffects = 2
  MaxControls = 1
PROPERTIES
  PausedStartsNoStep
CHECK_DEADLOCK FALSE
