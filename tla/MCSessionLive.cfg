SPECIFICATION Spec
CONSTANTS
  MaxDrafts = 2
  MaxRuns = 2
  StepsPerRun = 1
  MaxEffects = 2
  MaxControls = 1
PROPERTIES
  NoRunIsStranded
  CancelComesToAResult
CHECK_DEADLOCK FALSE
