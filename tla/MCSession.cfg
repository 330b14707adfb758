SPECIFICATION Spec
CONSTANTS
  MaxDrafts = 2
  MaxRuns = 2
  StepsPerRun = 2
  MaxEffects = 3
  MaxControls = 1
INVARIANTS
  ControlledRunIsShown
  ResultShownIsTrue
  SuccessIsSaved
PROPERTIES
  ControlIsKept
CHECK_DEADLOCK FALSE
