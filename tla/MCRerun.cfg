SPECIFICATION RerunSpec
CONSTANTS
  sa = sa
  sb = sb
  sc = sc
  Steps = {sa, sb, sc}
  Definitions <- AllDefinitions
  Workflows <- AllRuns
  MaxRepeatAttempts = 2
  MaxCommands = 1
  MaxReruns = 2
INVARIANTS
  RowsTellOutcomes
  RerunScopeIsClosure
  RerunReadsWhatSucceeded
PROPERTIES
  NoSuccessRepeated
CHECK_DEADLOCK FALSE
