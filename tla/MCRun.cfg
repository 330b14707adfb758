SPECIFICATION Spec
CONSTANTS
  sa = sa
  sb = sb
  sc = sc
  Steps = {sa, sb, sc}
  Workflows <- RunWorkflows
  MaxRepeatAttempts = 3
  MaxCommands = 3
INVARIANTS
  CancelIsFinal
  CompletionIsTruthful
  AttemptsAccounted
  DependenciesHonoured
PROPERTIES
  PauseHoldsWhileControlled
  ImplementsLifecycle
  CancelStopsAtTheStep
  EndIsReached
CHECK_DEADLOCK FALSE
