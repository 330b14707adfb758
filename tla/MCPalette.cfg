SPECIFICATION Spec
CONSTANTS
  d = d
  t = t
  Texts = {d, t}
  MayName <- MayNameWhat
  Unsendable = {d}
  MaxRuns = 2
  MaxQueue = 2
INVARIANTS
  DeletesAreAsked
  SpinnerTellsTruth
  HistoryIsOfRuns
CHECK_DEADLOCK FALSE
