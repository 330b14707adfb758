SPECIFICATION Spec
CONSTANTS
  sa = sa
  sb = sb
  sc = sc
  sd = sd
  Ids = {sa, sb, sc, sd}
  Inputs <- Declarations
INVARIANTS
  ReturnIsSound
  AgreesWithPlanOrder
CHECK_DEADLOCK FALSE
