SPECIFICATION FairSpec
CONSTANTS
  Legs = {spot, perp}
  Target = 1
  Threshold = 1
  Cap = 2
  TaskType = "close"
  Requests = {r1}
  Ops = {"start", "pause", "delete", "closeGate", "gate", "fill"}
  MaxCrashes = 1
  StoreFails = FALSE
  LookupFails = FALSE
  Laggy = TRUE
INVARIANT DrainClosesTruly
PROPERTY PairSettles
CHECK_DEADLOCK FALSE
