SPECIFICATION Spec
CONSTANTS
  Legs = {spot, perp}
  Target = 2
  Threshold = 2
  Cap = 2
  TaskType = "open"
  Requests = {r1}
  Ops = {"start", "pause", "delete"}
  MaxCrashes = 1
  StoreFails = TRUE
  LookupFails = TRUE
  Laggy = FALSE
SYMMETRY Symmetry
INVARIANT OnePairAtATime
INVARIANT ClosedLegHasNoOrder
INVARIANT NeverCountedTwice
PROPERTY BrakeHolds
PROPERTY RateLimitNotCounted
CHECK_DEADLOCK FALSE
