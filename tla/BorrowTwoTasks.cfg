SPECIFICATION Spec
CONSTANTS
  MaxTasks = 2
  MaxAttempts = 2
  Procs = {p1}
  Requests = {r1}
  Targets = {1}
  LiveMode = TRUE
  StoreFails = FALSE
  NoProc = NoProc
SYMMETRY Symmetry
INVARIANT InFlightIsMarked
INVARIANT NoStrandedMarker
PROPERTY ResolutionKeepsStatus
PROPERTY BanEndsByStart
CHECK_DEADLOCK FALSE
