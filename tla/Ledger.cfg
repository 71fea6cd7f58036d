\* Three pulls and one trouble over five instants: overlap 2, horizon 3, hours of 3.
SPECIFICATION Spec
CONSTANTS
  MaxTime = 4
  MaxRuns = 3
  MaxTrouble = 1
  Overlap = 2
  Horizon = 3
  FirstPull = 1
  Hour = 3
  Spacing = 1
  Attempts = 2
  Lookback = 3
INVARIANT CompleteIsRead
INVARIANT LateRowsCaught
INVARIANT OneSuccessAnHour
CHECK_DEADLOCK FALSE
