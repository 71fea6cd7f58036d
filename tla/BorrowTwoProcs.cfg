SPECIFICATION Spec
CONSTANTS
  MaxTasks = 1
  MaxAttempts = 2
  Procs = {p1, p2}
  Requests = {r1}
  Targets = {1, 2}
  LiveMode = TRUE
  StoreFails = TRUE
  NoProc = NoProc
SYMMETRY Symmetry
INVARIANT SoleDispatcher
INVARIANT LoansAccounted
INVARIANT OverborrowOnlyUnconfirmed
INVARIANT QuietWhileRateLimited
PROPERTY KeepsLoanBook
CHECK_DEADLOCK FALSE
