\* Two threads, one request of each kind: retries, restarts, late decisions.
SPECIFICATION Spec
CONSTANTS
  MaxId <- MCMaxId
  h1 = h1
  h2 = h2
  Handler <- MCHandler
INVARIANT RepayUnlockIsSafe
PROPERTY KeepsPromise
CHECK_DEADLOCK FALSE
