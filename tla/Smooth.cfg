SPECIFICATION Spec
CONSTANTS
  Workers = {w1, w2}
  Target = 2
  Kinds <- MCKinds
  Quotes <- MCQuotes
  Quantity = 10
  Threshold = 100
  Window = 1
  MaxEvents = 3
INVARIANT NoWakeupLost
INVARIANT WatchedWhileHeld
INVARIANT MarketPairPays
PROPERTY PairOnItsGate
PROPERTY GateEnds
CHECK_DEADLOCK FALSE
