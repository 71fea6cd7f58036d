\* Two rows and one private panel over six instants, one trouble, two clicks or forced cycles.
SPECIFICATION SourcesSpec
CONSTANTS
  Symbols = 2
  Private = {"unified"}
  Public = {"hyperliquid"}
  MaxTime = 5
  MaxTrouble = 1
  MaxAsked = 2
  CacheTtl = 1
  FastTtl = 1
  GroupB = 3
  SlowTtl = 3
  HistoryTtl = 5
  Ahead = 4
  Batch = 1
  Cadence = 1
INVARIANT RefreshedIsRead
INVARIANT AccountDated
PROPERTY HistoryStays
CHECK_DEADLOCK FALSE
