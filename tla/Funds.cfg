\* Every kind of task of two pairs: old pages, late or failed transfers, restarts.
SPECIFICATION Spec
CONSTANTS
  Plans <- MCPlans
  Markets <- MCMarkets
  Funds <- MCFunds
  Prices <- MCPrices
  Fees <- MCFees
  MaxMoves = 1
  MaxTrouble = 1
INVARIANT QuantityFits
INVARIANT ProceedsReturn
PROPERTY PairIsCovered
CHECK_DEADLOCK FALSE
