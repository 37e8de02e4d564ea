SPECIFICATION Spec
CONSTANTS
  Symbols = {AAPL, MSFT}
  Prices = {4, 8}
  Strengths <- Full
  MaxFills = 3
  MaxBars = 4
  InitialCapital = 200
  MaxPositions = 20
  LossLimitBps = 500
  SlippageBps = 0
  CommissionBps = 0
  CommissionFlat = 1
CHECK_DEADLOCK FALSE
INVARIANT
  RoundTripsRealize
