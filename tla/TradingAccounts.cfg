SPECIFICATION Spec
CONSTANTS
  Symbols = {AAPL, IBM, MSFT}
  Prices = {2, 4}
  Strengths <- Full
  MaxFills = 3
  MaxBars = 3
  InitialCapital = 100
  MaxPositions = 2
  LossLimitBps = 500
  SlippageBps = 0
  CommissionBps = 0
  CommissionFlat = 1
CHECK_DEADLOCK FALSE
SYMMETRY Interchangeable
INVARIANTS
  BooksBalance
  PurchasesFoundRoom
  OrdersSized
  DrawdownIsWorstFall
  StatsExplainReturn
  FiguresAreNumbers
