SPECIFICATION FairSpec
CONSTANTS
  Tickers = {"AAPL"}
  Symbols <- OneSymbol
  CopySymbol <- Unchanged
  Disks <- RawDisks
  Prices = {2, 8}
  WindowSize = 2
  MaxLines = 3
  MaxTime = 3
  Decide <- Sma12
  ProgressEvery = 2
  ProgressWrap = 4
  CallbackMayThrow = TRUE
  MaxPositions = 20
  LossLimitBps = 200
  InitialCapital = 100
  SlippageBps = 0
  CommissionBps = 0
  CommissionFlat = 0
INVARIANTS
  TypeOK
  EquityCurveFollowsReplay
  NeverTrades
PROPERTIES
  ReturnsUnlessOrdering
  OrderNeverLeaves
